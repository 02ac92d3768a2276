-------------------------- MODULE SearchIndexProofs --------------------------
(* Theorems about the memory search: first SearchIndex, for any threads, keys *)
(* and limits; then Freshness, for any queries, tree and bounds.              *)
EXTENDS SearchIndex, Freshness, CacheLemmas, FiniteSetTheorems, TLAPS

(***************************************************************************)
(* Evicting touches nothing but entries with a usable snapshot, which      *)
(* become cold.  Which ones does not matter here.                          *)
(***************************************************************************)
LEMMA EvictionDropsReady ==
    ASSUME NEW E \in [Key -> Entry], NEW order
    PROVE  LET kept == evict_to_capacity(E, order).entries
           IN  /\ kept \in [Key -> Entry]
               /\ \A k \in Key : \/ kept[k] = E[k]
                                 \/ Usable(E[k]) /\ kept[k] = ColdEntry
<1>1. \A S : /\ Evict(E, S) \in [Key -> Entry]
             /\ \A k \in Key : \/ Evict(E, S)[k] = E[k]
                               \/ Usable(E[k]) /\ Evict(E, S)[k] = ColdEntry
  <2>1. ColdEntry \in Entry
    BY DEF ColdEntry, Entry, NoSnapshot, Snapshot, State
  <2>2. QED
    BY <2>1 DEF Evict
<1>2. \/ evict_to_capacity(E, order).entries = E
      \/ \E S : evict_to_capacity(E, order).entries = Evict(E, S)
  <2> DEFINE lru == reconcile_access_order(E, order)
             After(n) == Evict(E, {lru[i] : i \in 1..n})
             enough == {n \in 0..Len(lru) :
                          ~exceeds_cache_limits(After(n)) \/ n = Len(lru)}
             pops == CHOOSE n \in enough : \A m \in enough : n <= m
  <2>1. CASE exceeds_cache_limits(E)
    <3>1. evict_to_capacity(E, order).entries = After(pops)
      BY <2>1 DEF evict_to_capacity
    <3>2. QED
      BY <3>1
  <2>2. CASE ~exceeds_cache_limits(E)
    BY <2>2 DEF evict_to_capacity
  <2>3. QED
    BY <2>1, <2>2
<1>3. QED
  BY <1>1, <1>2

\* Using a snapshot evicts, and changes no other entry.
LEMMA UseSnapshotDropsReady ==
    ASSUME NEW E \in [Key -> Entry], NEW k, UseSnapshot(E, k)
    PROVE  /\ entries' \in [Key -> Entry]
           /\ \A j \in Key : \/ entries'[j] = E[j]
                             \/ Usable(E[j]) /\ entries'[j] = ColdEntry
BY EvictionDropsReady DEF UseSnapshot

-----------------------------------------------------------------------------

\* The entry each transition of IndexEntry leaves behind.
LEMMA EntryTransitions ==
    /\ ColdEntry \in Entry
    /\ \A g \in Nat : BuildingEntry(g) \in Entry
    /\ \A s \in Snapshot : PublishedEntry(s) \in Entry
    /\ \A e \in Error, g \in Nat : Unavailable(e, g) \in Entry
    /\ \A e \in Entry : mark_refreshing(e) \in Entry
    /\ \A e \in Entry, full, new \in BOOLEAN :
          mark_ready_after_validation(e, full, new) \in Entry
<1> USE DEF Entry, State
<1>1. ColdEntry \in Entry
  BY DEF ColdEntry, NoSnapshot, Snapshot
<1>2. ASSUME NEW g \in Nat
      PROVE  BuildingEntry(g) \in Entry
  BY DEF BuildingEntry, ColdEntry, NoSnapshot, Snapshot
<1>3. ASSUME NEW s \in Snapshot
      PROVE  PublishedEntry(s) \in Entry
  BY DEF PublishedEntry, ColdEntry, NoSnapshot, Snapshot
<1>4. ASSUME NEW e \in Error, NEW g \in Nat
      PROVE  Unavailable(e, g) \in Entry
  BY DEF Unavailable, ColdEntry, NoSnapshot, Snapshot
<1>5. ASSUME NEW e \in Entry
      PROVE  mark_refreshing(e) \in Entry
  BY DEF mark_refreshing
<1>6. ASSUME NEW e \in Entry, NEW full \in BOOLEAN, NEW new \in BOOLEAN
      PROVE  mark_ready_after_validation(e, full, new) \in Entry
  <2> e.queries + 1 \in Nat /\ e.certified \in BOOLEAN
    OBVIOUS
  <2>1. CASE full /\ new
    BY <2>1 DEF mark_ready_after_validation
  <2>2. CASE full /\ ~new
    BY <2>2 DEF mark_ready_after_validation
  <2>3. CASE ~full /\ new
    BY <2>3 DEF mark_ready_after_validation
  <2>4. CASE ~full /\ ~new
    BY <2>4 DEF mark_ready_after_validation
  <2>5. QED
    BY <2>1, <2>2, <2>3, <2>4
<1>7. QED
  BY <1>1, <1>2, <1>3, <1>4, <1>5, <1>6

\* A returning request leaves typed locals behind.
LEMMA ReturnTyping ==
    ASSUME TypeOK, NEW t \in Thread, NEW o \in Error \cup {"ok"}, Return(t, o)
    PROVE  /\ pc' \in [Thread -> Pc]
           /\ outcome' \in [Thread -> Error \cup {"none", "ok"}]
           /\ snap' \in [Thread -> Snapshot]
           /\ gen' \in [Thread -> Nat]
           /\ condvar' \in [Thread -> Nat]
           /\ deduped' \in [Thread -> BOOLEAN]
           /\ admission' \in [Thread -> Admission]
           /\ expired' \in [Thread -> BOOLEAN]
           /\ cancelled' \in [Thread -> BOOLEAN]
<1>1. NoSnapshot \in Snapshot /\ NoAdmission \in Admission
  BY DEF NoSnapshot, Snapshot, NoAdmission, Admission
<1>2. QED
  BY <1>1 DEF TypeOK, Return, Goto, Pc

\* Init has the types.
LEMMA TypingInit == Init => TypeOK
BY EntryTransitions, SearchIndexAssumption
   DEF Init, TypeOK, Pc, NoSnapshot, Snapshot, NoAdmission, Admission

\* Every action keeps the types; RecordBuildFailure needs an error to record.
LEMMA TypingStep == TypeOK /\ SnapshotAccounting /\ [Next]_vars => TypeOK'
<1> SUFFICES ASSUME TypeOK, SnapshotAccounting, [Next]_vars
             PROVE  TypeOK'
  OBVIOUS
<1> USE DEF request, flags, manager
<1>1. ASSUME NEW t \in Thread, NEW k \in Key, Start(t, k)
      PROVE  TypeOK'
  BY <1>1 DEF TypeOK, Pc, Goto, Start
<1>2. ASSUME NEW t \in Thread, Expire(t)
      PROVE  TypeOK'
  BY <1>2 DEF TypeOK, Expire
<1>3. ASSUME NEW t \in Thread, Cancel(t)
      PROVE  TypeOK'
  BY <1>3 DEF TypeOK, Cancel
<1>4. ASSUME NEW t \in Thread, WakeSpuriously(t)
      PROVE  TypeOK'
  BY <1>4 DEF TypeOK, Pc, Goto, WakeSpuriously
<1>5. ASSUME NEW t \in Thread, AcquireCached(t)
      PROVE  TypeOK'
  <2>1. entries' \in [Key -> Entry]
    BY <1>5, UseSnapshotDropsReady DEF TypeOK, AcquireCached
  <2>2. CASE t \in Warmer
    BY <2>1, <2>2, <1>5, ReturnTyping DEF TypeOK, AcquireCached
  <2>3. CASE t \notin Warmer
    <3>1. Current(t).snap \in Snapshot
      BY DEF TypeOK, Current, Entry
    <3>2. QED
      BY <2>1, <2>3, <3>1, <1>5 DEF TypeOK, Pc, Goto, AcquireCached
  <2>4. QED
    BY <2>2, <2>3
<1>6. ASSUME NEW t \in Thread, AcquireTimesOut(t)
      PROVE  TypeOK'
  BY <1>6, ReturnTyping DEF TypeOK, AcquireTimesOut, Error
<1>7. ASSUME NEW t \in Thread, AcquireWaits(t)
      PROVE  TypeOK'
  BY <1>7 DEF TypeOK, Pc, Goto, AcquireWaits
<1>8. ASSUME NEW t \in Thread, AcquireInherits(t)
      PROVE  TypeOK'
  <2>1. Current(t).err \in Error
    BY <1>8 DEF TypeOK, AcquireInherits, InheritsError, Current, Entry
  <2>2. QED
    BY <2>1, <1>8, ReturnTyping DEF TypeOK, AcquireInherits
<1>9. ASSUME NEW t \in Thread, AcquireReserves(t)
      PROVE  TypeOK'
  BY EntryTransitions, <1>9 DEF TypeOK, Pc, Goto, AcquireReserves,
     begin_build
<1>10. ASSUME NEW t \in Thread, WakeAtDeadline(t)
      PROVE  TypeOK'
  BY <1>10 DEF TypeOK, Pc, Goto, WakeAtDeadline
<1>11. ASSUME NEW t \in Thread, BuildSucceeds(t)
      PROVE  TypeOK'
  BY <1>11, SearchIndexAssumption DEF TypeOK, Pc, Goto, BuildSucceeds, Snapshot
<1>12. ASSUME NEW t \in Thread, BuildFails(t)
      PROVE  TypeOK'
  BY <1>12 DEF TypeOK, Pc, Goto, BuildFails, PerRequestErrors, Error
<1>13. ASSUME NEW t \in Thread, Publish(t)
      PROVE  TypeOK'
  <2>1. [entries EXCEPT ![key[t]] = PublishedEntry(snap[t])] \in [Key -> Entry]
    BY EntryTransitions DEF TypeOK
  <2>2. entries' \in [Key -> Entry]
    BY <2>1, <1>13, UseSnapshotDropsReady DEF TypeOK, Publish
  <2>3. Current(t).snap \in Snapshot
    BY DEF TypeOK, Current, Entry
  <2>4. QED
    BY <2>2, <2>3, <1>13 DEF TypeOK, Pc, Goto, Publish, TakeCondvar
<1>14. ASSUME NEW t \in Thread, RecordBuildFailure(t)
      PROVE  TypeOK'
  <2>1. outcome[t] \in Error /\ entries[key[t]] \in Entry /\ gen[t] \in Nat
    BY <1>14 DEF TypeOK, SnapshotAccounting, RecordBuildFailure
  <2>2. record_build_failure(entries[key[t]], gen[t], outcome[t]) \in Entry
    BY <2>1, EntryTransitions DEF record_build_failure
  <2>3. QED
    BY <2>2, <1>14 DEF TypeOK, Pc, Goto, RecordBuildFailure, TakeCondvar
<1>15. ASSUME NEW t \in Thread, NotifyAll(t)
      PROVE  TypeOK'
  BY <1>15 DEF TypeOK, Pc, NotifyAll, NoSnapshot, Snapshot
<1>16. ASSUME NEW t \in Thread, VerifySucceeds(t)
      PROVE  TypeOK'
  BY <1>16 DEF TypeOK, Pc, Goto, VerifySucceeds
<1>17. ASSUME NEW t \in Thread, VerifyFails(t)
      PROVE  TypeOK'
  BY <1>17, ReturnTyping DEF TypeOK, VerifyFails, PerRequestErrors, Error
<1>18. ASSUME NEW t \in Thread, BeginValidation(t)
      PROVE  TypeOK'
  <2>1. Current(t) \in Entry
    BY DEF TypeOK, Current
  <2>2. entries' \in [Key -> Entry]
    BY <2>1, EntryTransitions, <1>18 DEF TypeOK, BeginValidation, Current
  <2>3. admission' \in [Thread -> Admission]
    <3>1. Current(t).certified \in BOOLEAN
      BY <2>1 DEF Entry
    <3>2. full_validation_due(Current(t)) \in BOOLEAN
      BY DEF full_validation_due
    <3>3. \A f, c \in BOOLEAN : [full |-> f, certified |-> c] \in Admission
      BY DEF Admission
    <3>4. PICK f, c \in BOOLEAN :
            admission' = [admission EXCEPT ![t] = [full |-> f, certified |-> c]]
      BY <3>1, <3>2, <1>18 DEF BeginValidation
    <3>5. QED
      BY <3>3, <3>4 DEF TypeOK
  <2>4. /\ pc' = [pc EXCEPT ![t] = "validate"]
        /\ UNCHANGED <<nextGen, inProgress, key, snap, gen, condvar, deduped, outcome>>
        /\ UNCHANGED <<expired, cancelled, budget>>
    BY <1>18 DEF BeginValidation, Goto
  <2>5. pc' \in [Thread -> Pc]
    BY <2>4 DEF TypeOK, Pc
  <2>6. QED
    BY <2>2, <2>3, <2>4, <2>5 DEF TypeOK
<1>19. ASSUME NEW t \in Thread, ValidationSucceeds(t)
      PROVE  TypeOK'
  <2>1. entries' \in [Key -> Entry]
    <3>1. PICK f, c \in BOOLEAN :
            entries' \in {entries,
                         [entries EXCEPT ![key[t]] =
                            mark_ready_after_validation(entries[key[t]], f, c)]}
      BY <1>19 DEF ValidationSucceeds
    <3>2. mark_ready_after_validation(entries[key[t]], f, c) \in Entry
      BY EntryTransitions DEF TypeOK
    <3>3. QED
      BY <3>1, <3>2 DEF TypeOK
  <2>2. QED
    BY <2>1, <1>19, ReturnTyping DEF TypeOK, ValidationSucceeds, Error
<1>20. ASSUME NEW t \in Thread, ValidationFails(t)
      PROVE  TypeOK'
  <2>1. PICK e \in {"changed", "fault"} \cup PerRequestErrors(t) :
          /\ entries' \in {entries, [entries EXCEPT
                                     ![key[t]] = Unavailable(e, @.gen)]}
          /\ Return(t, e)
          /\ UNCHANGED <<nextGen, inProgress, request>>
    BY <1>20 DEF ValidationFails
  <2>2. e \in Error
    BY DEF PerRequestErrors, Error
  <2>3. Unavailable(e, entries[key[t]].gen) \in Entry
    <3>1. entries[key[t]].gen \in Nat
      BY DEF TypeOK, Entry
    <3>2. QED
      BY <2>2, <3>1, EntryTransitions
  <2>4. entries' \in [Key -> Entry]
    BY <2>1, <2>3 DEF TypeOK
  <2>5. QED
    <3>1. e \in Error \cup {"ok"} /\ Return(t, e)
      BY <2>1, <2>2
    <3>2. QED
      BY <2>1, <2>4, <3>1, ReturnTyping DEF TypeOK
<1>21. CASE UNCHANGED vars
  BY <1>21 DEF TypeOK, vars
<1>22. QED
  BY <1>1, <1>2, <1>3, <1>4, <1>5, <1>6, <1>7, <1>8, <1>9, <1>10, <1>11, <1>12,
     <1>13, <1>14, <1>15, <1>16, <1>17, <1>18, <1>19, <1>20, <1>21 DEF Next,
     Step, Quiet

-----------------------------------------------------------------------------

\* Nothing is held initially.
LEMMA AccountingInit == Init => SnapshotAccounting
BY DEF Init, SnapshotAccounting, ColdEntry

\* Every action keeps what the requests and entries must hold.
LEMMA AccountingStep ==
    TypeOK /\ SnapshotAccounting /\ [Next]_vars => SnapshotAccounting'
<1> SUFFICES ASSUME TypeOK, SnapshotAccounting, [Next]_vars
             PROVE  SnapshotAccounting'
  OBVIOUS
<1> USE DEF request, flags, manager
<1>1. ASSUME NEW t \in Thread, NEW k \in Key, Start(t, k)
      PROVE  SnapshotAccounting'
  BY <1>1 DEF SnapshotAccounting, Start, Goto, TypeOK
<1>2. ASSUME NEW t \in Thread, Expire(t)
      PROVE  SnapshotAccounting'
  BY <1>2 DEF SnapshotAccounting, Expire
<1>3. ASSUME NEW t \in Thread, Cancel(t)
      PROVE  SnapshotAccounting'
  BY <1>3 DEF SnapshotAccounting, Cancel
<1>4. ASSUME NEW t \in Thread, WakeSpuriously(t)
      PROVE  SnapshotAccounting'
  BY <1>4 DEF SnapshotAccounting, WakeSpuriously, Goto, TypeOK
<1>5. ASSUME NEW t \in Thread, AcquireCached(t)
      PROVE  SnapshotAccounting'
  <2>1. entries \in [Key -> Entry] /\ key[t] \in Key
    BY DEF TypeOK
  <2>2. \A k \in Key : entries'[k].state \notin {"ready", "refreshing"}
                         => entries'[k].snap = NoSnapshot
    BY <2>1, <1>5, UseSnapshotDropsReady DEF SnapshotAccounting, AcquireCached,
       ColdEntry
  <2>3. QED
    BY <2>2, <1>5 DEF SnapshotAccounting, AcquireCached, Goto, Return, Current,
       Usable, TypeOK
<1>6. ASSUME NEW t \in Thread, AcquireTimesOut(t)
      PROVE  SnapshotAccounting'
  BY <1>6 DEF SnapshotAccounting, AcquireTimesOut, Return, Goto, TypeOK
<1>7. ASSUME NEW t \in Thread, AcquireWaits(t)
      PROVE  SnapshotAccounting'
  BY <1>7 DEF SnapshotAccounting, AcquireWaits, Goto, TypeOK
<1>8. ASSUME NEW t \in Thread, AcquireInherits(t)
      PROVE  SnapshotAccounting'
  BY <1>8 DEF SnapshotAccounting, AcquireInherits, Return, Goto, TypeOK
<1>9. ASSUME NEW t \in Thread, AcquireReserves(t)
      PROVE  SnapshotAccounting'
  BY <1>9 DEF SnapshotAccounting, AcquireReserves, Goto, begin_build, TypeOK,
     BuildingEntry, ColdEntry
<1>10. ASSUME NEW t \in Thread, WakeAtDeadline(t)
      PROVE  SnapshotAccounting'
  BY <1>10 DEF SnapshotAccounting, WakeAtDeadline, Goto, TypeOK
<1>11. ASSUME NEW t \in Thread, BuildSucceeds(t)
      PROVE  SnapshotAccounting'
  BY <1>11 DEF SnapshotAccounting, BuildSucceeds, Goto, NoSnapshot, TypeOK
<1>12. ASSUME NEW t \in Thread, BuildFails(t)
      PROVE  SnapshotAccounting'
  BY <1>12 DEF SnapshotAccounting, BuildFails, Goto, PerRequestErrors, Error,
     TypeOK
<1>13. ASSUME NEW t \in Thread, Publish(t)
      PROVE  SnapshotAccounting'
  <2>1. entries \in [Key -> Entry] /\ key[t] \in Key /\ snap[t] # NoSnapshot
    BY <1>13 DEF TypeOK, SnapshotAccounting, Publish
  <2>2. \A k \in Key : entries'[k].state \notin {"ready", "refreshing"}
                         => entries'[k].snap = NoSnapshot
    <3>1. CASE Usable(Current(t))
      BY <2>1, <3>1, <1>13, UseSnapshotDropsReady DEF SnapshotAccounting,
         Publish,
         ColdEntry
    <3>2. CASE ~Usable(Current(t))
      <4> DEFINE E == [entries EXCEPT ![key[t]] = PublishedEntry(snap[t])]
      <4>1. E \in [Key -> Entry]
        BY <2>1, EntryTransitions DEF TypeOK
      <4>2. UseSnapshot(E, key[t])
        BY <3>2, <1>13 DEF Publish
      <4>3. \A k \in Key : E[k].state \notin {"ready", "refreshing"}
                           => E[k].snap = NoSnapshot
        BY <2>1 DEF SnapshotAccounting, PublishedEntry
      <4> HIDE DEF E
      <4>4. \A k \in Key : entries'[k] = E[k] \/ entries'[k] = ColdEntry
        BY <4>1, <4>2, UseSnapshotDropsReady
      <4>5. QED
        BY <4>3, <4>4 DEF ColdEntry
    <3>3. QED
      BY <3>1, <3>2
  <2>3. snap'[t] # NoSnapshot
    BY <2>1, <1>13 DEF Publish, Usable, TypeOK
  <2>4. QED
    BY <2>2, <2>3, <1>13 DEF SnapshotAccounting, Publish, Goto, TakeCondvar,
       TypeOK
<1>14. ASSUME NEW t \in Thread, RecordBuildFailure(t)
      PROVE  SnapshotAccounting'
  <2> DEFINE e == record_build_failure(entries[key[t]], gen[t], outcome[t])
  <2>0. entries' = [entries EXCEPT ![key[t]] = e]
    BY <1>14 DEF RecordBuildFailure
  <2>1. e \in {entries[key[t]], ColdEntry, Unavailable(outcome[t], gen[t])}
    BY DEF record_build_failure
  <2> HIDE DEF e
  <2>2. e.state \notin {"ready", "refreshing"} => e.snap = NoSnapshot
    <3>1. ColdEntry.snap = NoSnapshot
      BY DEF ColdEntry
    <3>2. Unavailable(outcome[t], gen[t]).snap = NoSnapshot
      BY DEF ColdEntry, Unavailable
    <3>3. entries[key[t]].state \notin {"ready", "refreshing"}
             => entries[key[t]].snap = NoSnapshot
      BY DEF SnapshotAccounting, TypeOK
    <3>4. QED
      BY <2>1, <3>1, <3>2, <3>3
  <2>3. QED
    BY <2>0, <2>2, <1>14 DEF SnapshotAccounting, RecordBuildFailure, Goto,
       TakeCondvar, TypeOK, Error
<1>15. ASSUME NEW t \in Thread, NotifyAll(t)
      PROVE  SnapshotAccounting'
  BY <1>15 DEF SnapshotAccounting, NotifyAll, Waiters, TypeOK, Error
<1>16. ASSUME NEW t \in Thread, VerifySucceeds(t)
      PROVE  SnapshotAccounting'
  BY <1>16 DEF SnapshotAccounting, VerifySucceeds, Goto, TypeOK
<1>17. ASSUME NEW t \in Thread, VerifyFails(t)
      PROVE  SnapshotAccounting'
  BY <1>17 DEF SnapshotAccounting, VerifyFails, Return, Goto, TypeOK
<1>18. ASSUME NEW t \in Thread, BeginValidation(t)
      PROVE  SnapshotAccounting'
  <2>1. \A e : mark_refreshing(e) = e \/ mark_refreshing(e).state = "refreshing"
    BY DEF mark_refreshing
  <2>2. PICK e : /\ entries' \in {entries, [entries EXCEPT ![key[t]] = e]}
                 /\ e = mark_refreshing(entries[key[t]])
    BY <1>18 DEF BeginValidation
  <2>3. \A k \in Key : entries'[k].state \notin {"ready", "refreshing"} =>
                         entries'[k].snap = NoSnapshot
    BY <2>1, <2>2 DEF SnapshotAccounting, TypeOK
  <2>4. /\ pc' = [pc EXCEPT ![t] = "validate"] /\ pc[t] = "admit"
        /\ UNCHANGED <<snap, gen, outcome, condvar>>
    BY <1>18 DEF BeginValidation, Goto
  <2>5. QED
    BY <2>3, <2>4 DEF SnapshotAccounting, TypeOK
<1>19. ASSUME NEW t \in Thread, ValidationSucceeds(t)
      PROVE  SnapshotAccounting'
  <2>1. \A e \in Entry, f, c \in BOOLEAN :
          mark_ready_after_validation(e, f, c).state = "ready"
    BY DEF mark_ready_after_validation, Entry
  <2>2. \A k \in Key : entries'[k] = entries[k] \/ entries'[k].state = "ready"
    BY <2>1, <1>19 DEF ValidationSucceeds, TypeOK
  <2>3. PICK o : Return(t, o)
    BY <1>19 DEF ValidationSucceeds
  <2>4. /\ pc' = [pc EXCEPT ![t] = "idle"]
        /\ \A u \in Thread \ {t} : /\ snap'[u] = snap[u] /\ gen'[u] = gen[u]
                                   /\ outcome'[u] = outcome[u]
                                   /\ condvar'[u] = condvar[u]
    BY <2>3 DEF Return, Goto, TypeOK
  <2>5. QED
    BY <2>2, <2>4 DEF SnapshotAccounting, TypeOK
<1>20. ASSUME NEW t \in Thread, ValidationFails(t)
      PROVE  SnapshotAccounting'
  <2>1. PICK e \in {"changed", "fault"} \cup PerRequestErrors(t) :
          /\ entries' \in {entries, [entries EXCEPT
                                     ![key[t]] = Unavailable(e, @.gen)]}
          /\ Return(t, e)
    BY <1>20 DEF ValidationFails
  <2>2. \A k \in Key : entries'[k] = entries[k] \/ entries'[k].snap = NoSnapshot
    BY <2>1 DEF Unavailable, ColdEntry, TypeOK
  <2>3. /\ pc' = [pc EXCEPT ![t] = "idle"]
        /\ \A u \in Thread \ {t} : /\ snap'[u] = snap[u] /\ gen'[u] = gen[u]
                                   /\ outcome'[u] = outcome[u]
                                   /\ condvar'[u] = condvar[u]
    BY <2>1 DEF Return, Goto, TypeOK
  <2>4. QED
    BY <2>2, <2>3 DEF SnapshotAccounting, TypeOK
<1>21. CASE UNCHANGED vars
  BY <1>21 DEF SnapshotAccounting, vars
<1>22. QED
  BY <1>1, <1>2, <1>3, <1>4, <1>5, <1>6, <1>7, <1>8, <1>9,
     <1>10, <1>11, <1>12, <1>13, <1>14, <1>15, <1>16, <1>17, <1>18,
     <1>19, <1>20, <1>21
     DEF Next, Step, Quiet

-----------------------------------------------------------------------------

(***************************************************************************)
(* A step keeps SingleFlight when it leaves alone the condvars of the      *)
(* builds, the entries that are building, and who builds them.             *)
(***************************************************************************)
LEMMA FlightFrame ==
    ASSUME SingleFlight,
           inProgress' = inProgress,
           \A k \in Key : \/ entries'[k] = entries[k]
                          \/ /\ entries[k].state # "building"
                             /\ entries'[k].state # "building",
           \A u \in Thread, k \in Key : Building(u, k)' <=> Building(u, k),
           \A u \in Thread, k \in Key : Building(u, k) => gen'[u] = gen[u]
    PROVE  SingleFlight'
<1> SUFFICES ASSUME NEW k \in Key
             PROVE  IF entries'[k].state = "building"
                    THEN /\ inProgress'[k] # 0
                         /\ \E t \in Thread :
                               /\ Building(t, k)' /\ gen'[t] = entries'[k].gen
                               /\ \A u \in Thread : Building(u, k)' => u = t
                    ELSE /\ inProgress'[k] = 0
                         /\ \A t \in Thread : ~Building(t, k)'
  BY DEF SingleFlight
<1>1. CASE entries'[k].state = "building"
  <2>1. entries'[k] = entries[k]
    BY <1>1
  <2>2. PICK t \in Thread : /\ Building(t, k) /\ gen[t] = entries[k].gen
                            /\ \A u \in Thread : Building(u, k) => u = t
    BY <1>1, <2>1 DEF SingleFlight
  <2>3. inProgress[k] # 0
    BY <1>1, <2>1 DEF SingleFlight
  <2>4. QED
    BY <1>1, <2>1, <2>2, <2>3
<1>2. CASE entries'[k].state # "building"
  <2>1. entries[k].state # "building"
    BY <1>2
  <2>2. QED
    BY <1>2, <2>1 DEF SingleFlight
<1>3. QED
  BY <1>1, <1>2

\* A step that takes away neither a condvar nor its notifier keeps waiters safe.
LEMMA WakeupFrame ==
    ASSUME NoLostWakeup,
           inProgress' = inProgress,
           \A u \in Thread : pc'[u] = "wait" =>
               /\ pc[u] = "wait"
               /\ condvar'[u] = condvar[u] /\ key'[u] = key[u],
           \A u \in Thread : pc[u] = "notify" =>
               pc'[u] = "notify" /\ condvar'[u] = condvar[u]
    PROVE  NoLostWakeup'
BY DEF NoLostWakeup

\* The build a validation finds its snapshot in is not running.
LEMMA CurrentIsNotBuilding ==
    ASSUME TypeOK, SnapshotAccounting, NEW t \in Thread,
           snap[t] # NoSnapshot, current_snapshot_is(t)
    PROVE  entries[key[t]].state \in {"ready", "refreshing"}
BY DEF TypeOK, SnapshotAccounting, current_snapshot_is, Current

\* The build of a key ends: its only builder takes its condvar away.
LEMMA FlightEnds ==
    ASSUME TypeOK, SingleFlight, NEW t \in Thread, Building(t, key[t]),
           entries[key[t]].state = "building",
           entries'[key[t]].state # "building",
           \A j \in Key \ {key[t]} :
              \/ entries'[j] = entries[j]
              \/ entries[j].state # "building" /\ entries'[j].state # "building",
           TakeCondvar(t), pc' = [pc EXCEPT ![t] = "notify"],
           UNCHANGED <<key, gen>>
    PROVE  SingleFlight'
<1>1. key[t] \in Key /\ inProgress' = [inProgress EXCEPT ![key[t]] = 0]
  BY DEF TypeOK, TakeCondvar
<1>2. \A u \in Thread, j \in Key : Building(u, j)' <=> u # t /\ Building(u, j)
  BY DEF Building, TypeOK
<1>3. \A u \in Thread : Building(u, key[t]) => u = t
  BY <1>1 DEF SingleFlight
<1>4. ASSUME NEW j \in Key
      PROVE  IF entries'[j].state = "building"
             THEN /\ inProgress'[j] # 0
                  /\ \E w \in Thread :
                        /\ Building(w, j)' /\ gen'[w] = entries'[j].gen
                        /\ \A u \in Thread : Building(u, j)' => u = w
             ELSE /\ inProgress'[j] = 0
                  /\ \A w \in Thread : ~Building(w, j)'
  <2>1. CASE j = key[t]
    BY <1>1, <1>2, <1>3, <2>1 DEF TypeOK
  <2>2. CASE j # key[t]
    <3>1. ~Building(t, j)
      BY <2>2 DEF Building
    <3>2. \A u \in Thread : Building(u, j)' <=> Building(u, j)
      BY <1>2, <3>1
    <3>3. inProgress'[j] = inProgress[j] /\ gen' = gen
      BY <1>1, <2>2 DEF TypeOK
    <3>4. CASE entries'[j] = entries[j]
      BY <3>2, <3>3, <3>4 DEF SingleFlight
    <3>5. CASE entries[j].state # "building" /\ entries'[j].state # "building"
      BY <3>2, <3>3, <3>5 DEF SingleFlight
    <3>6. QED
      BY <2>2, <3>4, <3>5
  <2>3. QED
    BY <2>1, <2>2
<1>5. QED
  BY <1>4 DEF SingleFlight

\* Nothing is building initially.
LEMMA SingleFlightInit == Init => SingleFlight
BY DEF Init, SingleFlight, ColdEntry, Building

\* Builds begin on keys without one and end with their entry and condvar.
LEMMA SingleFlightStep ==
    TypeOK /\ SnapshotAccounting /\ SingleFlight /\ [Next]_vars => SingleFlight'
<1> SUFFICES ASSUME TypeOK, SnapshotAccounting, SingleFlight, [Next]_vars
             PROVE  SingleFlight'
  OBVIOUS
<1> USE DEF request, flags, manager
<1>1. ASSUME NEW t \in Thread, NEW k \in Key, Start(t, k)
      PROVE  SingleFlight'
  BY <1>1, FlightFrame DEF Start, Building, TypeOK, Goto
<1>2. ASSUME NEW t \in Thread, Expire(t)
      PROVE  SingleFlight'
  BY <1>2, FlightFrame DEF Expire, Building, TypeOK, Goto
<1>3. ASSUME NEW t \in Thread, Cancel(t)
      PROVE  SingleFlight'
  BY <1>3, FlightFrame DEF Cancel, Building, TypeOK, Goto
<1>4. ASSUME NEW t \in Thread, WakeSpuriously(t)
      PROVE  SingleFlight'
  BY <1>4, FlightFrame DEF WakeSpuriously, Building, TypeOK, Goto
<1>5. ASSUME NEW t \in Thread, AcquireCached(t)
      PROVE  SingleFlight'
  <2>1. \A k \in Key : \/ entries'[k] = entries[k]
                       \/ /\ entries[k].state # "building"
                          /\ entries'[k].state # "building"
    BY <1>5, UseSnapshotDropsReady DEF AcquireCached, TypeOK, Usable, ColdEntry
  <2>2. inProgress' = inProgress /\ key' = key
    BY <1>5 DEF AcquireCached
  <2>3. /\ pc' \in {[pc EXCEPT ![t] = "idle"], [pc EXCEPT ![t] = "verify"]}
        /\ gen' \in {gen, [gen EXCEPT ![t] = 0]}
        /\ pc[t] = "acquire"
    BY <1>5 DEF AcquireCached, Return, Goto
  <2>4. QED
    BY <2>1, <2>2, <2>3, FlightFrame DEF Building, TypeOK
<1>6. ASSUME NEW t \in Thread, AcquireTimesOut(t)
      PROVE  SingleFlight'
  BY <1>6, FlightFrame DEF AcquireTimesOut, Return, Building, TypeOK, Goto
<1>7. ASSUME NEW t \in Thread, AcquireWaits(t)
      PROVE  SingleFlight'
  BY <1>7, FlightFrame DEF AcquireWaits, Building, TypeOK, Goto
<1>8. ASSUME NEW t \in Thread, AcquireInherits(t)
      PROVE  SingleFlight'
  BY <1>8, FlightFrame DEF AcquireInherits, Return, Building, TypeOK, Goto
<1>9. ASSUME NEW t \in Thread, AcquireReserves(t)
      PROVE  SingleFlight'
  <2> DEFINE k == key[t]
  <2>1. /\ k \in Key /\ nextGen # 0
        /\ entries' = [entries EXCEPT ![k] = BuildingEntry(nextGen)]
        /\ inProgress' = [inProgress EXCEPT ![k] = IF @ = 0 THEN nextGen ELSE @]
        /\ gen' = [gen EXCEPT ![t] = nextGen]
        /\ pc' = [pc EXCEPT ![t] = "build"]
        /\ key' = key
    BY <1>9 DEF AcquireReserves, begin_build, Goto, TypeOK
  <2>2. inProgress[k] = 0 /\ \A u \in Thread : ~Building(u, k)
    BY <1>9, <2>1 DEF AcquireReserves, MayBuild, Current, SingleFlight
  <2>3. \A u \in Thread, j \in Key :
           Building(u, j)' <=> Building(u, j) \/ (u = t /\ j = k)
    BY <2>1, <1>9 DEF Building, TypeOK, AcquireReserves
  <2>4. /\ entries'[k].state = "building" /\ entries'[k].gen = nextGen
        /\ inProgress'[k] # 0 /\ gen'[t] = nextGen
    BY <2>1, <2>2 DEF TypeOK, BuildingEntry, ColdEntry
  <2>5. \A j \in Key \ {k} : entries'[j] = entries[j] /\ inProgress'[j] = inProgress[j]
    BY <2>1 DEF TypeOK
  <2>6. \A u \in Thread \ {t} : gen'[u] = gen[u]
    BY <2>1 DEF TypeOK
  <2> HIDE DEF k
  <2>7. ASSUME NEW j \in Key
        PROVE  IF entries'[j].state = "building"
               THEN /\ inProgress'[j] # 0
                    /\ \E w \in Thread :
                          /\ Building(w, j)' /\ gen'[w] = entries'[j].gen
                          /\ \A u \in Thread : Building(u, j)' => u = w
               ELSE /\ inProgress'[j] = 0
                    /\ \A w \in Thread : ~Building(w, j)'
    <3>1. CASE j = k
      BY <2>1, <2>2, <2>3, <2>4, <3>1
    <3>2. CASE j # k
      <4>1. ~Building(t, j)
        BY <1>9 DEF Building, AcquireReserves
      <4>2. \A u \in Thread : Building(u, j)' <=> Building(u, j)
        BY <2>3, <3>2
      <4>3. QED
        BY <2>5, <2>6, <3>2, <4>1, <4>2 DEF SingleFlight
    <3>3. QED
      BY <3>1, <3>2
  <2>8. QED
    BY <2>7 DEF SingleFlight
<1>10. ASSUME NEW t \in Thread, WakeAtDeadline(t)
      PROVE  SingleFlight'
  BY <1>10, FlightFrame DEF WakeAtDeadline, Building, TypeOK, Goto
<1>11. ASSUME NEW t \in Thread, BuildSucceeds(t)
      PROVE  SingleFlight'
  BY <1>11, FlightFrame DEF BuildSucceeds, Building, TypeOK, Goto
<1>12. ASSUME NEW t \in Thread, BuildFails(t)
      PROVE  SingleFlight'
  BY <1>12, FlightFrame DEF BuildFails, Building, TypeOK, Goto
<1>13. ASSUME NEW t \in Thread, Publish(t)
      PROVE  SingleFlight'
  <2>1. Building(t, key[t])
    BY <1>13 DEF Publish, Building
  <2>2. entries[key[t]].state = "building"
    BY <2>1 DEF SingleFlight, TypeOK
  <2>3. /\ entries'[key[t]].state # "building"
        /\ \A j \in Key \ {key[t]} :
              \/ entries'[j] = entries[j]
              \/ entries[j].state # "building" /\ entries'[j].state # "building"
    <3> DEFINE E == [entries EXCEPT ![key[t]] = PublishedEntry(snap[t])]
    <3>1. E \in [Key -> Entry]
      BY EntryTransitions DEF TypeOK
    <3>2. UseSnapshot(E, key[t])
      BY <2>2, <1>13 DEF Publish, Usable, Current
    <3>3. E[key[t]].state = "ready" /\ \A j \in Key \ {key[t]} : E[j] = entries[j]
      BY DEF TypeOK, PublishedEntry, ColdEntry
    <3> HIDE DEF E
    <3>4. \A j \in Key : \/ entries'[j] = E[j]
                         \/ Usable(E[j]) /\ entries'[j] = ColdEntry
      BY <3>1, <3>2, UseSnapshotDropsReady
    <3>5. QED
      BY <3>3, <3>4 DEF Usable, ColdEntry, TypeOK
  <2>4. QED
    BY <2>1, <2>2, <2>3, <1>13, FlightEnds DEF Publish, Goto
<1>14. ASSUME NEW t \in Thread, RecordBuildFailure(t)
      PROVE  SingleFlight'
  <2>1. Building(t, key[t])
    BY <1>14 DEF RecordBuildFailure, Building
  <2>2. entries[key[t]].state = "building" /\ entries[key[t]].gen = gen[t]
    BY <2>1 DEF SingleFlight, TypeOK
  <2> DEFINE e == record_build_failure(entries[key[t]], gen[t], outcome[t])
  <2>3. e \in {ColdEntry, Unavailable(outcome[t], gen[t])}
    BY <2>2 DEF record_build_failure
  <2>4. e.state # "building"
    <3>1. ColdEntry.state # "building"
      BY DEF ColdEntry
    <3>2. Unavailable(outcome[t], gen[t]).state # "building"
      BY DEF ColdEntry, Unavailable
    <3>3. QED
      BY <2>3, <3>1, <3>2
  <2>5. entries' = [entries EXCEPT ![key[t]] = e]
    BY <1>14 DEF RecordBuildFailure
  <2> HIDE DEF e
  <2>6. /\ entries'[key[t]].state # "building"
        /\ \A j \in Key \ {key[t]} : entries'[j] = entries[j]
    BY <2>4, <2>5 DEF TypeOK
  <2>7. QED
    BY <2>1, <2>2, <2>6, <1>14, FlightEnds DEF RecordBuildFailure, Goto
<1>15. ASSUME NEW t \in Thread, NotifyAll(t)
      PROVE  SingleFlight'
  BY <1>15, FlightFrame DEF NotifyAll, Waiters, Building, TypeOK
<1>16. ASSUME NEW t \in Thread, VerifySucceeds(t)
      PROVE  SingleFlight'
  BY <1>16, FlightFrame DEF VerifySucceeds, Building, TypeOK, Goto
<1>17. ASSUME NEW t \in Thread, VerifyFails(t)
      PROVE  SingleFlight'
  BY <1>17, FlightFrame DEF VerifyFails, Return, Building, TypeOK, Goto
<1>18. ASSUME NEW t \in Thread, BeginValidation(t)
      PROVE  SingleFlight'
  <2>1. \A e \in Entry : \/ mark_refreshing(e) = e
                         \/ /\ e.state # "building"
                            /\ mark_refreshing(e).state # "building"
    BY DEF mark_refreshing, Usable, Entry
  <2>2. PICK e : /\ entries' \in {entries, [entries EXCEPT ![key[t]] = e]}
                 /\ e = mark_refreshing(entries[key[t]])
    BY <1>18 DEF BeginValidation
  <2>3. entries[key[t]] \in Entry
    BY DEF TypeOK
  <2>4. \A k \in Key : \/ entries'[k] = entries[k]
                       \/ /\ entries[k].state # "building"
                          /\ entries'[k].state # "building"
    BY <2>1, <2>2, <2>3 DEF TypeOK
  <2>5. QED
    BY <2>4, <1>18, FlightFrame DEF BeginValidation, Building, TypeOK, Goto
<1>19. ASSUME NEW t \in Thread, ValidationSucceeds(t)
      PROVE  SingleFlight'
  <2>1. \A e \in Entry, f, c \in BOOLEAN :
          mark_ready_after_validation(e, f, c).state = "ready"
    BY DEF mark_ready_after_validation, Entry
  <2>2. snap[t] # NoSnapshot
    BY <1>19 DEF SnapshotAccounting, ValidationSucceeds
  <2>3. current_snapshot_is(t) => entries[key[t]].state # "building"
    BY <2>2, CurrentIsNotBuilding
  <2>4. \A k \in Key : \/ entries'[k] = entries[k]
                       \/ /\ entries[k].state # "building"
                          /\ entries'[k].state # "building"
    BY <2>1, <2>3, <1>19 DEF ValidationSucceeds, TypeOK
  <2>5. PICK o : Return(t, o)
    BY <1>19 DEF ValidationSucceeds
  <2>6. pc[t] = "validate" /\ UNCHANGED <<inProgress, key>>
    BY <1>19 DEF ValidationSucceeds
  <2>7. QED
    BY <2>4, <2>5, <2>6, FlightFrame DEF Return, Goto, Building, TypeOK
<1>20. ASSUME NEW t \in Thread, ValidationFails(t)
      PROVE  SingleFlight'
  <2>1. PICK e :
          /\ \/ /\ current_snapshot_is(t)
                /\ entries' = [entries EXCEPT ![key[t]] = Unavailable(e, @.gen)]
             \/ entries' = entries
          /\ Return(t, e)
    BY <1>20 DEF ValidationFails
  <2>2. pc[t] = "validate" /\ UNCHANGED <<inProgress, key>>
    BY <1>20 DEF ValidationFails
  <2>3. snap[t] # NoSnapshot
    BY <2>2 DEF SnapshotAccounting
  <2>4. current_snapshot_is(t) => entries[key[t]].state # "building"
    BY <2>3, CurrentIsNotBuilding
  <2>5. \A k \in Key : \/ entries'[k] = entries[k]
                       \/ /\ entries[k].state # "building"
                          /\ entries'[k].state # "building"
    BY <2>1, <2>4 DEF TypeOK, Unavailable, ColdEntry
  <2>6. QED
    BY <2>1, <2>2, <2>5, FlightFrame DEF Return, Goto, Building, TypeOK
<1>21. CASE UNCHANGED vars
  BY <1>21, FlightFrame DEF vars, Building
<1>22. QED
  BY <1>1, <1>2, <1>3, <1>4, <1>5, <1>6, <1>7, <1>8, <1>9,
     <1>10, <1>11, <1>12, <1>13, <1>14, <1>15, <1>16, <1>17, <1>18,
     <1>19, <1>20, <1>21
     DEF Next, Step, Quiet

-----------------------------------------------------------------------------

\* Nobody waits initially.
LEMMA NoLostWakeupInit == Init => NoLostWakeup
BY DEF Init, NoLostWakeup

\* A condvar is taken by its notifier, and notified before it is forgotten.
LEMMA NoLostWakeupStep ==
    IInv /\ [Next]_vars => NoLostWakeup'
<1> SUFFICES ASSUME TypeOK, SnapshotAccounting, SingleFlight, NoLostWakeup,
                    [Next]_vars
             PROVE  NoLostWakeup'
  BY DEF IInv
<1> USE DEF request, flags, manager
<1>1. ASSUME NEW t \in Thread, NEW k \in Key, Start(t, k)
      PROVE  NoLostWakeup'
  BY <1>1, WakeupFrame DEF Start, TypeOK, Goto
<1>2. ASSUME NEW t \in Thread, Expire(t)
      PROVE  NoLostWakeup'
  BY <1>2, WakeupFrame DEF Expire
<1>3. ASSUME NEW t \in Thread, Cancel(t)
      PROVE  NoLostWakeup'
  BY <1>3, WakeupFrame DEF Cancel
<1>4. ASSUME NEW t \in Thread, WakeSpuriously(t)
      PROVE  NoLostWakeup'
  BY <1>4, WakeupFrame DEF WakeSpuriously, TypeOK, Goto
<1>5. ASSUME NEW t \in Thread, AcquireCached(t)
      PROVE  NoLostWakeup'
  <2>1. /\ pc[t] = "acquire" /\ UNCHANGED <<inProgress, key>>
        /\ pc' \in {[pc EXCEPT ![t] = "idle"], [pc EXCEPT ![t] = "verify"]}
        /\ condvar' \in {condvar, [condvar EXCEPT ![t] = 0]}
    BY <1>5 DEF AcquireCached, Return, Goto
  <2>2. QED
    BY <2>1, WakeupFrame DEF TypeOK
<1>6. ASSUME NEW t \in Thread, AcquireTimesOut(t)
      PROVE  NoLostWakeup'
  BY <1>6, WakeupFrame DEF AcquireTimesOut, Return, TypeOK, Goto
<1>7. ASSUME NEW t \in Thread, AcquireWaits(t)
      PROVE  NoLostWakeup'
  BY <1>7 DEF AcquireWaits, NoLostWakeup, TypeOK, Goto
<1>8. ASSUME NEW t \in Thread, AcquireInherits(t)
      PROVE  NoLostWakeup'
  BY <1>8, WakeupFrame DEF AcquireInherits, Return, TypeOK, Goto
<1>9. ASSUME NEW t \in Thread, AcquireReserves(t)
      PROVE  NoLostWakeup'
  <2>1. inProgress[key[t]] = 0
    BY <1>9 DEF AcquireReserves, MayBuild, Current, SingleFlight, TypeOK
  <2>2. \A u \in Thread : pc[u] = "wait" => condvar[u] # 0
    BY DEF SnapshotAccounting
  <2>3. QED
    BY <2>1, <2>2, <1>9 DEF AcquireReserves, begin_build, NoLostWakeup, TypeOK,
       Goto
<1>10. ASSUME NEW t \in Thread, WakeAtDeadline(t)
      PROVE  NoLostWakeup'
  BY <1>10, WakeupFrame DEF WakeAtDeadline, TypeOK, Goto
<1>11. ASSUME NEW t \in Thread, BuildSucceeds(t)
      PROVE  NoLostWakeup'
  BY <1>11, WakeupFrame DEF BuildSucceeds, TypeOK, Goto
<1>12. ASSUME NEW t \in Thread, BuildFails(t)
      PROVE  NoLostWakeup'
  BY <1>12, WakeupFrame DEF BuildFails, TypeOK, Goto
<1>13. ASSUME NEW t \in Thread, Publish(t)
      PROVE  NoLostWakeup'
  <2>1. /\ pc[t] \in {"publish", "buildfailed"} /\ key' = key
        /\ TakeCondvar(t) /\ pc' = [pc EXCEPT ![t] = "notify"]
    BY <1>13 DEF Publish, Goto
  <2>2. QED
    BY <2>1 DEF TakeCondvar, NoLostWakeup, TypeOK
<1>14. ASSUME NEW t \in Thread, RecordBuildFailure(t)
      PROVE  NoLostWakeup'
  <2>1. /\ pc[t] \in {"publish", "buildfailed"} /\ key' = key
        /\ TakeCondvar(t) /\ pc' = [pc EXCEPT ![t] = "notify"]
    BY <1>14 DEF RecordBuildFailure, Goto
  <2>2. QED
    BY <2>1 DEF TakeCondvar, NoLostWakeup, TypeOK
<1>15. ASSUME NEW t \in Thread, NotifyAll(t)
      PROVE  NoLostWakeup'
  <2>1. UNCHANGED <<inProgress, key>> /\ pc[t] = "notify"
    BY <1>15 DEF NotifyAll
  <2>2. \A u \in Thread : pc'[u] = "wait" =>
           pc[u] = "wait" /\ condvar'[u] = condvar[u] /\ condvar[u] # condvar[t]
    BY <1>15 DEF NotifyAll, Waiters, TypeOK
  <2>3. \A u \in Thread \ {t} : pc[u] = "notify" =>
           pc'[u] = "notify" /\ condvar'[u] = condvar[u]
    BY <1>15 DEF NotifyAll, Waiters, TypeOK
  <2>4. QED
    BY <2>1, <2>2, <2>3 DEF NoLostWakeup
<1>16. ASSUME NEW t \in Thread, VerifySucceeds(t)
      PROVE  NoLostWakeup'
  BY <1>16, WakeupFrame DEF VerifySucceeds, TypeOK, Goto
<1>17. ASSUME NEW t \in Thread, VerifyFails(t)
      PROVE  NoLostWakeup'
  BY <1>17, WakeupFrame DEF VerifyFails, Return, TypeOK, Goto
<1>18. ASSUME NEW t \in Thread, BeginValidation(t)
      PROVE  NoLostWakeup'
  BY <1>18, WakeupFrame DEF BeginValidation, TypeOK, Goto
<1>19. ASSUME NEW t \in Thread, ValidationSucceeds(t)
      PROVE  NoLostWakeup'
  <2>1. PICK o : Return(t, o)
    BY <1>19 DEF ValidationSucceeds
  <2>2. pc[t] = "validate" /\ UNCHANGED <<inProgress, key>>
    BY <1>19 DEF ValidationSucceeds
  <2>3. QED
    BY <2>1, <2>2, WakeupFrame DEF Return, TypeOK, Goto
<1>20. ASSUME NEW t \in Thread, ValidationFails(t)
      PROVE  NoLostWakeup'
  <2>1. PICK o : Return(t, o)
    BY <1>20 DEF ValidationFails
  <2>2. pc[t] = "validate" /\ UNCHANGED <<inProgress, key>>
    BY <1>20 DEF ValidationFails
  <2>3. QED
    BY <2>1, <2>2, WakeupFrame DEF Return, TypeOK, Goto
<1>21. CASE UNCHANGED vars
  BY <1>21, WakeupFrame DEF vars
<1>22. QED
  BY <1>1, <1>2, <1>3, <1>4, <1>5, <1>6, <1>7, <1>8, <1>9,
     <1>10, <1>11, <1>12, <1>13, <1>14, <1>15, <1>16, <1>17, <1>18,
     <1>19, <1>20, <1>21
     DEF Next, Step, Quiet

-----------------------------------------------------------------------------

\* The invariant behind the others is inductive, and so holds in every state.
THEOREM IndexInvariant == Spec => []IInv
<1>1. Init => IInv
  BY TypingInit, AccountingInit, SingleFlightInit, NoLostWakeupInit DEF IInv
<1>2. IInv /\ [Next]_vars => IInv'
  BY TypingStep, AccountingStep, SingleFlightStep, NoLostWakeupStep DEF IInv
<1>3. QED
  BY <1>1, <1>2, PTL DEF Spec

\* Every variable of the cache and of its requests keeps its type, whatever the
\* threads, the keys, the limits and the snapshot sizes.
THEOREM TypeCorrect == Spec => []TypeOK
<1>1. IInv => TypeOK
  BY DEF IInv
<1>2. QED
  BY <1>1, IndexInvariant, PTL

\* At most one request builds the index of a key, and the key says so: the
\* expensive walk is never done twice at once (acquire_or_reserve_snapshot_build).
THEOREM SingleFlightHolds == Spec => []SingleFlight
<1>1. IInv => SingleFlight
  BY DEF IInv
<1>2. QED
  BY <1>1, IndexInvariant, PTL

\* A request asleep in wait_for_build is always going to be notified, by the
\* build it waits for or by the thread that just took that build's condvar.
THEOREM NoLostWakeupHolds == Spec => []NoLostWakeup
<1>1. IInv => NoLostWakeup
  BY DEF IInv
<1>2. QED
  BY <1>1, IndexInvariant, PTL

\* No entry keeps a dropped snapshot alive and no request runs without the
\* snapshot, reservation or condvar its next step uses.
THEOREM SnapshotAccountingHolds == Spec => []SnapshotAccounting
<1>1. IInv => SnapshotAccounting
  BY DEF IInv
<1>2. QED
  BY <1>1, IndexInvariant, PTL

-----------------------------------------------------------------------------

\* Of an entry that is building, only a fault of its build is kept: a request
\* that built it and gave up for reasons of its own leaves none.
THEOREM BuildErrorsStayPrivateHolds == Spec => BuildErrorsStayPrivate
<1> DEFINE Private ==
        \A k \in Key :
           entries[k].state = "building" /\ entries'[k].state = "unavailable"
              => entries'[k].err \notin {"timeout", "cancelled"}
<1>1. IInv /\ [Next]_vars => [Private]_vars
  <2> SUFFICES ASSUME TypeOK, SnapshotAccounting, Next
               PROVE  Private
    BY DEF IInv
  <2>1. CASE UNCHANGED entries
    BY <2>1
  <2>2. ASSUME NEW t \in Thread, AcquireCached(t)
        PROVE  Private
    <3>1. UseSnapshot(entries, key[t])
      BY <2>2 DEF AcquireCached
    <3>2. \A k \in Key : entries'[k] = entries[k] \/ entries'[k] = ColdEntry
      BY <3>1, UseSnapshotDropsReady DEF TypeOK
    <3> QED
      BY <3>2 DEF ColdEntry
  <2>3. ASSUME NEW t \in Thread, AcquireReserves(t)
        PROVE  Private
    <3>1. \A k \in Key : \/ entries'[k] = entries[k]
                         \/ entries'[k] = BuildingEntry(nextGen)
      BY <2>3 DEF AcquireReserves, begin_build, TypeOK
    <3> QED
      BY <3>1 DEF BuildingEntry, ColdEntry
  <2>4. ASSUME NEW t \in Thread, Publish(t)
        PROVE  Private
    <3> DEFINE E == IF Usable(Current(t)) THEN entries
                    ELSE [entries EXCEPT ![key[t]] = PublishedEntry(snap[t])]
    <3>1. UseSnapshot(E, key[t])
      BY <2>4 DEF Publish
    <3>2. E \in [Key -> Entry]
      BY EntryTransitions DEF TypeOK
    <3>3. \A k \in Key : E[k] = entries[k] \/ E[k].state = "ready"
      BY DEF PublishedEntry, ColdEntry, TypeOK
    <3> HIDE DEF E
    <3>4. \A k \in Key : entries'[k] = E[k] \/ entries'[k] = ColdEntry
      BY <3>1, <3>2, UseSnapshotDropsReady
    <3> QED
      BY <3>3, <3>4 DEF ColdEntry
  <2>5. ASSUME NEW t \in Thread, RecordBuildFailure(t)
        PROVE  Private
    <3> DEFINE new == record_build_failure(entries[key[t]], gen[t], outcome[t])
    <3>1. \A k \in Key : \/ entries'[k] = entries[k]
                         \/ k = key[t] /\ entries'[k] = new
      BY <2>5 DEF RecordBuildFailure, TypeOK
    <3>2. \/ new = ColdEntry
          \/ new = Unavailable(outcome[t], gen[t])
             /\ ~is_per_request_failure(outcome[t])
          \/ new = entries[key[t]]
      BY DEF record_build_failure
    <3>3. /\ ColdEntry.state = "cold"
          /\ Unavailable(outcome[t], gen[t]).err = outcome[t]
      BY DEF ColdEntry, Unavailable
    <3>4. is_per_request_failure(outcome[t])
             <=> outcome[t] \in {"timeout", "cancelled"}
      BY DEF is_per_request_failure
    <3> HIDE DEF new
    <3>5. SUFFICES ASSUME NEW k \in Key, entries[k].state = "building",
                          entries'[k].state = "unavailable"
                   PROVE  entries'[k].err \notin {"timeout", "cancelled"}
      OBVIOUS
    <3>6. k = key[t] /\ entries'[k] = new /\ entries'[k] # entries[k]
      BY <3>1, <3>5
    <3>7. new = Unavailable(outcome[t], gen[t])
          /\ ~ is_per_request_failure(outcome[t])
      BY <3>2, <3>3, <3>5, <3>6
    <3> QED
      BY <3>3, <3>4, <3>6, <3>7
  <2>6. ASSUME NEW t \in Thread, BeginValidation(t)
        PROVE  Private
    <3>1. \A k \in Key : \/ entries'[k] = entries[k]
                         \/ entries'[k] = mark_refreshing(entries[k])
      BY <2>6 DEF BeginValidation, TypeOK
    <3>2. \A k \in Key : \/ mark_refreshing(entries[k]) = entries[k]
                         \/ mark_refreshing(entries[k]).state = "refreshing"
      BY DEF mark_refreshing, TypeOK, Entry
    <3> QED
      BY <3>1, <3>2
  <2>7. ASSUME NEW t \in Thread, ValidationSucceeds(t)
        PROVE  Private
    <3>1. PICK full \in BOOLEAN, new \in BOOLEAN :
             entries' = IF current_snapshot_is(t)
                        THEN [entries EXCEPT ![key[t]] =
                                mark_ready_after_validation(@, full, new)]
                        ELSE entries
      BY <2>7 DEF ValidationSucceeds
    <3>2. mark_ready_after_validation(entries[key[t]], full, new).state = "ready"
      BY DEF mark_ready_after_validation, TypeOK, Entry
    <3>3. \A k \in Key : entries'[k] = entries[k] \/ entries'[k].state = "ready"
      BY <3>1, <3>2 DEF TypeOK
    <3> QED
      BY <3>3
  <2>8. ASSUME NEW t \in Thread, ValidationFails(t)
        PROVE  Private
    <3>1. snap[t] # NoSnapshot
      BY <2>8 DEF ValidationFails, SnapshotAccounting
    <3>2. current_snapshot_is(t) =>
             entries[key[t]].state \in {"ready", "refreshing"}
      BY <3>1, CurrentIsNotBuilding
    <3>3. \A k \in Key : \/ entries'[k] = entries[k]
                         \/ k = key[t] /\ current_snapshot_is(t)
      BY <2>8 DEF ValidationFails, TypeOK
    <3> QED
      BY <3>2, <3>3
  <2> QED
    BY <2>1, <2>2, <2>3, <2>4, <2>5, <2>6, <2>7, <2>8
       DEF Next, Step, Quiet, vars, manager, Start, Expire, Cancel,
           WakeSpuriously, AcquireTimesOut, AcquireWaits, AcquireInherits,
           WakeAtDeadline, BuildSucceeds, BuildFails, NotifyAll,
           VerifySucceeds, VerifyFails
<1> HIDE DEF Private
<1>2. Spec => [][Private]_vars
  BY <1>1, IndexInvariant, PTL DEF Spec
<1> QED
  BY <1>2 DEF BuildErrorsStayPrivate, Private

-----------------------------------------------------------------------------

\* Only queries are verified and validated.
Validating == \A t \in Thread :
                 pc[t] \in {"verify", "admit", "validate"} => t \in Querier

LEMMA ValidatingStep ==
    ASSUME TypeOK, Validating, [Next]_vars
    PROVE  Validating'
<1> USE DEF Validating, TypeOK
<1>1. CASE UNCHANGED vars
  BY <1>1 DEF vars
<1>2. CASE Quiet
  BY <1>2 DEF Quiet, vars
<1>3. ASSUME NEW t \in Thread, \E k \in Key : Start(t, k)
      PROVE  Validating'
  BY <1>3 DEF Start, Goto
<1>4. ASSUME NEW t \in Thread, Expire(t) \/ Cancel(t) \/ WakeSpuriously(t)
      PROVE  Validating'
  BY <1>4 DEF Expire, Cancel, WakeSpuriously, Goto
<1>5. ASSUME NEW t \in Thread, AcquireCached(t)
      PROVE  Validating'
  BY <1>5 DEF AcquireCached, Return, Goto, Thread
<1>6. ASSUME NEW t \in Thread, AcquireTimesOut(t) \/ AcquireInherits(t) \/ VerifyFails(t)
      PROVE  Validating'
  BY <1>6 DEF AcquireTimesOut, AcquireInherits, VerifyFails, Return, Goto
<1>7. ASSUME NEW t \in Thread,
             AcquireWaits(t) \/ AcquireReserves(t) \/ WakeAtDeadline(t) \/ BuildSucceeds(t)
      PROVE  Validating'
  BY <1>7 DEF AcquireWaits, AcquireReserves, WakeAtDeadline, BuildSucceeds, Goto
<1>8. ASSUME NEW t \in Thread,
             BuildFails(t) \/ Publish(t) \/ RecordBuildFailure(t)
      PROVE  Validating'
  BY <1>8 DEF BuildFails, Publish, RecordBuildFailure, Goto
<1>9. ASSUME NEW t \in Thread, NotifyAll(t)
      PROVE  Validating'
  BY <1>9 DEF NotifyAll, Waiters
<1>10. ASSUME NEW t \in Thread, VerifySucceeds(t) \/ BeginValidation(t)
       PROVE  Validating'
  BY <1>10 DEF VerifySucceeds, BeginValidation, Goto
<1>11. ASSUME NEW t \in Thread, ValidationSucceeds(t) \/ ValidationFails(t)
       PROVE  Validating'
  BY <1>11 DEF ValidationSucceeds, ValidationFails, Return, Goto
<1>12. QED
  BY <1>1, <1>2, <1>3, <1>4, <1>5, <1>6, <1>7, <1>8, <1>9, <1>10, <1>11
     DEF Next, Step

Limit == Interval + Cardinality(Querier) - 1

\* The targeted validations of a key are few enough to be counted.
LEMMA TargetedIsFinite ==
    ASSUME Validating, NEW k \in Key
    PROVE  /\ Targeted(k) \subseteq Querier
           /\ IsFiniteSet(Targeted(k))
           /\ Cardinality(Targeted(k)) \in Nat
           /\ Cardinality(Querier) \in Nat
           /\ Cardinality(Targeted(k)) <= Cardinality(Querier)
<1>1. Targeted(k) \subseteq Querier
  BY DEF Targeted, Validating
<1>2. QED
  BY <1>1, SearchIndexAssumption, FS_Subset, FS_CardinalityType

\* A step that begins and ends no validation of a key in the cache leaves its
\* bound alone, unless it puts another snapshot there.
LEMMA BoundFrame ==
    ASSUME TypeOK, TypeOK', Validating, Validating', TargetedRunIsBounded,
           NEW k \in Key, Usable(entries'[k]),
           \/ entries'[k].queries = 0
           \/ /\ Usable(entries[k])
              /\ entries'[k].queries = entries[k].queries
              /\ Targeted(k)' \subseteq Targeted(k)
    PROVE  entries'[k].queries + Cardinality(Targeted(k)') <= Limit
<1> USE SearchIndexAssumption DEF Limit
<1>1. /\ Cardinality(Targeted(k)) \in Nat
      /\ Cardinality(Targeted(k)') \in Nat
      /\ Cardinality(Querier) \in Nat
      /\ Cardinality(Targeted(k)') <= Cardinality(Querier)
  <2>1. Targeted(k)' \subseteq Querier
    BY DEF Targeted, Validating
  <2>2. QED
    BY <2>1, TargetedIsFinite, FS_Subset, FS_CardinalityType
<1>2. CASE entries'[k].queries = 0
  BY <1>1, <1>2
<1>3. CASE /\ Usable(entries[k])
           /\ entries'[k].queries = entries[k].queries
           /\ Targeted(k)' \subseteq Targeted(k)
  <2>1. Cardinality(Targeted(k)') <= Cardinality(Targeted(k))
    BY <1>3, TargetedIsFinite, FS_Subset
  <2>2. entries[k].queries \in Nat
    BY DEF TypeOK, Entry
  <2>3. entries[k].queries + Cardinality(Targeted(k)) <= Limit
    BY <1>3 DEF TargetedRunIsBounded
  <2>4. QED
    BY <1>1, <1>3, <2>1, <2>2, <2>3
<1>4. QED
  BY <1>2, <1>3

\* The same for a whole step, in terms of what it assigns.
LEMMA BoundedFrame ==
    ASSUME TypeOK, TypeOK', Validating, Validating', TargetedRunIsBounded,
           \A u \in Thread : pc'[u] = "validate" =>
              /\ pc[u] = "validate" /\ key'[u] = key[u] /\ snap'[u] = snap[u]
              /\ admission'[u] = admission[u],
           \A k \in Key : \/ entries'[k] = entries[k]
                          \/ ~Usable(entries'[k])
                          \/ entries'[k].queries = 0
    PROVE  TargetedRunIsBounded'
<1> SUFFICES ASSUME NEW k \in Key, Usable(entries'[k])
             PROVE  entries'[k].queries + Cardinality(Targeted(k)') <= Limit
  BY DEF TargetedRunIsBounded, Limit
<1>1. entries'[k] = entries[k] => Targeted(k)' \subseteq Targeted(k)
  BY DEF Targeted
<1> QED
  BY <1>1, BoundFrame

LEMMA TargetedRunStep ==
    ASSUME IInv, IInv', Validating, Validating', TargetedRunIsBounded, [Next]_vars
    PROVE  TargetedRunIsBounded'
<1> USE DEF IInv
<1>1. CASE UNCHANGED vars
  BY <1>1, BoundedFrame DEF vars
<1>2. CASE Quiet
  BY <1>2, BoundedFrame DEF Quiet, vars
<1>3. ASSUME NEW t \in Thread, \E k \in Key : Start(t, k)
      PROVE  TargetedRunIsBounded'
  BY <1>3, BoundedFrame DEF Start, Goto, manager, TypeOK
<1>4. ASSUME NEW t \in Thread, Expire(t) \/ Cancel(t) \/ WakeSpuriously(t)
      PROVE  TargetedRunIsBounded'
  BY <1>4, BoundedFrame DEF Expire, Cancel, WakeSpuriously, Goto, manager, request,
                            TypeOK
<1>5. ASSUME NEW t \in Thread, AcquireTimesOut(t)
      PROVE  TargetedRunIsBounded'
  BY <1>5, BoundedFrame DEF AcquireTimesOut, Return, Goto, manager, request, TypeOK
<1>6. ASSUME NEW t \in Thread, AcquireWaits(t)
      PROVE  TargetedRunIsBounded'
  BY <1>6, BoundedFrame DEF AcquireWaits, Goto, manager, request, TypeOK
<1>7. ASSUME NEW t \in Thread, AcquireInherits(t)
      PROVE  TargetedRunIsBounded'
  BY <1>7, BoundedFrame DEF AcquireInherits, Return, Goto, manager, request, TypeOK
<1>8. ASSUME NEW t \in Thread, WakeAtDeadline(t)
      PROVE  TargetedRunIsBounded'
  BY <1>8, BoundedFrame DEF WakeAtDeadline, Goto, manager, request, TypeOK
<1>9. ASSUME NEW t \in Thread, BuildSucceeds(t)
      PROVE  TargetedRunIsBounded'
  BY <1>9, BoundedFrame DEF BuildSucceeds, Goto, manager, request, TypeOK
<1>10. ASSUME NEW t \in Thread, BuildFails(t)
      PROVE  TargetedRunIsBounded'
  BY <1>10, BoundedFrame DEF BuildFails, Goto, manager, request, TypeOK
<1>11. ASSUME NEW t \in Thread, VerifySucceeds(t)
      PROVE  TargetedRunIsBounded'
  BY <1>11, BoundedFrame DEF VerifySucceeds, Goto, manager, request, TypeOK
<1>12. ASSUME NEW t \in Thread, VerifyFails(t)
      PROVE  TargetedRunIsBounded'
  BY <1>12, BoundedFrame DEF VerifyFails, Return, Goto, manager, request, TypeOK
<1>13. ASSUME NEW t \in Thread, NotifyAll(t)
      PROVE  TargetedRunIsBounded'
  BY <1>13, BoundedFrame DEF NotifyAll, Waiters, manager, request, TypeOK
<1>14. ASSUME NEW t \in Thread, AcquireCached(t)
      PROVE  TargetedRunIsBounded'
  <2>1. UseSnapshot(entries, key[t])
    BY <1>14 DEF AcquireCached
  <2>2. \A k \in Key : entries'[k] = entries[k] \/ entries'[k] = ColdEntry
    BY <2>1, UseSnapshotDropsReady DEF TypeOK
  <2>3. ColdEntry.queries = 0
    BY DEF ColdEntry
  <2>4. QED
    BY <1>14, <2>2, <2>3, BoundedFrame
       DEF AcquireCached, Return, Goto, request, TypeOK
<1>15. ASSUME NEW t \in Thread, AcquireReserves(t)
      PROVE  TargetedRunIsBounded'
  <2>1. \A k \in Key : \/ entries'[k] = entries[k]
                       \/ entries'[k] = BuildingEntry(nextGen)
    BY <1>15 DEF AcquireReserves, begin_build, TypeOK
  <2>2. BuildingEntry(nextGen).queries = 0
    BY DEF BuildingEntry, ColdEntry
  <2>3. QED
    BY <1>15, <2>1, <2>2, BoundedFrame DEF AcquireReserves, Goto, request, TypeOK
<1>16. ASSUME NEW t \in Thread, Publish(t)
      PROVE  TargetedRunIsBounded'
  <2> DEFINE E == IF Usable(Current(t)) THEN entries
                  ELSE [entries EXCEPT ![key[t]] = PublishedEntry(snap[t])]
  <2>1. UseSnapshot(E, key[t])
    BY <1>16 DEF Publish
  <2>2. E \in [Key -> Entry]
    BY EntryTransitions DEF TypeOK
  <2>3. \A k \in Key : E[k] = entries[k] \/ E[k].queries = 0
    BY DEF PublishedEntry, ColdEntry, TypeOK
  <2> HIDE DEF E
  <2>4. \A k \in Key : entries'[k] = E[k] \/ entries'[k] = ColdEntry
    BY <2>1, <2>2, UseSnapshotDropsReady
  <2>5. ColdEntry.queries = 0
    BY DEF ColdEntry
  <2>6. \A k \in Key : entries'[k] = entries[k] \/ entries'[k].queries = 0
    BY <2>3, <2>4, <2>5
  <2>7. \A u \in Thread : pc'[u] = "validate" =>
           /\ pc[u] = "validate" /\ key'[u] = key[u] /\ snap'[u] = snap[u]
           /\ admission'[u] = admission[u]
    BY <1>16 DEF Publish, Goto, request, TypeOK
  <2>8. QED
    BY <2>6, <2>7, BoundedFrame
<1>17. ASSUME NEW t \in Thread, RecordBuildFailure(t)
      PROVE  TargetedRunIsBounded'
  <2> DEFINE new == record_build_failure(entries[key[t]], gen[t], outcome[t])
  <2>1. \A k \in Key : \/ entries'[k] = entries[k]
                       \/ k = key[t] /\ entries'[k] = new
    BY <1>17 DEF RecordBuildFailure, TypeOK
  <2>2. new = entries[key[t]] \/ new.queries = 0
    BY DEF record_build_failure, ColdEntry, Unavailable
  <2> HIDE DEF new
  <2>3. \A k \in Key : entries'[k] = entries[k] \/ entries'[k].queries = 0
    BY <2>1, <2>2
  <2>4. QED
    BY <1>17, <2>3, BoundedFrame DEF RecordBuildFailure, Goto, request, TypeOK
<1>18. ASSUME NEW t \in Thread, BeginValidation(t)
      PROVE  TargetedRunIsBounded'
  <2> DEFINE K == key[t]
             E == mark_refreshing(entries[K])
  <2>1. /\ E.queries = entries[K].queries
        /\ E.snap = entries[K].snap
        /\ Usable(E) => Usable(entries[K])
    BY DEF mark_refreshing, Usable, TypeOK, Entry
  <2> HIDE DEF E
  <2>2. /\ \A k \in Key : entries'[k] = IF k = K /\ entries' # entries THEN E ELSE entries[k]
        /\ UNCHANGED <<key, snap>>
        /\ pc' = [pc EXCEPT ![t] = "validate"] /\ pc[t] = "admit"
        /\ \A u \in Thread \ {t} : admission'[u] = admission[u]
    BY <1>18 DEF BeginValidation, Goto, request, TypeOK, E
  <2>3. \/ admission'[t].full
        \/ entries[K].queries < Interval
    <3>1. full_validation_due(entries[K]) \/ entries[K].queries < Interval
      BY SearchIndexAssumption DEF full_validation_due, TypeOK, Entry
    <3>2. QED
      BY <1>18, <3>1 DEF BeginValidation, Current, TypeOK
  <2>4. ASSUME NEW k \in Key, Usable(entries'[k])
        PROVE  entries'[k].queries + Cardinality(Targeted(k)') <= Limit
    <3>1. /\ Usable(entries[k])
          /\ entries'[k].queries = entries[k].queries
          /\ entries'[k].snap = entries[k].snap
      BY <2>1, <2>2, <2>4
    <3>2. Targeted(k)' \subseteq Targeted(k) \cup {t}
      BY <2>2, <3>1 DEF Targeted, TypeOK
    <3>3. CASE t \notin Targeted(k)'
      BY <2>4, <3>1, <3>2, <3>3, BoundFrame
    <3>4. CASE t \in Targeted(k)'
      <4>1. k = K /\ ~admission'[t].full
        BY <2>2, <3>4 DEF Targeted
      <4>2. entries[k].queries < Interval /\ entries[k].queries \in Nat
        BY <2>3, <4>1 DEF TypeOK, Entry
      <4>3. Targeted(k)' \subseteq Querier
        BY DEF Targeted, Validating
      <4>4. /\ Cardinality(Querier) \in Nat /\ Cardinality(Targeted(k)') \in Nat
            /\ Cardinality(Targeted(k)') <= Cardinality(Querier)
        BY <4>3, SearchIndexAssumption, FS_Subset, FS_CardinalityType
      <4>5. QED
        BY <3>1, <4>2, <4>4, SearchIndexAssumption DEF Limit
    <3>5. QED
      BY <3>3, <3>4
  <2>5. QED
    BY <2>4 DEF TargetedRunIsBounded, Limit
<1>19. ASSUME NEW t \in Thread, ValidationSucceeds(t)
      PROVE  TargetedRunIsBounded'
  <2> DEFINE K == key[t]
  <2>1. PICK full \in BOOLEAN, new \in BOOLEAN :
           /\ admission[t].full => full
           /\ entries' = IF current_snapshot_is(t)
                         THEN [entries EXCEPT ![K] =
                                 mark_ready_after_validation(@, full, new)]
                         ELSE entries
    BY <1>19 DEF ValidationSucceeds
  <2>2. /\ pc[t] = "validate" /\ pc' = [pc EXCEPT ![t] = "idle"]
        /\ key' = key
        /\ \A u \in Thread \ {t} : snap'[u] = snap[u] /\ admission'[u] = admission[u]
    BY <1>19 DEF ValidationSucceeds, Return, Goto, request, TypeOK
  <2> DEFINE E == mark_ready_after_validation(entries[K], full, new)
  <2>3. /\ E.snap = entries[K].snap
        /\ E.queries = IF full THEN 0 ELSE entries[K].queries + 1
    BY DEF mark_ready_after_validation, TypeOK, Entry
  <2> HIDE DEF E
  <2>4. CASE ~current_snapshot_is(t)
    BY <2>1, <2>2, <2>4, BoundedFrame DEF TypeOK
  <2>5. CASE current_snapshot_is(t) /\ full
    <3>1. \A k \in Key : entries'[k] = entries[k] \/ entries'[k].queries = 0
      BY <2>1, <2>3, <2>5 DEF TypeOK, E
    <3>2. QED
      BY <2>2, <3>1, BoundedFrame DEF TypeOK
  <2>6. CASE current_snapshot_is(t) /\ ~full
    <3>1. K \in Key /\ snap[t] = entries[K].snap /\ ~admission[t].full
      BY <2>1, <2>6 DEF current_snapshot_is, Current, TypeOK, Admission
    <3>2. Usable(entries[K])
      BY <2>2, <3>1 DEF SnapshotAccounting, Usable
    <3>3. t \in Targeted(K)
      BY <2>2, <3>1 DEF Targeted
    <3>4. ASSUME NEW k \in Key, Usable(entries'[k])
          PROVE  entries'[k].queries + Cardinality(Targeted(k)') <= Limit
      <4>1. CASE k # K
        <5>1. entries'[k] = entries[k]
          BY <2>1, <4>1 DEF TypeOK
        <5>2. Targeted(k)' \subseteq Targeted(k)
          BY <2>2, <5>1 DEF Targeted, TypeOK
        <5>3. QED
          BY <3>4, <5>1, <5>2, BoundFrame
      <4>2. CASE k = K
        <5>1. entries'[k] = E
          BY <2>1, <2>6, <3>1, <4>2 DEF TypeOK, E
        <5>2. Targeted(k)' \subseteq Targeted(k) \ {t}
          BY <2>2, <2>3, <4>2, <5>1 DEF Targeted, TypeOK
        <5>3. /\ Cardinality(Targeted(k)) \in Nat
              /\ IsFiniteSet(Targeted(k) \ {t})
              /\ Cardinality(Targeted(k) \ {t}) = Cardinality(Targeted(k)) - 1
          BY <3>3, <4>2, TargetedIsFinite, FS_RemoveElement
        <5>4. /\ Cardinality(Targeted(k)') \in Nat
              /\ Cardinality(Targeted(k)') <= Cardinality(Targeted(k)) - 1
          BY <5>2, <5>3, FS_Subset, FS_CardinalityType
        <5>5. entries[k].queries + Cardinality(Targeted(k)) <= Limit
          BY <3>2, <4>2 DEF TargetedRunIsBounded, Limit
        <5>6. entries[k].queries \in Nat /\ Limit \in Int
          <6>1. entries[k] \in Entry
            BY DEF TypeOK
          <6>2. Cardinality(Querier) \in Nat
            BY TargetedIsFinite
          <6>3. QED
            BY <6>1, <6>2, SearchIndexAssumption DEF Entry, Limit
        <5>7. entries'[k].queries = entries[k].queries + 1
          BY <2>3, <2>6, <4>2, <5>1
        <5>8. QED
          BY <5>3, <5>4, <5>5, <5>6, <5>7
      <4>3. QED
        BY <4>1, <4>2
    <3>5. QED
      BY <3>4 DEF TargetedRunIsBounded, Limit
  <2>7. QED
    BY <2>4, <2>5, <2>6
<1>20. ASSUME NEW t \in Thread, ValidationFails(t)
      PROVE  TargetedRunIsBounded'
  <2>1. PICK e :
          /\ \/ entries' = [entries EXCEPT ![key[t]] = Unavailable(e, @.gen)]
             \/ entries' = entries
          /\ Return(t, e)
    BY <1>20 DEF ValidationFails
  <2>2. \A g : Unavailable(e, g).queries = 0
    BY DEF Unavailable, ColdEntry
  <2>3. \A k \in Key : entries'[k] = entries[k] \/ entries'[k].queries = 0
    BY <2>1, <2>2 DEF TypeOK
  <2>4. key' = key /\ pc[t] = "validate"
    BY <1>20 DEF ValidationFails, request
  <2>5. QED
    BY <2>1, <2>3, <2>4, BoundedFrame DEF Return, Goto, TypeOK
<1>21. QED
  BY <1>1, <1>2, <1>3, <1>4, <1>5, <1>6, <1>7, <1>8, <1>9, <1>10, <1>11, <1>12, <1>13, <1>14, <1>15, <1>16, <1>17, <1>18, <1>19, <1>20
     DEF Next, Step

\* Between two full validations of a snapshot at most Interval targeted ones
\* are admitted, and those that were under way when the last of them was.
THEOREM TargetedRunIsBoundedHolds == Spec => []TargetedRunIsBounded
<1>1. Init => Validating /\ TargetedRunIsBounded
  BY DEF Init, Validating, TargetedRunIsBounded, Usable, ColdEntry
<1>2. IInv /\ IInv' /\ Validating /\ TargetedRunIsBounded /\ [Next]_vars
         => Validating' /\ TargetedRunIsBounded'
  BY ValidatingStep, TargetedRunStep DEF IInv
<1>3. QED
  BY <1>1, <1>2, IndexInvariant, PTL DEF Spec

-----------------------------------------------------------------------------
(* Eviction: what is left is within both limits and in the order. *)

\* The bytes counted are those of the ready snapshots, added up.
LEMMA BytesAreASum ==
    ASSUME NEW E \in [Key -> Entry]
    PROVE  ready_cache_bytes(E) = Sum([k \in Key |-> E[k].snap.bytes], ReadyKeys(E))
<1> DEFINE f == [k \in Key |-> E[k].snap.bytes]
           S == ReadyKeys(E)
           a(g) == g = [s \in SUBSET S |->
                          IF s = {} THEN 0
                          ELSE LET x == CHOOSE x \in s : TRUE
                               IN  E[x].snap.bytes + g[s \ {x}]]
<1>1. ready_cache_bytes(E) = (CHOOSE g : a(g))[S]
  BY DEF ready_cache_bytes, MapThenSumSet, MapThenFoldSet
<1>2. ASSUME NEW s \in SUBSET S, s # {}
      PROVE  E[CHOOSE x \in s : TRUE].snap.bytes = f[CHOOSE x \in s : TRUE]
  BY <1>2 DEF ReadyKeys
<1>3. ASSUME NEW g
      PROVE  a(g) <=> Summed(g, f, S)
  <2> HIDE DEF f, S
  <2>1. [s \in SUBSET S |-> IF s = {} THEN 0
                            ELSE LET x == CHOOSE x \in s : TRUE
                                 IN  E[x].snap.bytes + g[s \ {x}]]
          = [s \in SUBSET S |-> IF s = {} THEN 0
                                ELSE LET x == CHOOSE x \in s : TRUE
                                     IN  f[x] + g[s \ {x}]]
    BY <1>2
  <2>2. QED
    BY <2>1, Zenon DEF Summed
<1>4. QED
  BY <1>1, <1>3 DEF Sum

\* Fewer ready snapshots, of the same sizes, are within the limits too.
LEMMA FewerIsWithin ==
    ASSUME NEW E \in [Key -> Entry], NEW F \in [Key -> Entry], IsFiniteSet(ReadyKeys(E)),
           ~exceeds_cache_limits(E),
           \A k \in Key : Usable(F[k]) => Usable(E[k]) /\ F[k].snap = E[k].snap
    PROVE  ~exceeds_cache_limits(F)
<1> DEFINE e == [k \in Key |-> E[k].snap.bytes]
           f == [k \in Key |-> F[k].snap.bytes]
<1>1. ReadyKeys(F) \in SUBSET ReadyKeys(E)
  BY DEF ReadyKeys
<1>2. /\ Cardinality(ReadyKeys(E)) \in Nat /\ Cardinality(ReadyKeys(F)) \in Nat
      /\ Cardinality(ReadyKeys(F)) <= Cardinality(ReadyKeys(E))
  BY <1>1, FS_Subset, FS_CardinalityType
<1>3. \A k \in ReadyKeys(E) : e[k] \in Nat
  BY DEF ReadyKeys, Entry, Snapshot
<1>4. \A k \in ReadyKeys(F) : f[k] = e[k]
  BY DEF ReadyKeys
<1> HIDE DEF e, f
<1>5. /\ Sum(f, ReadyKeys(F)) \in Nat /\ Sum(e, ReadyKeys(E)) \in Nat
      /\ Sum(f, ReadyKeys(F)) <= Sum(e, ReadyKeys(E))
  BY <1>1, <1>3, <1>4, SumMonotone
<1>6. ready_cache_bytes(E) = Sum(e, ReadyKeys(E)) /\ ready_cache_bytes(F) = Sum(f, ReadyKeys(F))
  BY BytesAreASum DEF e, f
<1>7. QED
  BY <1>2, <1>5, <1>6, SearchIndexAssumption DEF exceeds_cache_limits

\* Nothing ready is within the limits.
LEMMA NothingIsWithin ==
    ASSUME NEW E \in [Key -> Entry], ReadyKeys(E) = {}
    PROVE  ~exceeds_cache_limits(E)
<1>1. ready_cache_bytes(E) = 0
  BY BytesAreASum, SumOfNothing
<1>2. Cardinality(ReadyKeys(E)) = 0
  BY FS_EmptySet
<1>3. QED
  BY <1>1, <1>2, SearchIndexAssumption DEF exceeds_cache_limits

\* The order lists the ready keys, and each of them once.
Ordered(E, order) ==
    order \in Seq(Key) /\ ReadyKeys(E) \subseteq ToSet(order) /\ IsInjective(order)

\* Reconciling an order that lists the ready keys only drops the others.
LEMMA ReconcileDrops ==
    ASSUME NEW E \in [Key -> Entry], NEW order, Ordered(E, order)
    PROVE  /\ reconcile_access_order(E, order) = retain(order, ReadyKeys(E))
           /\ ToSet(retain(order, ReadyKeys(E))) = ReadyKeys(E)
<1> DEFINE kept == retain(order, ReadyKeys(E))
<1>1. kept \in Seq(Key) /\ ToSet(kept) = ReadyKeys(E)
  <2>1. /\ order \in Seq(Key) /\ ReadyKeys(E) \subseteq ToSet(order)
    BY DEF Ordered
  <2>2. kept \in Seq(Key) /\ ToSet(kept) = ToSet(order) \cap ReadyKeys(E)
    BY <2>1, RetainKeeps
  <2> HIDE DEF kept
  <2>3. QED
    BY <2>1, <2>2
<1> HIDE DEF kept
<1>2. SetToSeq({}) = << >>
  <2>1. Cardinality({}) = 0
    BY FS_EmptySet
  <2>2. << >> \in [1 .. 0 -> {}] /\ IsInjective(<< >>)
    BY DEF IsInjective
  <2>3. \A f \in [1 .. 0 -> {}] : f = << >>
    OBVIOUS
  <2>4. SetToSeq({}) = CHOOSE f \in [1 .. 0 -> {}] : IsInjective(f)
    BY <2>1 DEF SetToSeq
  <2>5. QED
    BY <2>2, <2>3, <2>4
<1>3. ReadyKeys(E) \ ToSet(kept) = {}
  BY <1>1
<1>4. kept \o << >> = kept
  BY <1>1
<1>5. QED
  BY <1>1, <1>2, <1>3, <1>4 DEF reconcile_access_order, kept

\* Evicting leaves an order of what is left, within the limits; the key used
\* last goes last.
LEMMA EvictionRestores ==
    ASSUME NEW E \in [Key -> Entry], NEW order, Ordered(E, order)
    PROVE  LET kept == evict_to_capacity(E, order)
           IN  /\ Ordered(kept.entries, kept.order)
               /\ ~exceeds_cache_limits(kept.entries)
               /\ Len(order) > 0 /\ Usable(E[order[Len(order)]]) =>
                     \/ Usable(kept.entries[order[Len(order)]])
                     \/ ReadyKeys(kept.entries) = {}
<1> DEFINE lru == reconcile_access_order(E, order)
           gone(n) == {lru[i] : i \in 1..n}
           After(n) == Evict(E, gone(n))
           enough == {n \in 0..Len(lru) :
                        ~exceeds_cache_limits(After(n)) \/ n = Len(lru)}
           pops == CHOOSE n \in enough : \A m \in enough : n <= m
           last == order[Len(order)]
<1>1. CASE ~exceeds_cache_limits(E)
  BY <1>1, Zenon DEF evict_to_capacity, Ordered
<1>2. CASE exceeds_cache_limits(E)
  <2>1. /\ evict_to_capacity(E, order).entries = After(pops)
        /\ evict_to_capacity(E, order).order = SubSeq(lru, pops + 1, Len(lru))
    BY <1>2 DEF evict_to_capacity
  <2>2. /\ lru \in Seq(Key) /\ ToSet(lru) = ReadyKeys(E) /\ IsInjective(lru)
        /\ lru = retain(order, ReadyKeys(E))
    BY ReconcileDrops, RetainKeeps DEF Ordered
  <2>3. Len(order) > 0 /\ last \in ReadyKeys(E) => Len(lru) > 0 /\ lru[Len(lru)] = last
    BY <2>2, RetainProperties, Zenon DEF Ordered
  <2> HIDE DEF lru
  <2>4. pops \in enough
    <3>1. enough \in SUBSET Nat /\ Len(lru) \in enough
      BY <2>2
    <3> HIDE DEF enough
    <3>2. \E n \in enough : \A m \in enough : n <= m
      BY <3>1, LeastNatural
    <3>3. QED
      BY <3>2
  <2> HIDE DEF pops
  <2>5. /\ After(pops) \in [Key -> Entry]
        /\ ReadyKeys(After(pops)) = ReadyKeys(E) \ gone(pops)
    <3>1. ~Usable(ColdEntry) /\ ColdEntry \in Entry
      BY EntryTransitions DEF Usable, ColdEntry
    <3>2. QED
      BY <3>1 DEF Evict, ReadyKeys
  <2>6. /\ SubSeq(lru, pops + 1, Len(lru)) \in Seq(Key)
        /\ ToSet(SubSeq(lru, pops + 1, Len(lru))) = ToSet(lru) \ gone(pops)
        /\ IsInjective(SubSeq(lru, pops + 1, Len(lru)))
    BY <2>2, <2>4, DroppingKeeps
  <2>7. Ordered(After(pops), SubSeq(lru, pops + 1, Len(lru)))
    BY <2>2, <2>5, <2>6 DEF Ordered
  <2>8. pops = Len(lru) => ReadyKeys(After(pops)) = {}
    BY <2>2, <2>5 DEF ToSet
  <2>9. ~exceeds_cache_limits(After(pops))
    <3>1. CASE pops = Len(lru)
      BY <2>5, <2>8, <3>1, NothingIsWithin
    <3>2. CASE pops # Len(lru)
      BY <2>4, <3>2
    <3>3. QED
      BY <3>1, <3>2
  <2>10. ASSUME Len(order) > 0, Usable(E[last]), pops # Len(lru)
         PROVE  Usable(After(pops)[last])
    <3>1. last \in Key
      BY <2>10 DEF Ordered
    <3>2. last \in ReadyKeys(E)
      BY <2>10, <3>1 DEF ReadyKeys
    <3>3. lru[Len(lru)] = last /\ Len(lru) \in 1 .. Len(lru)
      BY <2>2, <2>3, <2>10, <3>2
    <3>4. \A i \in 1 .. pops : i \in 1 .. Len(lru) /\ i # Len(lru)
      BY <2>2, <2>4, <2>10
    <3>5. last \notin gone(pops)
      BY <2>2, <3>3, <3>4 DEF IsInjective
    <3>6. QED
      BY <2>5, <3>2, <3>5 DEF ReadyKeys
  <2>11. QED
    BY <2>1, <2>7, <2>8, <2>9, <2>10
<1>3. QED
  BY <1>1, <1>2

\* What every step preserves.
LRUInv == ReadyIsOrdered /\ ~exceeds_cache_limits(entries)

\* Using a snapshot restores the order and the limits.
LEMMA UseSnapshotRestores ==
    ASSUME ReadyIsOrdered, NEW E \in [Key -> Entry], NEW k \in Key, Usable(E[k]),
           \A j \in Key \ {k} : Usable(E[j]) => Usable(entries[j]),
           UseSnapshot(E, k)
    PROVE  LRUInv' /\ (Usable(entries'[k]) \/ ReadyKeys(entries') = {})
<1> DEFINE order == touch(accessOrder, k)
           kept == evict_to_capacity(E, order)
<1>1. /\ order \in Seq(Key) /\ ToSet(order) = ToSet(accessOrder) \cup {k}
      /\ IsInjective(order) /\ Len(order) > 0 /\ order[Len(order)] = k
  BY TouchKeeps DEF ReadyIsOrdered
<1> HIDE DEF order
<1>2. ReadyKeys(E) \subseteq ReadyKeys(entries) \cup {k}
  BY DEF ReadyKeys
<1>3. Ordered(E, order)
  BY <1>1, <1>2 DEF Ordered, ReadyIsOrdered
<1>4. /\ Ordered(kept.entries, kept.order) /\ ~exceeds_cache_limits(kept.entries)
      /\ Usable(kept.entries[k]) \/ ReadyKeys(kept.entries) = {}
  BY <1>1, <1>3, EvictionRestores
<1>5. entries' = kept.entries /\ accessOrder' = kept.order
  BY DEF UseSnapshot, order
<1> HIDE DEF kept
<1>6. ReadyIsOrdered'
  BY <1>4, <1>5 DEF ReadyIsOrdered, Ordered, ReadyKeys
<1>7. (~exceeds_cache_limits(entries))'
  BY <1>4, <1>5
<1>8. QED
  BY <1>4, <1>5, <1>6, <1>7 DEF LRUInv

\* A step that makes nothing ready, and takes no ready key out of the order,
\* keeps both.
LEMMA NothingNewIsReady ==
    ASSUME TypeOK, TypeOK', LRUInv,
           \A k \in Key : Usable(entries'[k])
                            => Usable(entries[k]) /\ entries'[k].snap = entries[k].snap,
           \/ accessOrder' = accessOrder
           \/ \E k \in Key : /\ ~Usable(entries'[k])
                             /\ accessOrder' = retain(accessOrder, ToSet(accessOrder) \ {k})
    PROVE  LRUInv'
<1>1. accessOrder \in Seq(Key) /\ IsInjective(accessOrder)
      /\ ReadyKeys(entries) \subseteq ToSet(accessOrder)
  BY DEF LRUInv, ReadyIsOrdered
<1>2. ReadyKeys(entries') \subseteq ReadyKeys(entries)
  BY DEF ReadyKeys
<1>3. /\ accessOrder' \in Seq(Key) /\ IsInjective(accessOrder')
      /\ ReadyKeys(entries') \subseteq ToSet(accessOrder')
  <2>1. CASE accessOrder' = accessOrder
    BY <1>1, <1>2, <2>1
  <2>2. ASSUME NEW k \in Key, ~Usable(entries'[k]),
               accessOrder' = retain(accessOrder, ToSet(accessOrder) \ {k})
        PROVE  /\ accessOrder' \in Seq(Key) /\ IsInjective(accessOrder')
               /\ ReadyKeys(entries') \subseteq ToSet(accessOrder')
    <3>1. /\ accessOrder' \in Seq(Key) /\ IsInjective(accessOrder')
          /\ ToSet(accessOrder') = ToSet(accessOrder) \ {k}
      <4> HIDE DEF ToSet
      <4>1. QED
        BY <1>1, <2>2, RetainKeeps
    <3>2. k \notin ReadyKeys(entries')
      BY <2>2 DEF ReadyKeys
    <3>3. QED
      BY <1>1, <1>2, <3>1, <3>2
  <2>3. QED
    BY <2>1, <2>2
<1>4. IsFiniteSet(ReadyKeys(entries))
  BY <1>1, OrderCounts, FS_Subset
<1>5. ~exceeds_cache_limits(entries')
  <2>1. entries \in [Key -> Entry] /\ entries' \in [Key -> Entry]
    BY DEF TypeOK
  <2>2. QED
    BY <1>4, <2>1, FewerIsWithin DEF LRUInv
<1>6. ReadyIsOrdered'
  BY <1>3 DEF ReadyIsOrdered, ReadyKeys
<1>7. (~exceeds_cache_limits(entries))'
  BY <1>5
<1>8. QED
  BY <1>6, <1>7 DEF LRUInv

\* What Publish stores, before eviction, is ready.
LEMMA PublishRestores ==
    ASSUME IInv, LRUInv, NEW t \in Thread, Publish(t)
    PROVE  LRUInv' /\ (Usable(entries'[key[t]]) \/ ReadyKeys(entries') = {})
<1>1. /\ entries \in [Key -> Entry] /\ key[t] \in Key /\ snap[t] \in Snapshot
      /\ snap[t] # NoSnapshot /\ ReadyIsOrdered
  BY DEF IInv, TypeOK, SnapshotAccounting, Publish, LRUInv
<1>2. CASE Usable(Current(t))
  BY <1>1, <1>2, UseSnapshotRestores DEF Publish, Current
<1>3. CASE ~Usable(Current(t))
  <2> DEFINE E == [entries EXCEPT ![key[t]] = PublishedEntry(snap[t])]
  <2>1. UseSnapshot(E, key[t])
    BY <1>3 DEF Publish
  <2>2. E \in [Key -> Entry]
    BY <1>1, EntryTransitions
  <2>3. Usable(E[key[t]])
    BY <1>1 DEF Usable, PublishedEntry, ColdEntry
  <2>4. \A j \in Key \ {key[t]} : E[j] = entries[j]
    BY <1>1
  <2> HIDE DEF E
  <2>5. QED
    BY <1>1, <2>1, <2>2, <2>3, <2>4, UseSnapshotRestores
<1>4. QED
  BY <1>2, <1>3

\* Every step keeps the order and the limits.
LEMMA LRUStep == IInv /\ IInv' /\ LRUInv /\ [Next]_vars => LRUInv'
<1> SUFFICES ASSUME IInv, IInv', LRUInv, [Next]_vars
             PROVE  LRUInv'
  OBVIOUS
<1>0. /\ TypeOK /\ TypeOK' /\ SnapshotAccounting
      /\ entries \in [Key -> Entry] /\ key \in [Thread -> Key]
  BY DEF IInv, TypeOK
<1>1. ASSUME UNCHANGED <<entries, accessOrder>>
      PROVE  LRUInv'
  BY <1>0, <1>1, NothingNewIsReady
<1>2. ASSUME NEW t \in Thread, AcquireCached(t)
      PROVE  LRUInv'
  BY <1>0, <1>2, UseSnapshotRestores DEF AcquireCached, Current, LRUInv
<1>3. ASSUME NEW t \in Thread, AcquireReserves(t)
      PROVE  LRUInv'
  <2>1. entries' = [entries EXCEPT ![key[t]] = BuildingEntry(nextGen)]
        /\ accessOrder' = accessOrder
    BY <1>3 DEF AcquireReserves, begin_build
  <2>2. ~Usable(BuildingEntry(nextGen))
    BY DEF Usable, BuildingEntry, ColdEntry
  <2>3. QED
    BY <1>0, <2>1, <2>2, NothingNewIsReady
<1>4. ASSUME NEW t \in Thread, Publish(t)
      PROVE  LRUInv'
  BY <1>4, PublishRestores
<1>5. ASSUME NEW t \in Thread, RecordBuildFailure(t)
      PROVE  LRUInv'
  <2> DEFINE new == record_build_failure(entries[key[t]], gen[t], outcome[t])
  <2>1. entries' = [entries EXCEPT ![key[t]] = new] /\ accessOrder' = accessOrder
    BY <1>5 DEF RecordBuildFailure
  <2>2. new = entries[key[t]] \/ ~Usable(new)
    BY DEF record_build_failure, Usable, ColdEntry, Unavailable
  <2> HIDE DEF new
  <2>3. QED
    BY <1>0, <2>1, <2>2, NothingNewIsReady
<1>6. ASSUME NEW t \in Thread, BeginValidation(t)
      PROVE  LRUInv'
  <2> DEFINE new == mark_refreshing(entries[key[t]])
  <2>1. /\ entries' \in {entries, [entries EXCEPT ![key[t]] = new]}
        /\ accessOrder' = accessOrder
    BY <1>6 DEF BeginValidation
  <2>2. Usable(new) => Usable(entries[key[t]]) /\ new.snap = entries[key[t]].snap
    BY <1>0 DEF mark_refreshing, Usable, Entry
  <2> HIDE DEF new
  <2>3. QED
    BY <1>0, <2>1, <2>2, NothingNewIsReady
<1>7. ASSUME NEW t \in Thread, ValidationSucceeds(t)
      PROVE  LRUInv'
  <2>1. PICK full \in BOOLEAN, new \in BOOLEAN :
           entries' = IF current_snapshot_is(t)
                      THEN [entries EXCEPT ![key[t]] =
                              mark_ready_after_validation(@, full, new)]
                      ELSE entries
    BY <1>7 DEF ValidationSucceeds
  <2> DEFINE ready == mark_ready_after_validation(entries[key[t]], full, new)
  <2>2. ready.snap = entries[key[t]].snap
    BY <1>0 DEF mark_ready_after_validation, Entry
  <2>3. current_snapshot_is(t) => Usable(entries[key[t]])
    BY <1>0, <1>7 DEF ValidationSucceeds, current_snapshot_is, Current,
       SnapshotAccounting, Usable
  <2>4. accessOrder' = accessOrder
    BY <1>7 DEF ValidationSucceeds
  <2> HIDE DEF ready
  <2>5. \A k \in Key : Usable(entries'[k])
                       => Usable(entries[k]) /\ entries'[k].snap = entries[k].snap
    BY <1>0, <2>1, <2>2, <2>3 DEF ready
  <2>6. QED
    BY <1>0, <2>4, <2>5, NothingNewIsReady
<1>8. ASSUME NEW t \in Thread, ValidationFails(t)
      PROVE  LRUInv'
  <2>1. \/ UNCHANGED <<entries, accessOrder>>
        \/ /\ \E e : entries' = [entries EXCEPT ![key[t]] = Unavailable(e, @.gen)]
           /\ accessOrder' = retain(accessOrder, ToSet(accessOrder) \ {key[t]})
    BY <1>8 DEF ValidationFails
  <2>2. CASE UNCHANGED <<entries, accessOrder>>
    BY <1>1, <2>2
  <2>3. ASSUME NEW e, entries' = [entries EXCEPT ![key[t]] = Unavailable(e, @.gen)],
               accessOrder' = retain(accessOrder, ToSet(accessOrder) \ {key[t]})
        PROVE  LRUInv'
    <3>1. ~Usable(entries'[key[t]]) /\ key[t] \in Key
      BY <1>0, <2>3 DEF Usable, Unavailable, ColdEntry
    <3>2. \A k \in Key \ {key[t]} : entries'[k] = entries[k]
      BY <1>0, <2>3
    <3>3. QED
      BY <1>0, <2>3, <3>1, <3>2, NothingNewIsReady
  <2>4. QED
    BY <2>1, <2>2, <2>3
<1>9. ASSUME NEW t \in Thread,
             \/ \E k \in Key : Start(t, k)
             \/ Expire(t) \/ Cancel(t) \/ WakeSpuriously(t)
             \/ AcquireTimesOut(t) \/ AcquireWaits(t) \/ AcquireInherits(t)
             \/ WakeAtDeadline(t) \/ BuildSucceeds(t) \/ BuildFails(t) \/ NotifyAll(t)
             \/ VerifySucceeds(t) \/ VerifyFails(t)
      PROVE  LRUInv'
  <2>1. UNCHANGED <<entries, accessOrder>>
    BY <1>9 DEF manager, Start, Expire, Cancel, WakeSpuriously, AcquireTimesOut,
       AcquireWaits, AcquireInherits, WakeAtDeadline, BuildSucceeds, BuildFails,
       NotifyAll, VerifySucceeds, VerifyFails
  <2>2. QED
    BY <1>1, <2>1
<1>10. CASE Quiet \/ UNCHANGED vars
  BY <1>1, <1>10 DEF Quiet, vars
<1>11. QED
  BY <1>2, <1>3, <1>4, <1>5, <1>6, <1>7, <1>8, <1>9, <1>10 DEF Next, Step

\* Only the publishing request's own step takes it from publish to notify.
LEMMA OnlyPublishPublishes ==
    ASSUME TypeOK, [Next]_vars, NEW t \in Thread, pc[t] = "publish", pc'[t] = "notify"
    PROVE  Publish(t)
<1>1. ASSUME NEW u \in Thread, u # t,
             \/ \E k \in Key : Start(u, k)
             \/ Expire(u) \/ Cancel(u) \/ WakeSpuriously(u) \/ Step(u)
      PROVE  pc'[t] # "notify"
  <2>1. CASE NotifyAll(u)
    BY <1>1, <2>1 DEF NotifyAll, Waiters, TypeOK
  <2>2. CASE \/ AcquireCached(u) \/ AcquireTimesOut(u) \/ AcquireInherits(u)
             \/ VerifyFails(u) \/ ValidationSucceeds(u) \/ ValidationFails(u)
    BY <1>1, <2>2 DEF AcquireCached, AcquireTimesOut, AcquireInherits, VerifyFails,
       ValidationSucceeds, ValidationFails, Return, Goto, TypeOK
  <2>3. CASE ~NotifyAll(u) /\ ~AcquireCached(u) /\ ~AcquireTimesOut(u)
             /\ ~AcquireInherits(u) /\ ~VerifyFails(u) /\ ~ValidationSucceeds(u)
             /\ ~ValidationFails(u)
    BY <1>1, <2>3 DEF Step, Start, Expire, Cancel, WakeSpuriously, AcquireWaits,
       AcquireReserves, WakeAtDeadline, BuildSucceeds, BuildFails, Publish,
       RecordBuildFailure, VerifySucceeds, BeginValidation, Goto, TypeOK
  <2>4. QED
    BY <2>1, <2>2, <2>3
<1>2. ~(Quiet \/ UNCHANGED vars)
  BY DEF Quiet, vars
<1>3. ASSUME \/ \E k \in Key : Start(t, k)
             \/ Expire(t) \/ Cancel(t) \/ WakeSpuriously(t) \/ Step(t)
      PROVE  Publish(t)
  BY <1>3 DEF Step, Start, Expire, Cancel, WakeSpuriously, AcquireWaits,
     AcquireReserves, WakeAtDeadline, BuildSucceeds, BuildFails, NotifyAll,
     RecordBuildFailure, VerifySucceeds, BeginValidation, AcquireCached,
     AcquireTimesOut, AcquireInherits, VerifyFails, ValidationSucceeds,
     ValidationFails, TypeOK
<1>4. QED
  BY <1>1, <1>2, <1>3 DEF Next

\* What every step preserves holds throughout.
LEMMA EvictionKeeps == Spec => []LRUInv
<1>1. Init => LRUInv
  <2> SUFFICES ASSUME Init PROVE LRUInv
    OBVIOUS
  <2>1. ReadyKeys(entries) = {}
    BY DEF Init, ReadyKeys, Usable, ColdEntry
  <2>2. entries \in [Key -> Entry] /\ accessOrder = << >>
    BY TypingInit DEF Init, TypeOK
  <2>3. ReadyIsOrdered
    BY <2>1, <2>2 DEF ReadyIsOrdered, IsInjective
  <2>4. QED
    BY <2>1, <2>2, <2>3, NothingIsWithin DEF LRUInv
<1>2. IInv /\ IInv' /\ LRUInv /\ [Next]_vars => LRUInv'
  BY LRUStep
<1>3. QED
  BY <1>1, <1>2, IndexInvariant, PTL DEF Spec

\* Eviction is least recently used and restores both limits, for any limits,
\* any sizes of snapshots and any number of requests.
THEOREM EvictionIsLRUHolds == Spec => EvictionIsLRU
<1>1. IInv /\ LRUInv /\ [Next]_vars =>
         \A t \in Thread : pc[t] = "publish" /\ pc'[t] = "notify" =>
             Usable(entries'[key[t]]) \/ ReadyKeys(entries') = {}
  BY OnlyPublishPublishes, PublishRestores DEF IInv
<1>2. Spec => [](ReadyIsOrdered /\ ~exceeds_cache_limits(entries))
  BY EvictionKeeps, PTL DEF LRUInv
<1>3. Spec => [][\A t \in Thread : pc[t] = "publish" /\ pc'[t] = "notify" =>
                   Usable(entries'[key[t]]) \/ ReadyKeys(entries') = {}]_vars
  BY <1>1, EvictionKeeps, IndexInvariant, PTL DEF Spec
<1>4. QED
  BY <1>2, <1>3 DEF EvictionIsLRU

-----------------------------------------------------------------------------
(* The manager keeps the promise of SnapshotCache. *)

\* No reservation and no snapshot has generation 0, and what is about to be
\* published was built under the request's own reservation.
Numbered(e) == /\ e.state = "building" => e.gen # 0
               /\ Usable(e) => e.snap.gen # 0
Generations ==
    /\ \A k \in Key : Numbered(entries[k])
    /\ \A t \in Thread : /\ pc[t] \in {"build", "publish"} => gen[t] # 0
                         /\ pc[t] = "publish" => snap[t].gen = gen[t]

\* The entries a step may leave behind, when it hands out no generation.
LEMMA NumberedEntries ==
    /\ Numbered(ColdEntry)
    /\ \A e, g : Numbered(Unavailable(e, g))
    /\ \A g : g # 0 => Numbered(BuildingEntry(g))
    /\ \A s : s.gen # 0 => Numbered(PublishedEntry(s))
    /\ \A e \in Entry : Numbered(e) => Numbered(mark_refreshing(e))
    /\ \A e \in Entry, full, new \in BOOLEAN :
          Numbered(e) /\ Usable(e) => Numbered(mark_ready_after_validation(e, full, new))
<1> USE DEF Numbered, Usable
<1>1. Numbered(ColdEntry) /\ (\A e, g : Numbered(Unavailable(e, g)))
  BY DEF ColdEntry, Unavailable
<1>2. \A g : g # 0 => Numbered(BuildingEntry(g))
  BY DEF ColdEntry, BuildingEntry
<1>3. \A s : s.gen # 0 => Numbered(PublishedEntry(s))
  BY DEF ColdEntry, PublishedEntry
<1>4. \A e \in Entry : Numbered(e) => Numbered(mark_refreshing(e))
  BY DEF mark_refreshing, Entry
<1>5. \A e \in Entry, full, new \in BOOLEAN :
         Numbered(e) /\ Usable(e) => Numbered(mark_ready_after_validation(e, full, new))
  BY DEF mark_ready_after_validation, Entry
<1>6. QED
  BY <1>1, <1>2, <1>3, <1>4, <1>5, Zenon

\* Using a snapshot leaves numbered entries.
LEMMA UseSnapshotNumbers ==
    ASSUME NEW E \in [Key -> Entry], NEW k, UseSnapshot(E, k),
           \A j \in Key : Numbered(E[j])
    PROVE  \A j \in Key : Numbered(entries'[j])
<1>1. \A j \in Key : entries'[j] = E[j] \/ entries'[j] = ColdEntry
  BY UseSnapshotDropsReady
<1>2. QED
  BY <1>1, NumberedEntries

LEMMA GenerationsStep == IInv /\ Generations /\ [Next]_vars => Generations'
<1> SUFFICES ASSUME IInv, Generations, [Next]_vars
             PROVE  Generations'
  OBVIOUS
<1>0. /\ TypeOK /\ SnapshotAccounting /\ entries \in [Key -> Entry]
      /\ key \in [Thread -> Key] /\ \A k \in Key : Numbered(entries[k])
  BY DEF IInv, TypeOK, Generations
<1>1. ASSUME \A k \in Key : Numbered(entries'[k]),
             \A t \in Thread : pc'[t] \in {"build", "publish"} =>
                pc'[t] = pc[t] /\ gen'[t] = gen[t] /\ snap'[t] = snap[t]
      PROVE  Generations'
  BY <1>1 DEF Generations, Numbered, Usable
<1>2. ASSUME NEW t \in Thread, AcquireCached(t)
      PROVE  Generations'
  <2>1. \A k \in Key : Numbered(entries'[k])
    BY <1>0, <1>2, UseSnapshotNumbers DEF AcquireCached
  <2>2. /\ pc' = [pc EXCEPT ![t] = pc'[t]] /\ pc'[t] \in {"idle", "verify"}
        /\ \A u \in Thread \ {t} : gen'[u] = gen[u] /\ snap'[u] = snap[u]
    BY <1>0, <1>2 DEF AcquireCached, Return, Goto, TypeOK
  <2>3. QED
    BY <1>0, <1>1, <2>1, <2>2 DEF TypeOK
<1>3. ASSUME NEW t \in Thread, AcquireReserves(t)
      PROVE  Generations'
  <2>1. /\ entries' = [entries EXCEPT ![key[t]] = BuildingEntry(nextGen)]
        /\ pc' = [pc EXCEPT ![t] = "build"] /\ gen' = [gen EXCEPT ![t] = nextGen]
        /\ snap' = snap /\ nextGen # 0
    BY <1>0, <1>3 DEF AcquireReserves, begin_build, Goto, TypeOK
  <2>2. \A k \in Key : Numbered(entries'[k])
    BY <1>0, <2>1, NumberedEntries
  <2>3. QED
    BY <1>0, <2>1, <2>2 DEF Generations, Numbered, Usable, TypeOK
<1>4. ASSUME NEW t \in Thread, BuildSucceeds(t)
      PROVE  Generations'
  <2>1. PICK b : /\ snap' = [snap EXCEPT ![t] = [gen |-> gen[t], bytes |-> b]]
                 /\ pc' = [pc EXCEPT ![t] = "publish"] /\ pc[t] = "build"
                 /\ gen' = gen /\ entries' = entries
    BY <1>4 DEF BuildSucceeds, Goto, manager
  <2>2. QED
    BY <1>0, <2>1 DEF Generations, Numbered, Usable, TypeOK
<1>5. ASSUME NEW t \in Thread, Publish(t)
      PROVE  Generations'
  <2> DEFINE E == IF Usable(Current(t)) THEN entries
                  ELSE [entries EXCEPT ![key[t]] = PublishedEntry(snap[t])]
  <2>1. UseSnapshot(E, key[t])
    BY <1>5 DEF Publish
  <2>2. E \in [Key -> Entry]
    BY <1>0, EntryTransitions DEF TypeOK
  <2>3. snap[t].gen # 0
    BY <1>5 DEF Publish, Generations
  <2>4. \A k \in Key : Numbered(E[k])
    BY <1>0, <2>3, NumberedEntries
  <2> HIDE DEF E
  <2>5. \A k \in Key : Numbered(entries'[k])
    BY <2>1, <2>2, <2>4, UseSnapshotNumbers
  <2>6. /\ pc' = [pc EXCEPT ![t] = "notify"] /\ gen' = gen
        /\ \A u \in Thread \ {t} : snap'[u] = snap[u]
    BY <1>0, <1>5 DEF Publish, Goto, TypeOK
  <2>7. QED
    BY <1>0, <1>1, <2>5, <2>6 DEF TypeOK
<1>6. ASSUME NEW t \in Thread, RecordBuildFailure(t)
      PROVE  Generations'
  <2> DEFINE new == record_build_failure(entries[key[t]], gen[t], outcome[t])
  <2>1. /\ entries' = [entries EXCEPT ![key[t]] = new]
        /\ pc' = [pc EXCEPT ![t] = "notify"] /\ gen' = gen /\ snap' = snap
    BY <1>6 DEF RecordBuildFailure, Goto
  <2>2. Numbered(new)
    BY <1>0, NumberedEntries DEF record_build_failure
  <2> HIDE DEF new
  <2>3. QED
    BY <1>0, <1>1, <2>1, <2>2 DEF TypeOK
<1>7. ASSUME NEW t \in Thread, NotifyAll(t)
      PROVE  Generations'
  <2>1. /\ \A u \in Thread : pc'[u] = pc[u] \/ pc'[u] \notin {"build", "publish"}
        /\ pc'[t] \notin {"build", "publish"}
        /\ \A u \in Thread \ {t} : gen'[u] = gen[u] /\ snap'[u] = snap[u]
        /\ entries' = entries
    BY <1>0, <1>7 DEF NotifyAll, manager, TypeOK
  <2>2. QED
    BY <1>0, <1>1, <2>1
<1>8. ASSUME NEW t \in Thread, BeginValidation(t)
      PROVE  Generations'
  <2> DEFINE new == mark_refreshing(entries[key[t]])
  <2>1. /\ entries' \in {entries, [entries EXCEPT ![key[t]] = new]}
        /\ pc' = [pc EXCEPT ![t] = "validate"] /\ gen' = gen /\ snap' = snap
    BY <1>8 DEF BeginValidation, Goto
  <2>2. Numbered(new)
    BY <1>0, NumberedEntries
  <2> HIDE DEF new
  <2>3. QED
    BY <1>0, <1>1, <2>1, <2>2 DEF TypeOK
<1>9. ASSUME NEW t \in Thread, ValidationSucceeds(t)
      PROVE  Generations'
  <2>1. PICK full \in BOOLEAN, new \in BOOLEAN :
           entries' = IF current_snapshot_is(t)
                      THEN [entries EXCEPT ![key[t]] =
                              mark_ready_after_validation(@, full, new)]
                      ELSE entries
    BY <1>9 DEF ValidationSucceeds
  <2>2. current_snapshot_is(t) => Usable(entries[key[t]])
    BY <1>0, <1>9 DEF ValidationSucceeds, current_snapshot_is, Current,
       SnapshotAccounting, Usable
  <2>3. \A k \in Key : Numbered(entries'[k])
    BY <1>0, <2>1, <2>2, NumberedEntries
  <2>4. /\ pc' = [pc EXCEPT ![t] = "idle"]
        /\ \A u \in Thread \ {t} : gen'[u] = gen[u] /\ snap'[u] = snap[u]
    BY <1>0, <1>9 DEF ValidationSucceeds, Return, Goto, TypeOK
  <2>5. QED
    BY <1>0, <1>1, <2>3, <2>4 DEF TypeOK
<1>10. ASSUME NEW t \in Thread, ValidationFails(t)
       PROVE  Generations'
  <2>1. /\ \/ entries' = entries
           \/ \E e : entries' = [entries EXCEPT ![key[t]] = Unavailable(e, @.gen)]
        /\ pc' = [pc EXCEPT ![t] = "idle"]
        /\ \A u \in Thread \ {t} : gen'[u] = gen[u] /\ snap'[u] = snap[u]
    BY <1>0, <1>10 DEF ValidationFails, Return, Goto, TypeOK
  <2>2. \A k \in Key : Numbered(entries'[k])
    BY <1>0, <2>1, NumberedEntries
  <2>3. QED
    BY <1>0, <1>1, <2>1, <2>2 DEF TypeOK
<1>11. ASSUME NEW t \in Thread,
              AcquireTimesOut(t) \/ AcquireInherits(t) \/ VerifyFails(t)
       PROVE  Generations'
  <2>1. /\ pc' = [pc EXCEPT ![t] = "idle"] /\ entries' = entries
        /\ \A u \in Thread \ {t} : gen'[u] = gen[u] /\ snap'[u] = snap[u]
    BY <1>0, <1>11 DEF AcquireTimesOut, AcquireInherits, VerifyFails, Return, Goto,
       manager, TypeOK
  <2>2. QED
    BY <1>0, <1>1, <2>1 DEF TypeOK
<1>12. ASSUME NEW t \in Thread,
              \/ \E k \in Key : Start(t, k)
              \/ Expire(t) \/ Cancel(t) \/ WakeSpuriously(t) \/ AcquireWaits(t)
              \/ WakeAtDeadline(t) \/ BuildFails(t) \/ VerifySucceeds(t)
       PROVE  Generations'
  <2>1. /\ pc' = [pc EXCEPT ![t] = pc'[t]] /\ entries' = entries
        /\ pc'[t] = pc[t] \/ pc'[t] \notin {"build", "publish"}
        /\ gen' = gen /\ snap' = snap
    BY <1>0, <1>12 DEF Start, Expire, Cancel, WakeSpuriously, AcquireWaits,
       WakeAtDeadline, BuildFails, VerifySucceeds, Goto, manager, TypeOK
  <2>2. QED
    BY <1>0, <1>1, <2>1 DEF TypeOK
<1>13. CASE Quiet \/ UNCHANGED vars
  BY <1>13 DEF Quiet, vars, Generations, Numbered, Usable
<1>14. QED
  BY <1>2, <1>3, <1>4, <1>5, <1>6, <1>7, <1>8, <1>9, <1>10, <1>11, <1>12, <1>13
     DEF Next, Step

\* The refinement mapping, of any entries.
BuildingIn(E) == [k \in Key |-> IF E[k].state = "building" THEN E[k].gen ELSE 0]
CachedIn(E) == [k \in Key |-> IF Usable(E[k]) THEN E[k].snap.gen ELSE 0]
Without(c, S) == [k \in Key |-> IF k \in S THEN 0 ELSE c[k]]

\* Dropping what is ready, and nothing else, is forgetting.
LEMMA DropsAreForgotten ==
    ASSUME NEW E \in [Key -> Entry], NEW F \in [Key -> Entry],
           \A k \in Key : \/ F[k] = E[k]
                          \/ Usable(E[k]) /\ F[k].state \notin {"building", "ready", "refreshing"}
    PROVE  /\ BuildingIn(F) = BuildingIn(E)
           /\ \E S \in SUBSET Key : CachedIn(F) = Without(CachedIn(E), S)
<1>1. BuildingIn(F) = BuildingIn(E)
  BY DEF BuildingIn, Usable
<1>2. CachedIn(F) = Without(CachedIn(E), {k \in Key : ~Usable(F[k])})
  BY DEF CachedIn, Without, Usable
<1>3. QED
  BY <1>1, <1>2

\* The promise counts as the manager does.
LEMMA CountsAgree == \A S : Promise!Cardinality(S) = Cardinality(S)
BY DEF Promise!Cardinality, Cardinality

\* The build a request is at is that of its own reservation.
LEMMA BuildIsCurrent ==
    ASSUME TypeOK, SingleFlight, NEW t \in Thread, pc[t] \in {"build", "publish", "buildfailed"}
    PROVE  Current(t).state = "building" /\ Current(t).gen = gen[t]
BY DEF TypeOK, SingleFlight, Building, Current

\* A step of the manager is a step of the promise, or none.
LEMMA PromiseStep ==
    IInv /\ Generations /\ LRUInv' /\ [Next]_vars => [Promise!Next]_(Promise!vars)
<1> SUFFICES ASSUME IInv, Generations, LRUInv', [Next]_vars
             PROVE  Promise!Next \/ UNCHANGED Promise!vars
  BY DEF Promise!vars
<1> DEFINE B == BuildingIn(entries)
           C == CachedIn(entries)
           Bn == BuildingIn(entries')
           Cn == CachedIn(entries')
<1>0. /\ TypeOK /\ SnapshotAccounting /\ SingleFlight
      /\ entries \in [Key -> Entry] /\ key \in [Thread -> Key] /\ nextGen \in Nat \ {0}
      /\ \A k \in Key : Numbered(entries[k])
  BY DEF IInv, TypeOK, Generations
<1>a. ASSUME Bn = B, Cn = C, nextGen' = nextGen
      PROVE  UNCHANGED Promise!vars
  BY <1>a DEF Promise!vars, BuildingIn, CachedIn
<1>b. ASSUME Bn = B, nextGen' = nextGen, NEW S \in SUBSET Key, Cn = Without(C, S)
      PROVE  Promise!Forget
  BY <1>b DEF Promise!Forget, Promise!Without, BuildingIn, CachedIn, Without
<1>c. ASSUME NEW k \in Key, B[k] # 0, Cn = C, nextGen' = nextGen,
             Bn = [B EXCEPT ![k] = 0]
      PROVE  Promise!Abandon(k)
  BY <1>c DEF Promise!Abandon, BuildingIn, CachedIn
<1>d. ASSUME NEW k \in Key, B[k] = 0, C[k] = 0, nextGen' = nextGen + 1, Cn = C,
             Bn = [B EXCEPT ![k] = nextGen]
      PROVE  Promise!Reserve(k)
  <2>1. nextGen' - 1 = (nextGen - 1) + 1 /\ (nextGen - 1) + 1 = nextGen
    BY <1>0, <1>d
  <2>2. QED
    BY <1>d, <2>1 DEF Promise!Reserve, BuildingIn, CachedIn
<1>e. ASSUME NEW k \in Key, B[k] # 0, nextGen' = nextGen, Bn = [B EXCEPT ![k] = 0],
             NEW S \in SUBSET Key, Cn = Without([C EXCEPT ![k] = B[k]], S),
             Cardinality({j \in Key : Cn[j] # 0}) <= MaxEntries
      PROVE  Promise!Store(k)
  <2>1. Cn = Promise!Without([C EXCEPT ![k] = B[k]], S)
    BY <1>e DEF Promise!Without, Without
  <2>2. UNCHANGED (nextGen - 1)
    BY <1>e
  <2> HIDE DEF Promise!Without
  <2>3. \E R \in SUBSET Key : Cn = Promise!Without([C EXCEPT ![k] = B[k]], R)
    BY <1>e, <2>1, Zenon
  <2>4. Promise!Cardinality({j \in Key : Cn[j] # 0}) <= MaxEntries
    BY <1>e, CountsAgree
  <2>5. QED
    BY <1>e, <2>2, <2>3, <2>4, Zenon DEF Promise!Store, BuildingIn, CachedIn
<1> HIDE DEF B, C, Bn, Cn
<1>1. ASSUME NEW t \in Thread, AcquireCached(t)
      PROVE  Promise!Forget
  <2>1. entries' \in [Key -> Entry]
        /\ \A k \in Key : \/ entries'[k] = entries[k]
                          \/ Usable(entries[k]) /\ entries'[k] = ColdEntry
    BY <1>0, <1>1, UseSnapshotDropsReady DEF AcquireCached
  <2>2. ColdEntry.state \notin {"building", "ready", "refreshing"}
    BY DEF ColdEntry
  <2>3. Bn = B /\ \E S \in SUBSET Key : Cn = Without(C, S)
    BY <1>0, <2>1, <2>2, DropsAreForgotten DEF B, C, Bn, Cn
  <2>4. nextGen' = nextGen
    BY <1>1 DEF AcquireCached
  <2>5. QED
    BY <1>b, <2>3, <2>4
<1>2. ASSUME NEW t \in Thread, AcquireReserves(t)
      PROVE  \E k \in Key : Promise!Reserve(k)
  <2>1. /\ entries' = [entries EXCEPT ![key[t]] = BuildingEntry(nextGen)]
        /\ nextGen' = nextGen + 1 /\ key[t] \in Key
        /\ ~Usable(entries[key[t]]) /\ entries[key[t]].state # "building"
    BY <1>0, <1>2 DEF AcquireReserves, begin_build, MayBuild, Current
  <2>2. /\ BuildingEntry(nextGen).state = "building" /\ BuildingEntry(nextGen).gen = nextGen
        /\ ~Usable(BuildingEntry(nextGen))
    BY DEF BuildingEntry, ColdEntry, Usable
  <2>3. Bn = [B EXCEPT ![key[t]] = nextGen] /\ B[key[t]] = 0
    BY <1>0, <2>1, <2>2 DEF B, Bn, BuildingIn
  <2>4. Cn = C /\ C[key[t]] = 0
    BY <1>0, <2>1, <2>2 DEF C, Cn, CachedIn
  <2>5. QED
    BY <1>d, <2>1, <2>3, <2>4
<1>3. ASSUME NEW t \in Thread, Publish(t)
      PROVE  \E k \in Key : Promise!Store(k)
  <2> DEFINE k == key[t]
             E == [entries EXCEPT ![k] = PublishedEntry(snap[t])]
             S == {j \in Key : ~Usable(entries'[j])}
  <2>1. /\ k \in Key /\ entries[k].state = "building" /\ entries[k].gen = gen[t]
        /\ gen[t] # 0 /\ snap[t].gen = gen[t] /\ nextGen' = nextGen
    BY <1>0, <1>3, BuildIsCurrent DEF Publish, Current, Generations
  <2>2. UseSnapshot(E, k)
    BY <1>3, <2>1 DEF Publish, Usable, Current
  <2>3. E \in [Key -> Entry]
    BY <1>0, <1>3, EntryTransitions DEF TypeOK
  <2>4. /\ E[k].state = "ready" /\ E[k].snap = snap[t]
        /\ \A j \in Key \ {k} : E[j] = entries[j]
    BY <1>0, <2>1 DEF PublishedEntry, ColdEntry
  <2>5. snap[t] # NoSnapshot
    BY <1>0, <1>3 DEF Publish, SnapshotAccounting
  <2> HIDE DEF E
  <2>6. \A j \in Key : \/ entries'[j] = E[j]
                       \/ entries'[j] = ColdEntry /\ Usable(E[j])
    BY <2>2, <2>3, UseSnapshotDropsReady
  <2>7. ColdEntry.state = "cold" /\ ~Usable(ColdEntry)
    BY DEF ColdEntry, Usable
  <2>8. Bn = [B EXCEPT ![k] = 0] /\ B[k] # 0 /\ B[k] = gen[t]
    <3>1. \A j \in Key \ {k} : Bn[j] = B[j]
      BY <2>4, <2>6, <2>7 DEF B, Bn, BuildingIn, Usable
    <3>2. Bn[k] = 0 /\ B[k] = gen[t]
      BY <2>1, <2>4, <2>6, <2>7 DEF B, Bn, BuildingIn
    <3>3. QED
      BY <2>1, <3>1, <3>2 DEF B, Bn, BuildingIn
  <2>9. Cn = Without([C EXCEPT ![k] = B[k]], S)
    <3>1. \A j \in Key : j \notin S => entries'[j] = E[j]
      BY <2>6, <2>7
    <3>2. \A j \in Key : Cn[j] = IF j \in S THEN 0 ELSE entries'[j].snap.gen
      BY DEF Cn, CachedIn
    <3>3. \A j \in Key \ {k} : j \notin S => C[j] = entries[j].snap.gen
      BY <2>4, <3>1 DEF C, CachedIn
    <3>4. \A j \in Key \ {k} : Cn[j] = IF j \in S THEN 0 ELSE C[j]
      BY <2>4, <3>1, <3>2, <3>3
    <3>5. Cn[k] = IF k \in S THEN 0 ELSE B[k]
      BY <2>1, <2>4, <2>8, <3>1, <3>2
    <3>6. QED
      BY <2>1, <3>4, <3>5 DEF Cn, C, CachedIn, Without
  <2>10. Cardinality({j \in Key : Cn[j] # 0}) <= MaxEntries
    <3>1. \A j \in Key : Usable(entries'[j]) => entries'[j].snap.gen # 0
      <4>1. \A j \in Key : Numbered(entries'[j])
        BY <1>0, <2>1, <2>2, <2>3, UseSnapshotNumbers, NumberedEntries DEF E
      <4>2. QED
        BY <4>1 DEF Numbered
    <3>2. {j \in Key : Cn[j] # 0} = ReadyKeys(entries')
      BY <3>1 DEF Cn, CachedIn, ReadyKeys
    <3>3. ~exceeds_cache_limits(entries')
      BY DEF LRUInv
    <3>4. ~(Cardinality(ReadyKeys(entries')) > MaxEntries)
      BY <3>3 DEF exceeds_cache_limits
    <3>5. Cardinality(ReadyKeys(entries')) \in Nat
      <4>1. LRUInv' => IsFiniteSet(ReadyKeys(entries'))
        BY OrderCounts, FS_Subset DEF LRUInv, ReadyIsOrdered
      <4>2. QED
        BY <4>1, FS_CardinalityType
    <3>6. QED
      BY <3>2, <3>4, <3>5, SearchIndexAssumption
  <2>11. S \in SUBSET Key
    OBVIOUS
  <2> HIDE DEF S
  <2>12. QED
    BY <1>e, <2>1, <2>8, <2>9, <2>10, <2>11
<1>4. ASSUME NEW t \in Thread, RecordBuildFailure(t)
      PROVE  \E k \in Key : Promise!Abandon(k)
  <2> DEFINE new == record_build_failure(entries[key[t]], gen[t], outcome[t])
  <2>1. /\ key[t] \in Key /\ entries[key[t]].state = "building"
        /\ entries[key[t]].gen = gen[t]
    BY <1>0, <1>4, BuildIsCurrent DEF RecordBuildFailure, Current
  <2>2. /\ entries' = [entries EXCEPT ![key[t]] = new] /\ nextGen' = nextGen
    BY <1>4 DEF RecordBuildFailure
  <2>3. new.state # "building" /\ ~Usable(new)
    BY <2>1 DEF record_build_failure, ColdEntry, Unavailable, Usable
  <2> HIDE DEF new
  <2>4. Bn = [B EXCEPT ![key[t]] = 0] /\ B[key[t]] # 0
    BY <1>0, <2>1, <2>2, <2>3 DEF B, Bn, BuildingIn, Numbered
  <2>5. Cn = C
    BY <1>0, <2>1, <2>2, <2>3 DEF C, Cn, CachedIn, Usable
  <2>6. QED
    BY <1>c, <2>1, <2>2, <2>4, <2>5
<1>5. ASSUME NEW t \in Thread, BeginValidation(t)
      PROVE  UNCHANGED Promise!vars
  <2> DEFINE new == mark_refreshing(entries[key[t]])
  <2>1. /\ entries' \in {entries, [entries EXCEPT ![key[t]] = new]}
        /\ nextGen' = nextGen
    BY <1>5 DEF BeginValidation
  <2>2. /\ Usable(new) <=> Usable(entries[key[t]])
        /\ new.snap = entries[key[t]].snap
        /\ new.state = "building" <=> entries[key[t]].state = "building"
        /\ new.gen = entries[key[t]].gen
    BY <1>0 DEF mark_refreshing, Usable, Entry
  <2> HIDE DEF new
  <2>3. Bn = B /\ Cn = C
    BY <1>0, <2>1, <2>2 DEF B, Bn, C, Cn, BuildingIn, CachedIn
  <2>4. QED
    BY <1>a, <2>1, <2>3
<1>6. ASSUME NEW t \in Thread, ValidationSucceeds(t)
      PROVE  UNCHANGED Promise!vars
  <2>1. PICK full \in BOOLEAN, new \in BOOLEAN :
           entries' = IF current_snapshot_is(t)
                      THEN [entries EXCEPT ![key[t]] =
                              mark_ready_after_validation(@, full, new)]
                      ELSE entries
    BY <1>6 DEF ValidationSucceeds
  <2> DEFINE ready == mark_ready_after_validation(entries[key[t]], full, new)
  <2>2. ready.snap = entries[key[t]].snap /\ ready.state = "ready"
    BY <1>0 DEF mark_ready_after_validation, Entry
  <2>3. current_snapshot_is(t) => /\ Usable(entries[key[t]])
                                  /\ entries[key[t]].state # "building"
    BY <1>0, <1>6 DEF ValidationSucceeds, current_snapshot_is, Current,
       SnapshotAccounting, Usable
  <2>4. nextGen' = nextGen
    BY <1>6 DEF ValidationSucceeds
  <2>5. entries' = IF current_snapshot_is(t)
                   THEN [entries EXCEPT ![key[t]] = ready] ELSE entries
    BY <2>1
  <2> HIDE DEF ready
  <2>6. Bn = B /\ Cn = C
    BY <1>0, <2>2, <2>3, <2>5 DEF B, Bn, C, Cn, BuildingIn, CachedIn, Usable
  <2>7. QED
    BY <1>a, <2>4, <2>6
<1>7. ASSUME NEW t \in Thread, ValidationFails(t)
      PROVE  Promise!Forget \/ UNCHANGED Promise!vars
  <2>1. nextGen' = nextGen
    BY <1>7 DEF ValidationFails
  <2>2. PICK e \in Error :
           entries' = IF current_snapshot_is(t)
                      THEN [entries EXCEPT ![key[t]] = Unavailable(e, @.gen)]
                      ELSE entries
    BY <1>7 DEF ValidationFails, PerRequestErrors, Error
  <2>3. CASE ~current_snapshot_is(t)
    BY <1>a, <2>1, <2>2, <2>3 DEF B, Bn, C, Cn
  <2>4. CASE current_snapshot_is(t)
    <3>1. Usable(entries[key[t]])
      BY <1>0, <1>7, <2>4 DEF ValidationFails, current_snapshot_is, Current,
         SnapshotAccounting, Usable
    <3>2. \A g : Unavailable(e, g).state \notin {"building", "ready", "refreshing"}
      BY DEF Unavailable, ColdEntry
    <3>3. entries' \in [Key -> Entry]
      BY <1>0, <2>2, EntryTransitions DEF Entry
    <3>4. Bn = B /\ \E S \in SUBSET Key : Cn = Without(C, S)
      BY <1>0, <2>2, <2>4, <3>1, <3>2, <3>3, DropsAreForgotten DEF B, C, Bn, Cn
    <3>5. QED
      BY <1>b, <2>1, <3>4
  <2>5. QED
    BY <2>3, <2>4
<1>8. ASSUME NEW t \in Thread,
             \/ \E k \in Key : Start(t, k)
             \/ Expire(t) \/ Cancel(t) \/ WakeSpuriously(t)
             \/ AcquireTimesOut(t) \/ AcquireWaits(t) \/ AcquireInherits(t)
             \/ WakeAtDeadline(t) \/ BuildSucceeds(t) \/ BuildFails(t) \/ NotifyAll(t)
             \/ VerifySucceeds(t) \/ VerifyFails(t)
      PROVE  UNCHANGED Promise!vars
  <2>1. UNCHANGED <<entries, nextGen>>
    BY <1>8 DEF manager, Start, Expire, Cancel, WakeSpuriously, AcquireTimesOut,
       AcquireWaits, AcquireInherits, WakeAtDeadline, BuildSucceeds, BuildFails,
       NotifyAll, VerifySucceeds, VerifyFails
  <2>2. QED
    BY <1>a, <2>1 DEF B, Bn, C, Cn
<1>9. CASE Quiet \/ UNCHANGED vars
  BY <1>a, <1>9 DEF Quiet, vars, B, Bn, C, Cn
<1>10. QED
  BY <1>1, <1>2, <1>3, <1>4, <1>5, <1>6, <1>7, <1>8, <1>9 DEF Next, Step, Promise!Next

\* The manager implements SnapshotCache, for any threads, keys and limits: at
\* most one build of a key at a time, begun only when nothing is cached; what
\* is cached is the outcome of the last reservation, never of an older one;
\* and never more than MaxEntries snapshots.
THEOREM ImplementsSnapshotCacheHolds == Spec => ImplementsSnapshotCache
<1>1. Init => Promise!Init /\ Generations
  <2>1. ColdEntry.state # "building" /\ ~Usable(ColdEntry)
    BY DEF ColdEntry, Usable
  <2>2. Init => Promise!Init
    BY <2>1 DEF Init, Promise!Init
  <2>3. Init => Generations
    BY <2>1 DEF Init, Generations, Numbered
  <2>4. QED
    BY <2>2, <2>3
<1>2. IInv /\ Generations /\ [Next]_vars => Generations'
  BY GenerationsStep
<1>3. IInv /\ Generations /\ LRUInv' /\ [Next]_vars => [Promise!Next]_(Promise!vars)
  BY PromiseStep
<1>4. QED
  BY <1>1, <1>2, <1>3, IndexInvariant, EvictionKeeps, PTL
     DEF Spec, ImplementsSnapshotCache, Promise!Spec

-----------------------------------------------------------------------------
(***************************************************************************)
(* Freshness.  What a validation concludes rests on stamps, and the proof  *)
(* follows them: no stamp on disk is ahead of the clock (StampsPast); a    *)
(* stamp in a snapshot that is older than its reading names one content    *)
(* (SoundInv); a walk that no stamp has overtaken finds what is there      *)
(* (WalkInv), so that certification promises it for good (GuaranteeInv) .  *)
(* Known says which query holds which snapshot, and the last part counts   *)
(* the answers of a wrong one.                                             *)
(***************************************************************************)
LEMMA FreshTypeInit == FreshInit => FreshTypeOK
<1> SUFFICES ASSUME FreshInit
             PROVE  FreshTypeOK
  OBVIOUS
<1> USE FreshnessAssumption
<1>1. 0 \in Time /\ 0 \in Nat
  BY DEF Time
<1>2. [body : Text, stamp : {0}] \subseteq OnDisk /\ [hides : Rules, stamp : {0}] \subseteq Control
  BY <1>1 DEF OnDisk, Control
<1>3. disk \in [File -> OnDisk \cup {None}] /\ control \in Control \cup {None}
  BY <1>2 DEF FreshInit
<1>4. NoIndex \in IndexSnapshot
  BY <1>1 DEF NoIndex, IndexSnapshot
<1> QED
  BY <1>1, <1>3, <1>4 DEF FreshInit, FreshTypeOK

\* The types of what is on disk.
LEMMA DiskTyped ==
    ASSUME FreshTypeOK
    PROVE  /\ now \in Nat /\ now \in Time
           /\ \A f \in File : disk[f] # None =>
                /\ disk[f] \in OnDisk /\ disk[f].body \in Text
                /\ disk[f].stamp \in Time /\ disk[f].stamp \in Nat
           /\ \A d \in Dir : mtime[d] \in Time /\ mtime[d] \in Nat
           /\ control # None => /\ control \in Control /\ control.hides \subseteq File
                                /\ control.stamp \in Time /\ control.stamp \in Nat
BY FreshnessAssumption DEF FreshTypeOK, OnDisk, Control, Time

LEMMA SnapshotTyped ==
    ASSUME NEW s \in IndexSnapshot
    PROVE  /\ s.gen \in Nat
           /\ \A f \in File : s.docs[f] # None =>
                /\ s.docs[f] \in Document /\ s.docs[f].body \in Text
                /\ s.docs[f].stamp \in Nat /\ s.docs[f].young \in BOOLEAN
           /\ \A d \in Dir : s.dirs[d] \in Nat
           /\ s.control # None => /\ s.control \in ControlStamp /\ s.control.stamp \in Nat
                                  /\ s.control.young \in BOOLEAN
           /\ Indexed(s) \subseteq File /\ result_doc_ids(s) \subseteq Indexed(s)
BY FreshnessAssumption DEF IndexSnapshot, Document, ControlStamp, Time, Indexed, result_doc_ids

LEMMA EntryTyped ==
    ASSUME FreshTypeOK, entry # None
    PROVE  /\ entry \in IndexEntry /\ entry.snap \in IndexSnapshot
           /\ entry.since \in Nat /\ entry.certified \in BOOLEAN
BY DEF FreshTypeOK, IndexEntry

LEMMA ValidatedTyped ==
    ASSUME NEW e \in IndexEntry, NEW full \in BOOLEAN, NEW new \in BOOLEAN
    PROVE  LET v == validated(e, full, new)
           IN  /\ v \in IndexEntry /\ v # None /\ v.snap = e.snap
               /\ v.since = IF full THEN 0 ELSE e.since + 1
               /\ v.certified => e.certified \/ new
<1> DEFINE c == e.certified \/ new
           n == IF full THEN 0 ELSE e.since + 1
           v == [e EXCEPT !.certified = c, !.since = n]
<1>1. c \in BOOLEAN /\ n \in Nat
  BY DEF IndexEntry
<1>2. v \in IndexEntry /\ v.snap = e.snap /\ v.since = n /\ v.certified = c
  <2> HIDE DEF c, n
  <2> QED
    BY <1>1 DEF IndexEntry
<1>3. v # None
  BY <1>2, AbsenceAssumption
<1>4. validated(e, full, new) = v
  BY DEF validated
<1> HIDE DEF v
<1> QED
  BY <1>2, <1>3, <1>4

\* What an answer makes of the entry.
LEMMA AnsweredEntry ==
    ASSUME FreshTypeOK, NEW q \in Query, Answer(q)
    PROVE  /\ entry = None => entry' = None
           /\ entry # None =>
                /\ entry' # None /\ entry' \in IndexEntry /\ entry'.snap = entry.snap
                /\ entry'.certified => entry.certified \/ (still_cached(index[q]) /\ newly[q])
                /\ entry'.since = IF ~ still_cached(index[q]) THEN entry.since
                                  ELSE IF goal[q] = "full" THEN 0 ELSE entry.since + 1
<1>1. CASE ~ still_cached(index[q])
  BY <1>1, EntryTyped DEF Answer
<1>2. CASE still_cached(index[q])
  <2>1. entry # None /\ entry \in IndexEntry /\ (goal[q] = "full") \in BOOLEAN /\ newly[q] \in BOOLEAN
    BY <1>2, EntryTyped DEF still_cached, FreshTypeOK
  <2>2. entry' = validated(entry, goal[q] = "full", newly[q])
    BY <1>2 DEF Answer
  <2> QED
    BY <1>2, <2>1, <2>2, ValidatedTyped
<1> QED
  BY <1>1, <1>2

\* Ending a query keeps the types of its variables.
LEMMA EndTyped ==
    ASSUME FreshTypeOK, NEW q \in Query, End(q)
    PROVE  /\ stage' \in [Query -> {"idle", "rules", "list", "stamp", "load", "begin",
                                    "dirs", "results"}]
           /\ goal' \in [Query -> {"build", "set", "full"}]
           /\ index' \in [Query -> IndexSnapshot]
           /\ left' \in [Query -> SUBSET (File \cup Dir)]
           /\ found' \in [Query -> SUBSET File]
           /\ floor' \in [Query -> Time]
           /\ certified' \in [Query -> BOOLEAN] /\ newly' \in [Query -> BOOLEAN]
           /\ calm' \in [Query -> BOOLEAN] /\ had' \in [Query -> SUBSET File]
<1>1. NoIndex \in IndexSnapshot
  BY FreshnessAssumption DEF NoIndex, IndexSnapshot, Time
<1>2. 0 \in Time
  BY FreshnessAssumption DEF Time
<1> QED
  BY <1>1, <1>2 DEF End, Go, FreshTypeOK

\* The variables keep their types.
LEMMA FreshTypeStep ==
    ASSUME FreshTypeOK, [FreshNext]_freshVars
    PROVE  FreshTypeOK'
<1> USE FreshnessAssumption
<1>1. CASE UNCHANGED freshVars
  BY <1>1 DEF freshVars, FreshTypeOK
<1>2. CASE Tick
  BY <1>2 DEF Tick, FreshTypeOK, Time, locals, history
<1>3. ASSUME Change, disk' \in [File -> OnDisk \cup {None}],
             mtime' \in [Dir -> Time], control' \in Control \cup {None}
      PROVE  FreshTypeOK'
  <2>1. ASSUME NEW q \in Query
        PROVE  result_doc_ids(index[q]) \subseteq File
    BY SnapshotTyped DEF FreshTypeOK
  <2>2. had' \in [Query -> SUBSET File]
    <3> DEFINE h(q) == IF Validates(q)
                 THEN had[q] \cup {f \in result_doc_ids(index[q]) : Matches(f)'}
                 ELSE had[q]
    <3>1. ASSUME NEW q \in Query
          PROVE  h(q) \subseteq File
      BY <2>1 DEF FreshTypeOK
    <3>2. had' = [q \in Query |-> h(q)]
      BY <1>3 DEF Change
    <3> HIDE DEF h
    <3> QED
      BY <3>1, <3>2
  <2> QED
    BY <1>3, <2>2 DEF Change, FreshTypeOK, locals
<1>4. ASSUME NEW f \in File, WriteFile(f)
      PROVE  FreshTypeOK'
  <2>1. PICK t \in Text : disk' = [disk EXCEPT ![f] = [body |-> t, stamp |-> now]]
    BY <1>4 DEF WriteFile
  <2>2. [body |-> t, stamp |-> now] \in OnDisk
    BY DiskTyped DEF OnDisk
  <2>3. disk' \in [File -> OnDisk \cup {None}]
    BY <2>1, <2>2 DEF FreshTypeOK
  <2>4. mtime' \in [Dir -> Time] /\ control' \in Control \cup {None} /\ Change
    BY <1>4 DEF WriteFile, FreshTypeOK
  <2> QED
    BY <2>3, <2>4, <1>3
<1>5. ASSUME NEW f \in File, CreateOrRemove(f)
      PROVE  FreshTypeOK'
  <2>1. ASSUME NEW t \in Text
        PROVE  [body |-> t, stamp |-> now] \in OnDisk
    BY DiskTyped DEF OnDisk
  <2>2. \E v \in OnDisk \cup {None} : disk' = [disk EXCEPT ![f] = v]
    BY <2>1, <1>5 DEF CreateOrRemove
  <2>3. disk' \in [File -> OnDisk \cup {None}]
    BY <2>2 DEF FreshTypeOK
  <2>4. mtime' \in [Dir -> Time] /\ control' \in Control \cup {None} /\ Change
    BY <1>5 DEF CreateOrRemove, FreshTypeOK
  <2> QED
    BY <2>3, <2>4, <1>3
<1>6. ASSUME NEW r \in Rules \cup {None}, ChangeRules(r)
      PROVE  FreshTypeOK'
  <2>1. control' \in Control \cup {None}
    BY <1>6, DiskTyped DEF ChangeRules, Control
  <2>2. mtime' \in [Dir -> Time] /\ disk' \in [File -> OnDisk \cup {None}] /\ Change
    BY <1>6, DiskTyped DEF ChangeRules, FreshTypeOK
  <2> QED
    BY <2>1, <2>2, <1>3
<1>7. ASSUME NEW q \in Query, AcquireSnapshot(q)
      PROVE  FreshTypeOK'
  <2>1. index' \in [Query -> IndexSnapshot]
    <3>1. CASE entry # None /\ index' = [index EXCEPT ![q] = entry.snap]
      BY <3>1, EntryTyped DEF FreshTypeOK
    <3>2. CASE index' = [index EXCEPT ![q].gen = calls + 1]
      <4>1. index[q] \in IndexSnapshot /\ calls + 1 \in Nat
        BY DEF FreshTypeOK
      <4>2. [index[q] EXCEPT !.gen = calls + 1] \in IndexSnapshot
        BY <4>1 DEF IndexSnapshot
      <4> QED
        BY <3>2, <4>2 DEF FreshTypeOK
    <3> QED
      BY <1>7, <3>1, <3>2 DEF AcquireSnapshot
  <2>2. calls' \in 0 .. MaxCalls
    BY <1>7 DEF AcquireSnapshot, FreshTypeOK
  <2> QED
    BY <1>7, <2>1, <2>2 DEF AcquireSnapshot, Go, FreshTypeOK, files, history
<1>8. ASSUME NEW q \in Query, Fail(q)
      PROVE  FreshTypeOK'
  <2>1. entry' \in IndexEntry \cup {None} /\ UNCHANGED <<files, calls, wrong>>
    BY <1>8 DEF Fail, FreshTypeOK
  <2> QED
    BY <1>8, <2>1, EndTyped DEF Fail, FreshTypeOK, files
<1>9. ASSUME NEW q \in Query, NEW why \in {"set", "full"}, Walk(q, why)
      PROVE  FreshTypeOK'
  BY <1>9 DEF Walk, Go, FreshTypeOK, files, history
<1>10. ASSUME NEW q \in Query, WalkRules(q)
       PROVE  FreshTypeOK'
  <2>1. {Home[f] : f \in File} \subseteq Dir
    OBVIOUS
  <2>2. left' \in [Query -> SUBSET (File \cup Dir)] /\ found' \in [Query -> SUBSET File]
    BY <2>1, <1>10 DEF WalkRules, FreshTypeOK
  <2> QED
    BY <1>10, <2>2 DEF WalkRules, Go, FreshTypeOK, files, history
<1>11. ASSUME NEW q \in Query, NEW d \in Dir, WalkDir(q, d)
       PROVE  FreshTypeOK'
  BY <1>11 DEF WalkDir, FreshTypeOK, files, history
<1>12. ASSUME NEW q \in Query, build_ignore_fingerprint(q)
       PROVE  FreshTypeOK'
  <2>1. index' \in [Query -> IndexSnapshot]
    <3> DEFINE c == IF control = None THEN None
                    ELSE [stamp |-> control.stamp, young |-> control.stamp = now]
    <3>1. c \in ControlStamp \cup {None}
      BY DiskTyped DEF ControlStamp
    <3>2. index' = [index EXCEPT ![q].control = c]
      BY <1>12 DEF build_ignore_fingerprint
    <3> HIDE DEF c
    <3>3. index[q] \in IndexSnapshot
      BY DEF FreshTypeOK
    <3>4. [index[q] EXCEPT !.control = c] \in IndexSnapshot
      BY <3>1, <3>3 DEF IndexSnapshot
    <3> QED
      BY <3>2, <3>4 DEF FreshTypeOK
  <2> QED
    BY <1>12, <2>1 DEF build_ignore_fingerprint, Go, FreshTypeOK, files, history
<1>13. ASSUME NEW q \in Query, NEW d \in Dir, from_directories(q, d)
       PROVE  FreshTypeOK'
  <2>1. index' \in [Query -> IndexSnapshot]
    <3>1. index[q] \in IndexSnapshot /\ mtime[d] \in Time
      BY DiskTyped DEF FreshTypeOK
    <3>2. [index[q] EXCEPT !.dirs[d] = mtime[d]] \in IndexSnapshot
      BY <3>1 DEF IndexSnapshot
    <3> QED
      BY <1>13, <3>2 DEF from_directories, FreshTypeOK
  <2> QED
    BY <1>13, <2>1 DEF from_directories, Go, FreshTypeOK, files, history
<1>14. ASSUME NEW q \in Query, NEW f \in File, OpenFile(q, f)
       PROVE  FreshTypeOK'
  <2>1. index' \in [Query -> IndexSnapshot]
    <3> DEFINE e == [body |-> disk[f].body, stamp |-> disk[f].stamp,
                     young |-> disk[f].stamp = now]
    <3>1. e \in Document
      BY <1>14, DiskTyped DEF Document, OpenFile
    <3>2. index' = [index EXCEPT ![q].docs[f] = e]
      BY <1>14 DEF OpenFile
    <3> HIDE DEF e
    <3>3. index[q] \in IndexSnapshot
      BY DEF FreshTypeOK
    <3>4. [index[q] EXCEPT !.docs[f] = e] \in IndexSnapshot
      BY <3>1, <3>3 DEF IndexSnapshot
    <3> QED
      BY <3>2, <3>4 DEF FreshTypeOK
  <2> QED
    BY <1>14, <2>1 DEF OpenFile, FreshTypeOK, files, history
<1>15. ASSUME NEW q \in Query, NEW f \in File, ReadFile(q, f)
       PROVE  FreshTypeOK'
  <2>1. index' \in [Query -> IndexSnapshot]
    <3>1. CASE UNCHANGED index
      BY <3>1 DEF FreshTypeOK
    <3>2. CASE disk[f] # None /\ index' = [index EXCEPT ![q].docs[f].body = disk[f].body]
      <4>1. index[q] \in IndexSnapshot /\ index[q].docs[f] \in Document /\ disk[f].body \in Text
        BY <1>15, <3>2, DiskTyped, SnapshotTyped DEF FreshTypeOK, ReadFile
      <4>2. [index[q].docs[f] EXCEPT !.body = disk[f].body] \in Document
        BY <4>1 DEF Document
      <4>3. [index[q] EXCEPT !.docs[f].body = disk[f].body] \in IndexSnapshot
        BY <4>1, <4>2 DEF IndexSnapshot
      <4> QED
        BY <3>2, <4>3 DEF FreshTypeOK
    <3> QED
      BY <1>15, <3>1, <3>2 DEF ReadFile
  <2> QED
    BY <1>15, <2>1 DEF ReadFile, FreshTypeOK, files, history
<1>16. ASSUME NEW q \in Query, publish_snapshot(q)
       PROVE  FreshTypeOK'
  <2>1. entry' \in IndexEntry
    BY <1>16 DEF publish_snapshot, IndexEntry, FreshTypeOK
  <2> QED
    BY <1>16, <2>1 DEF publish_snapshot, Go, FreshTypeOK, files, history
<1>17. ASSUME NEW q \in Query, begin_validation(q)
       PROVE  FreshTypeOK'
  <2>1. result_doc_ids(index[q]) \subseteq File
    BY SnapshotTyped DEF FreshTypeOK
  <2>2. (still_cached(index[q]) /\ entry.certified) \in BOOLEAN
    BY EntryTyped DEF still_cached
  <2>3. had' \in [Query -> SUBSET File]
    BY <1>17, <2>1 DEF begin_validation, FreshTypeOK
  <2>4. certified' \in [Query -> BOOLEAN] /\ calm' \in [Query -> BOOLEAN]
    BY <1>17, <2>2 DEF begin_validation, FreshTypeOK
  <2>5. /\ stage' \in [Query -> {"idle", "rules", "list", "stamp", "load", "begin",
                                 "dirs", "results"}]
        /\ goal' \in [Query -> {"build", "set", "full"}]
        /\ left' \in [Query -> SUBSET (File \cup Dir)] /\ floor' \in [Query -> Time]
    BY <1>17 DEF begin_validation, Go, FreshTypeOK
  <2> QED
    BY <1>17, <2>3, <2>4, <2>5 DEF begin_validation, FreshTypeOK, files
<1>18. ASSUME NEW q \in Query, NEW d \in Dir, CheckDirectory(q, d)
       PROVE  FreshTypeOK'
  <2>1. CASE Walk(q, "full")
    BY <2>1, <1>9
  <2>2. CASE ~ Walk(q, "full")
    BY <1>18, <2>2 DEF CheckDirectory, FreshTypeOK, files, history
  <2> QED
    BY <2>1, <2>2
<1>19. ASSUME NEW q \in Query, CheckIgnore(q)
       PROVE  FreshTypeOK'
  <2>1. CASE \E why \in {"set", "full"} : Walk(q, why)
    BY <2>1, <1>9
  <2>2. CASE ~ \E why \in {"set", "full"} : Walk(q, why)
    <3>1. result_doc_ids(index[q]) \subseteq File
      BY SnapshotTyped DEF FreshTypeOK
    <3> QED
      BY <1>19, <2>2, <3>1 DEF CheckIgnore, Go, FreshTypeOK, files, history
  <2> QED
    BY <2>1, <2>2
<1>20. ASSUME NEW q \in Query, FileSetChanged(q)
       PROVE  FreshTypeOK'
  BY <1>20, <1>9 DEF FileSetChanged
<1>21. ASSUME NEW q \in Query, FileSetMatches(q)
       PROVE  FreshTypeOK'
  <2>1. result_doc_ids(index[q]) \subseteq File
    BY SnapshotTyped DEF FreshTypeOK
  <2>2. certifiable_at(index[q], floor[q]) \in BOOLEAN
    BY DEF certifiable_at
  <2>3. newly' \in [Query -> BOOLEAN]
    BY <1>21, <2>2 DEF FileSetMatches, FreshTypeOK
  <2> QED
    BY <1>21, <2>1, <2>3 DEF FileSetMatches, Go, FreshTypeOK, files, history
<1>22. ASSUME NEW q \in Query, FullSetChanged(q)
       PROVE  FreshTypeOK'
  BY <1>22, <1>8 DEF FullSetChanged
<1>23. ASSUME NEW q \in Query, FullSetMatches(q)
       PROVE  FreshTypeOK'
  <2>1. Indexed(index[q]) \subseteq File
    BY SnapshotTyped DEF FreshTypeOK
  <2> QED
    BY <1>23, <2>1 DEF FullSetMatches, Go, FreshTypeOK, files, history
<1>24. ASSUME NEW q \in Query, NEW f \in File, CheckDocument(q, f)
       PROVE  FreshTypeOK'
  <2>1. CASE Fail(q)
    BY <2>1, <1>8
  <2>2. CASE ~ Fail(q)
    BY <1>24, <2>2 DEF CheckDocument, FreshTypeOK, files, history
  <2> QED
    BY <2>1, <2>2
<1>25. ASSUME NEW q \in Query, Answer(q)
       PROVE  FreshTypeOK'
  <2>1. entry' \in IndexEntry \cup {None}
    BY <1>25, AnsweredEntry DEF FreshTypeOK
  <2>2. wrong' \in Nat
    BY <1>25 DEF Answer, FreshTypeOK
  <2> QED
    BY <1>25, <2>1, <2>2, EndTyped DEF Answer, FreshTypeOK, files
<1> QED
  BY <1>1, <1>2, <1>4, <1>5, <1>6, <1>7, <1>8, <1>10, <1>11, <1>12, <1>13, <1>14, <1>15,
     <1>16, <1>17, <1>18, <1>19, <1>20, <1>21, <1>22, <1>23, <1>24, <1>25
     DEF FreshNext, Environment, Search, Fails
-----------------------------------------------------------------------------
\* What a step leaves alone of a query.
Same(p) ==
    /\ stage'[p] = stage[p] /\ goal'[p] = goal[p] /\ index'[p] = index[p]
    /\ left'[p] = left[p] /\ found'[p] = found[p] /\ floor'[p] = floor[p]
    /\ certified'[p] = certified[p] /\ newly'[p] = newly[p]
    /\ calm'[p] = calm[p] /\ had'[p] = had[p]

\* A query changes neither the disk nor another query.
LEMMA OthersStay ==
    ASSUME FreshTypeOK, NEW q \in Query, Search(q), NEW p \in Query, p # q
    PROVE  Same(p) /\ UNCHANGED files
<1>1. CASE End(q) /\ UNCHANGED files
  BY <1>1 DEF End, Go, Same, FreshTypeOK
<1>2. CASE \E why \in {"set", "full"} : Walk(q, why)
  BY <1>2 DEF Walk, Go, Same, FreshTypeOK, history
<1>3. CASE AcquireSnapshot(q)
  BY <1>3 DEF AcquireSnapshot, Go, Same, FreshTypeOK, history
<1>4. CASE WalkRules(q) \/ \E d \in Dir : WalkDir(q, d)
  BY <1>4 DEF WalkRules, WalkDir, Go, Same, FreshTypeOK, history
<1>5. CASE build_ignore_fingerprint(q)
  BY <1>5 DEF build_ignore_fingerprint, Go, Same, FreshTypeOK, history
<1>13. CASE \E d \in Dir : from_directories(q, d)
  BY <1>13 DEF from_directories, Go, Same, FreshTypeOK, history
<1>6. CASE \E f \in File : OpenFile(q, f) \/ ReadFile(q, f)
  BY <1>6 DEF OpenFile, ReadFile, Go, Same, FreshTypeOK, history
<1>7. CASE publish_snapshot(q) \/ begin_validation(q)
  BY <1>7 DEF publish_snapshot, begin_validation, Go, Same, FreshTypeOK, history
<1>8. CASE \E d \in Dir : CheckDirectory(q, d)
  BY <1>8, <1>2 DEF CheckDirectory, Same, FreshTypeOK, history
<1>9. CASE CheckIgnore(q)
  BY <1>9, <1>2 DEF CheckIgnore, Go, Same, FreshTypeOK, history
<1>10. CASE FileSetChanged(q) \/ FileSetMatches(q) \/ FullSetMatches(q)
  BY <1>10, <1>2 DEF FileSetChanged, FileSetMatches, FullSetMatches, Go, Same, FreshTypeOK,
     history
<1>11. CASE \E f \in File : CheckDocument(q, f)
  BY <1>11, <1>1 DEF CheckDocument, Fail, Go, Same, FreshTypeOK, history
<1>12. CASE Fails(q) \/ FullSetChanged(q) \/ Answer(q)
  BY <1>12, <1>1 DEF Fails, FullSetChanged, Fail, Answer
<1> QED
  BY <1>3, <1>4, <1>5, <1>6, <1>7, <1>8, <1>9, <1>10, <1>11, <1>12, <1>13 DEF Search

LEMMA SearchStays ==
    ASSUME NEW q \in Query, Search(q)
    PROVE  UNCHANGED files
BY DEF Search, AcquireSnapshot, Fails, Fail, WalkRules, WalkDir, build_ignore_fingerprint,
   from_directories, OpenFile, ReadFile, publish_snapshot, begin_validation, CheckDirectory,
   Walk, CheckIgnore, FileSetChanged, FileSetMatches, FullSetChanged, FullSetMatches,
   CheckDocument, Answer

\* Other programs change no query, and time does not run back.
LEMMA ProgramsStay ==
    ASSUME FreshTypeOK, Environment
    PROVE  /\ UNCHANGED <<entry, calls, stage, goal, index, left, found, floor, certified, newly>>
           /\ now' \in Nat /\ now <= now'
           /\ Tick \/ (Change /\ now' = now)
BY DiskTyped DEF Environment, Tick, WriteFile, CreateOrRemove, ChangeRules, Change, locals, FreshTypeOK

-----------------------------------------------------------------------------
\* What the control flow alone says of a query, and of the clock.
Course ==
    \A q \in Query :
        /\ stage[q] \in {"idle", "begin", "stamp", "load"} => goal[q] = "build"
        /\ stage[q] = "dirs" => goal[q] = "set"
        /\ stage[q] = "results" => goal[q] # "build"
        /\ ~ Validates(q) => ~ certified[q] /\ ~ newly[q] /\ ~ calm[q]
        /\ stage[q] = "idle" \/ (Builds(q) /\ stage[q] # "load") => Indexed(index[q]) = {}
        /\ floor[q] <= now

LEMMA CourseInit == FreshInit => Course
<1>1. Indexed(NoIndex) = {}
  BY DEF Indexed, NoIndex
<1> QED
  BY <1>1 DEF FreshInit, Course, Builds, Validates

LEMMA CourseStep ==
    ASSUME FreshTypeOK, Course, [FreshNext]_freshVars
    PROVE  Course'
<1>1. CASE UNCHANGED freshVars
  BY <1>1 DEF freshVars, Course, Builds, Validates
<1>2. CASE Environment
  <2>1. \A q \in Query : calm'[q] => calm[q]
    BY <1>2, ProgramsStay DEF Tick, Change, history
  <2>2. \A q \in Query : floor[q] \in Nat
    BY FreshnessAssumption DEF FreshTypeOK, Time
  <2> QED
    BY <1>2, <2>1, <2>2, ProgramsStay, DiskTyped DEF Course, Builds, Validates
<1>3. ASSUME NEW q \in Query, Search(q)
      PROVE  Course'
  <2> DEFINE P(p) ==
        /\ stage[p] \in {"idle", "begin", "stamp", "load"} => goal[p] = "build"
        /\ stage[p] = "dirs" => goal[p] = "set"
        /\ stage[p] = "results" => goal[p] # "build"
        /\ ~ Validates(p) => ~ certified[p] /\ ~ newly[p] /\ ~ calm[p]
        /\ stage[p] = "idle" \/ (Builds(p) /\ stage[p] # "load") => Indexed(index[p]) = {}
        /\ floor[p] <= now
  <2>1. ASSUME NEW p \in Query, p # q
        PROVE  P(p)'
    BY <1>3, <2>1, OthersStay DEF Course, Same, files, Builds, Validates, Indexed
  <2>2. P(q) /\ DOMAIN stage = Query /\ UNCHANGED now
    BY <1>3, SearchStays DEF Course, FreshTypeOK, files
  <2>3. P(q)'
    <3>1. CASE End(q)
      <4>1. Indexed(NoIndex) = {}
        BY DEF Indexed, NoIndex
      <4> QED
        BY <3>1, <4>1, <2>2, DiskTyped DEF End, Go, FreshTypeOK, Builds, Validates
    <3>2. CASE AcquireSnapshot(q)
      <4>1. index[q] \in IndexSnapshot
        BY DEF FreshTypeOK
      <4>2. Indexed(index[q]) = {}
        BY <3>2, <2>2 DEF AcquireSnapshot
      <4>3. stage'[q] = "begin" \/ Indexed(index'[q]) = {}
        <5>1. CASE index' = [index EXCEPT ![q].gen = calls + 1]
          <6>1. index'[q].docs = index[q].docs
            BY <5>1, <4>1 DEF IndexSnapshot, FreshTypeOK
          <6> QED
            BY <4>2, <6>1 DEF Indexed
        <5> QED
          BY <3>2, <5>1 DEF AcquireSnapshot, Go, FreshTypeOK
      <4> QED
        BY <3>2, <4>3, <2>2 DEF AcquireSnapshot, Go, FreshTypeOK, Builds, Validates, history
    <3>3. CASE \E why \in {"set", "full"} : Walk(q, why) /\ Validates(q)
      BY <3>3, <2>2 DEF Walk, Go, FreshTypeOK, Builds, Validates, history
    <3>4. CASE WalkRules(q) \/ \E d \in Dir : WalkDir(q, d)
      BY <3>4, <2>2 DEF WalkRules, WalkDir, Go, FreshTypeOK, Builds, Validates, history
    <3>5. CASE build_ignore_fingerprint(q)
      <4>1. index[q] \in IndexSnapshot
        BY DEF FreshTypeOK
      <4>2. Indexed(index'[q]) = Indexed(index[q])
        BY <3>5, <4>1 DEF build_ignore_fingerprint, FreshTypeOK, Indexed, IndexSnapshot
      <4> QED
        BY <3>5, <4>2, <2>2 DEF build_ignore_fingerprint, Walked, Go, FreshTypeOK, Builds,
           Validates, history
    <3>6. CASE \E d \in Dir : from_directories(q, d)
      <4>1. index[q] \in IndexSnapshot
        BY DEF FreshTypeOK
      <4>2. Indexed(index'[q]) = Indexed(index[q])
        BY <3>6, <4>1 DEF from_directories, FreshTypeOK, Indexed, IndexSnapshot
      <4> QED
        BY <3>6, <4>2, <2>2 DEF from_directories, Go, FreshTypeOK, Builds, Validates, history
    <3>7. CASE \E f \in File : OpenFile(q, f) \/ ReadFile(q, f)
      BY <3>7, <2>2 DEF OpenFile, ReadFile, FreshTypeOK, Builds, Validates, history
    <3>8. CASE publish_snapshot(q)
      BY <3>8, <2>2 DEF publish_snapshot, Go, FreshTypeOK, Builds, Validates, history
    <3>9. CASE begin_validation(q)
      BY <3>9, <2>2, DiskTyped DEF begin_validation, Go, FreshTypeOK, Builds, Validates, Course
    <3>10. CASE \E d \in Dir : CheckDirectory(q, d)
      BY <3>10, <3>3, <2>2 DEF CheckDirectory, FreshTypeOK, Builds, Validates, history
    <3>11. CASE CheckIgnore(q)
      <4>1. Validates(q)
        BY <3>11, <2>2 DEF CheckIgnore, Builds, Validates
      <4>2. CASE stage' = [stage EXCEPT ![q] = "results"]
                 /\ UNCHANGED <<goal, index, floor, certified, newly, calm>>
        BY <4>1, <4>2, <2>2 DEF FreshTypeOK, Builds, Validates
      <4> QED
        BY <3>11, <3>3, <4>1, <4>2 DEF CheckIgnore, Go, history
    <3>12. CASE FileSetChanged(q) \/ FileSetMatches(q) \/ FullSetMatches(q)
      <4>1. Validates(q)
        BY <3>12 DEF FileSetChanged, FileSetMatches, FullSetMatches, Walked, Builds, Validates
      <4> QED
        BY <3>12, <3>3, <4>1, <2>2 DEF FileSetChanged, FileSetMatches, FullSetMatches, Go,
           FreshTypeOK, Builds, Validates, history
    <3>13. CASE \E f \in File : CheckDocument(q, f)
      BY <3>13, <3>1, <2>2 DEF CheckDocument, Fail, FreshTypeOK, Builds, Validates, history
    <3>14. CASE Fails(q) \/ FullSetChanged(q) \/ Answer(q)
      BY <3>14, <3>1 DEF Fails, FullSetChanged, Fail, Answer
    <3> QED
      BY <1>3, <3>2, <3>4, <3>5, <3>6, <3>7, <3>8, <3>9, <3>10, <3>11, <3>12, <3>13, <3>14
         DEF Search
  <2> QED
    BY <2>1, <2>3 DEF Course
<1> QED
  BY <1>1, <1>2, <1>3 DEF FreshNext
-----------------------------------------------------------------------------
\* No stamp on disk is ahead of the clock.
StampsPast ==
    /\ \A d \in Dir : mtime[d] <= now
    /\ \A f \in File : disk[f] # None => disk[f].stamp <= now
    /\ control # None => control.stamp <= now

\* What a change on disk does to the stamps: it leaves them, or sets them to now.
LEMMA ChangesAreStamped ==
    ASSUME FreshTypeOK, Environment
    PROVE  /\ \A d \in Dir : mtime'[d] = mtime[d] \/ mtime'[d] = now
           /\ \A f \in File : disk'[f] = disk[f] \/ disk'[f] = None \/ disk'[f].stamp = now
           /\ control' = control \/ control' = None \/ control'.stamp = now
<1>1. CASE Tick
  BY <1>1 DEF Tick
<1>2. ASSUME NEW f \in File, WriteFile(f) \/ CreateOrRemove(f)
      PROVE  /\ \A d \in Dir : mtime'[d] = mtime[d] \/ mtime'[d] = now
             /\ \A g \in File : disk'[g] = disk[g] \/ disk'[g] = None \/ disk'[g].stamp = now
             /\ control' = control
  BY <1>2 DEF WriteFile, CreateOrRemove, FreshTypeOK
<1>3. ASSUME NEW r \in Rules \cup {None}, ChangeRules(r)
      PROVE  /\ \A d \in Dir : mtime'[d] = mtime[d] \/ mtime'[d] = now
             /\ disk' = disk
             /\ control' = control \/ control' = None \/ control'.stamp = now
  BY <1>3 DEF ChangeRules, FreshTypeOK
<1> QED
  BY <1>1, <1>2, <1>3 DEF Environment

LEMMA StampsInit == FreshInit => StampsPast
BY FreshnessAssumption DEF FreshInit, StampsPast

LEMMA StampsStep ==
    ASSUME FreshTypeOK, FreshTypeOK', StampsPast, [FreshNext]_freshVars
    PROVE  StampsPast'
<1>1. CASE UNCHANGED files
  BY <1>1 DEF files, StampsPast
<1>2. CASE Environment
  <2>1. now \in Nat /\ now' \in Nat /\ now <= now'
    BY <1>2, ProgramsStay, DiskTyped
  <2>2. ASSUME NEW d \in Dir
        PROVE  mtime'[d] <= now'
    BY <2>1, <1>2, ChangesAreStamped, DiskTyped DEF StampsPast
  <2>3. ASSUME NEW f \in File, disk'[f] # None
        PROVE  disk'[f].stamp <= now'
    BY <2>1, <2>3, <1>2, ChangesAreStamped, DiskTyped DEF StampsPast
  <2>4. control' # None => control'.stamp <= now'
    BY <2>1, <1>2, ChangesAreStamped, DiskTyped DEF StampsPast
  <2> QED
    BY <2>2, <2>3, <2>4 DEF StampsPast
<1>3. CASE \E q \in Query : Search(q)
  BY <1>1, <1>3, SearchStays
<1> QED
  BY <1>1, <1>2, <1>3 DEF FreshNext, freshVars, files

-----------------------------------------------------------------------------
\* A snapshot is known by its generation; one that is being built is known to
\* its builder alone, who is alone, and there is no entry meanwhile.
Known ==
    /\ entry # None => entry.snap.gen \in 1 .. calls
    /\ \A q \in Query :
         /\ stage[q] # "idle" => index[q].gen \in 1 .. calls
         /\ Builds(q) => entry = None
         /\ stage[q] # "idle" /\ still_cached(index[q]) => index[q] = entry.snap
    /\ \A p, q \in Query : Builds(p) /\ p # q =>
         /\ ~ Builds(q)
         /\ stage[q] # "idle" => index[q].gen < index[p].gen

LEMMA KnownInit == FreshInit => Known
BY DEF FreshInit, Known, Builds

LEMMA KnownStep ==
    ASSUME FreshTypeOK, Course, Known, [FreshNext]_freshVars
    PROVE  Known'
<1>1. CASE UNCHANGED <<entry, calls, stage, goal, index>>
  BY <1>1 DEF Known, Builds, still_cached
<1>2. CASE UNCHANGED freshVars \/ Environment
  BY <1>1, <1>2, ProgramsStay DEF freshVars
<1>3. ASSUME NEW q \in Query, Search(q)
      PROVE  Known'
  <2>0. calls \in Nat /\ \A p \in Query : index[p].gen \in Nat
    BY FreshnessAssumption DEF FreshTypeOK, IndexSnapshot
  <2>1. \A p \in Query : p # q => stage'[p] = stage[p] /\ goal'[p] = goal[p] /\ index'[p] = index[p]
    BY <1>3, OthersStay DEF Same
  \* A query that goes on, or ends.
  <2>2. CASE /\ UNCHANGED calls /\ entry' \in {entry, None}
             /\ Builds(q)' => Builds(q)
             /\ stage'[q] # "idle" =>
                  /\ stage[q] # "idle" /\ index'[q].gen = index[q].gen
                  /\ Builds(q) \/ index'[q] = index[q]
    <3>1. entry' # None => entry' = entry /\ entry.snap.gen \in 1 .. calls
      BY <2>2 DEF Known
    <3>2. ASSUME NEW p \in Query
          PROVE  /\ Builds(p)' => Builds(p)
                 /\ stage'[p] # "idle" => stage[p] # "idle" /\ index'[p].gen = index[p].gen
                 /\ stage'[p] # "idle" /\ entry' # None => index'[p] = index[p]
      BY <2>1, <2>2, <3>1 DEF Known, Builds
    <3> HIDE <2>2
    <3>3. UNCHANGED calls
      BY <2>2
    <3>4. ASSUME NEW p \in Query
          PROVE  /\ stage'[p] # "idle" => index'[p].gen \in 1 .. calls'
                 /\ Builds(p)' => entry' = None
                 /\ stage'[p] # "idle" /\ still_cached(index[p])' => index'[p] = entry'.snap
      BY <3>1, <3>2, <3>3 DEF Known, still_cached
    <3>5. ASSUME NEW p \in Query, NEW r \in Query, Builds(p)', p # r
          PROVE  ~ Builds(r)' /\ (stage'[r] # "idle" => index'[r].gen < index'[p].gen)
      <4>1. stage'[p] # "idle"
        BY <3>5 DEF Builds
      <4> QED
        BY <4>1, <3>2, <3>5 DEF Known
    <3> QED
      BY <3>1, <3>3, <3>4, <3>5 DEF Known
  <2>3. CASE AcquireSnapshot(q)
    <3>1. CASE entry # None /\ stage' = [stage EXCEPT ![q] = "begin"]
               /\ index' = [index EXCEPT ![q] = entry.snap]
      BY <2>0, <2>1, <2>3, <3>1 DEF AcquireSnapshot, Known, Builds, still_cached, FreshTypeOK
    <3>2. CASE entry = None /\ (\A p \in Query : ~ Builds(p))
               /\ stage' = [stage EXCEPT ![q] = "rules"]
               /\ index' = [index EXCEPT ![q].gen = calls + 1]
      <4>1. index'[q].gen = calls + 1 /\ calls' = calls + 1 /\ entry' = None
        BY <2>3, <3>2 DEF AcquireSnapshot, FreshTypeOK, IndexSnapshot
      <4>2. \A p \in Query : p # q => ~ Builds(p)'
        BY <2>1, <3>2 DEF Builds
      <4> QED
        BY <2>0, <2>1, <4>1, <4>2 DEF Known, still_cached
    <3> QED
      BY <2>3, <3>1, <3>2 DEF AcquireSnapshot, Go
  <2>4. CASE publish_snapshot(q)
    <3>1. /\ Builds(q) /\ UNCHANGED calls /\ entry'.snap = index[q] /\ entry' # None
          /\ stage'[q] = "begin" /\ index'[q] = index[q]
      <4>1. entry' # None
        <5>1. entry' \in IndexEntry
          BY <2>4 DEF publish_snapshot, IndexEntry, FreshTypeOK
        <5> QED
          BY <5>1, AbsenceAssumption
      <4> QED
        BY <2>4, <4>1 DEF publish_snapshot, Go, Course, Builds, FreshTypeOK
    <3>2. \A p \in Query : ~ Builds(p)'
      BY <2>1, <3>1 DEF Known, Builds
    <3>3. \A p \in Query : p # q /\ stage'[p] # "idle" => ~ still_cached(index[p])'
      BY <2>0, <2>1, <3>1 DEF Known, still_cached
    <3>4. index[q].gen \in 1 .. calls
      BY <3>1 DEF Known, Builds
    <3>5. ASSUME NEW p \in Query
          PROVE  /\ stage'[p] # "idle" => index'[p].gen \in 1 .. calls'
                 /\ stage'[p] # "idle" /\ still_cached(index[p])' => index'[p] = entry'.snap
      BY <2>1, <3>1, <3>3, <3>4, <3>5 DEF Known
    <3> QED
      BY <3>1, <3>2, <3>4, <3>5 DEF Known
  <2>5. CASE End(q) /\ UNCHANGED calls /\ entry' \in {entry, None}
    BY <2>5, <2>2 DEF End, Go, FreshTypeOK, Builds
  <2>6. CASE \E why \in {"set", "full"} : Walk(q, why) /\ Validates(q)
    BY <2>6, <2>2 DEF Walk, Go, FreshTypeOK, Builds, Validates
  <2>7. CASE WalkRules(q) \/ \E d \in Dir : WalkDir(q, d)
    BY <2>7, <2>2 DEF WalkRules, WalkDir, Go, FreshTypeOK, Builds
  <2>8. CASE build_ignore_fingerprint(q)
    BY <2>8, <2>2 DEF build_ignore_fingerprint, Walked, Go, FreshTypeOK, IndexSnapshot, Builds
  <2>9. ASSUME NEW d \in Dir, from_directories(q, d)
        PROVE  Known'
    BY <2>9, <2>2 DEF from_directories, Go, FreshTypeOK, IndexSnapshot, Builds, Course
  <2>10. ASSUME NEW f \in File, OpenFile(q, f) \/ ReadFile(q, f)
         PROVE  Known'
    BY <2>10, <2>2 DEF OpenFile, ReadFile, FreshTypeOK, IndexSnapshot, Builds, Course
  <2>11. CASE begin_validation(q)
    BY <2>11, <2>2 DEF begin_validation, Go, FreshTypeOK, Builds
  <2>12. CASE UNCHANGED <<entry, calls, index, goal>> /\ Validates(q)
              /\ (stage'[q] = stage[q] \/ stage'[q] = "results")
    BY <2>12, <2>2 DEF Builds, Validates
  <2>13. ASSUME NEW d \in Dir, CheckDirectory(q, d)
         PROVE  Known'
    BY <2>13, <2>6, <2>12 DEF CheckDirectory, Course, Builds, Validates
  <2>14. CASE CheckIgnore(q)
    BY <2>14, <2>6, <2>12 DEF CheckIgnore, Course, Go, FreshTypeOK, Builds, Validates
  <2>15. CASE FileSetChanged(q) \/ FileSetMatches(q) \/ FullSetMatches(q)
    BY <2>15, <2>6, <2>12 DEF FileSetChanged, FileSetMatches, FullSetMatches, Walked, Go,
       FreshTypeOK, Builds, Validates
  <2>16. ASSUME NEW f \in File, CheckDocument(q, f)
         PROVE  Known'
    BY <2>16, <2>5, <2>12 DEF CheckDocument, Fail, Course, Builds, Validates
  <2>17. CASE Fails(q) \/ FullSetChanged(q)
    BY <2>17, <2>5 DEF Fails, FullSetChanged, Fail
  <2>18. CASE Answer(q)
    <3>1. End(q) /\ UNCHANGED calls
      BY <2>18 DEF Answer
    <3>2. entry # None => entry' # None /\ entry'.snap = entry.snap
      BY <2>18, AnsweredEntry
    <3>3. entry = None => entry' = None
      BY <2>18, AnsweredEntry
    <3>4. stage'[q] = "idle" /\ ~ Builds(q)'
      BY <3>1 DEF End, Go, FreshTypeOK, Builds
    <3>5. ASSUME NEW p \in Query, stage'[p] # "idle"
          PROVE  /\ stage'[p] = stage[p] /\ goal'[p] = goal[p] /\ index'[p] = index[p]
                 /\ Builds(p)' => Builds(p)
                 /\ still_cached(index[p])' => still_cached(index[p])
      <4>1. stage'[p] = stage[p] /\ goal'[p] = goal[p] /\ index'[p] = index[p]
        BY <2>1, <3>4, <3>5
      <4>2. still_cached(index[p])' => still_cached(index[p])
        BY <3>2, <3>3, <4>1 DEF still_cached
      <4> QED
        BY <4>1, <4>2 DEF Builds
    <3>6. ASSUME NEW p \in Query, Builds(p)'
          PROVE  stage'[p] # "idle"
      BY <3>6 DEF Builds
    <3> QED
      BY <3>1, <3>2, <3>3, <3>5, <3>6 DEF Known
  <2> QED
    BY <1>3, <2>3, <2>4, <2>7, <2>8, <2>9, <2>10, <2>11, <2>13, <2>14, <2>15, <2>16, <2>17,
       <2>18 DEF Search
<1> QED
  BY <1>1, <1>2, <1>3 DEF FreshNext
-----------------------------------------------------------------------------
\* An old stamp of a document is not that of another text.
DocumentsSound(s) ==
    \A f \in Indexed(s) :
        ~ s.docs[f].young =>
            /\ s.docs[f].stamp < now
            /\ (disk[f] # None /\ disk[f].stamp = s.docs[f].stamp)
                  => disk[f].body = s.docs[f].body

\* An old stamp of an ignore file is older than t.
ControlBefore(s, t) == s.control # None /\ ~ s.control.young => s.control.stamp < t

Sound(s) == DocumentsSound(s) /\ ControlBefore(s, now)

SoundInv ==
    /\ \A q \in Query :
         /\ Sound(index[q])
         /\ Validates(q) => ControlBefore(index[q], floor[q])
    /\ entry # None => Sound(entry.snap)

LEMMA NothingSound == Sound(NoIndex)
BY DEF Sound, DocumentsSound, ControlBefore, NoIndex, Indexed

LEMMA SoundInit == FreshInit => SoundInv
BY NothingSound DEF FreshInit, SoundInv, Validates

\* No change makes a snapshot unsound.
LEMMA SoundStays ==
    ASSUME FreshTypeOK, FreshTypeOK', Environment, NEW s \in IndexSnapshot, Sound(s)
    PROVE  Sound(s)'
<1>1. now \in Nat /\ now' \in Nat /\ now <= now'
  BY ProgramsStay, DiskTyped
<1>2. ASSUME NEW f \in Indexed(s), ~ s.docs[f].young
      PROVE  /\ s.docs[f].stamp < now'
             /\ (disk'[f] # None /\ disk'[f].stamp = s.docs[f].stamp)
                   => disk'[f].body = s.docs[f].body
  <2>1. f \in File /\ s.docs[f].stamp \in Nat /\ s.docs[f].stamp < now
    BY <1>2, SnapshotTyped DEF Sound, DocumentsSound, Indexed
  <2>2. CASE disk'[f] = disk[f]
    BY <1>1, <1>2, <2>1, <2>2 DEF Sound, DocumentsSound
  <2>3. CASE disk'[f] # disk[f]
    BY <1>1, <2>1, <2>3, ChangesAreStamped
  <2> QED
    BY <2>2, <2>3
<1>3. ControlBefore(s, now)'
  <2>1. s.control # None => s.control.stamp \in Nat
    BY SnapshotTyped
  <2> QED
    BY <1>1, <2>1 DEF Sound, ControlBefore
<1> QED
  BY <1>2, <1>3 DEF Sound, DocumentsSound

\* Whatever is read now is sound.
LEMMA SoundControl ==
    ASSUME FreshTypeOK, StampsPast, NEW s \in IndexSnapshot, Sound(s), NEW t \in IndexSnapshot,
           t.docs = s.docs,
           \/ t.control = s.control \/ t.control = None
           \/ control # None /\ t.control = [stamp |-> control.stamp,
                                             young |-> control.stamp = now]
    PROVE  Sound(t)
<1>1. DocumentsSound(t)
  BY DEF Sound, DocumentsSound, Indexed
<1>2. CASE t.control = s.control \/ t.control = None
  BY <1>1, <1>2 DEF Sound, ControlBefore
<1>3. CASE control # None /\ t.control = [stamp |-> control.stamp,
                                          young |-> control.stamp = now]
  <2>3. t.control.stamp = control.stamp /\ t.control.young = (control.stamp = now)
    BY <1>3
  <2>1. ~ t.control.young => control.stamp # now
    BY <2>3, Zenon
  <2>2. control.stamp \in Nat /\ now \in Nat /\ control.stamp <= now
    BY <1>3, DiskTyped DEF StampsPast
  <2> QED
    BY <1>1, <2>1, <2>2, <2>3 DEF Sound, ControlBefore
<1> QED
  BY <1>2, <1>3

LEMMA SoundDocument ==
    ASSUME FreshTypeOK, StampsPast, NEW s \in IndexSnapshot, Sound(s), NEW t \in IndexSnapshot,
           NEW f \in File, t.control = s.control, disk[f] # None,
           \A g \in File : g # f => t.docs[g] = s.docs[g],
           \/ t.docs[f] = [body |-> disk[f].body, stamp |-> disk[f].stamp,
                           young |-> disk[f].stamp = now]
           \/ s.docs[f] # None /\ t.docs[f] = [s.docs[f] EXCEPT !.body = disk[f].body]
    PROVE  Sound(t)
<1>1. ASSUME NEW g \in Indexed(t), ~ t.docs[g].young
      PROVE  /\ t.docs[g].stamp < now
             /\ (disk[g] # None /\ disk[g].stamp = t.docs[g].stamp)
                   => disk[g].body = t.docs[g].body
  <2>1. g \in File
    BY DEF Indexed
  <2>2. CASE g # f
    BY <1>1, <2>1, <2>2 DEF Sound, DocumentsSound, Indexed
  <2>3. CASE t.docs[f] = [body |-> disk[f].body, stamp |-> disk[f].stamp,
                          young |-> disk[f].stamp = now]
    <3>3. /\ t.docs[f].stamp = disk[f].stamp /\ t.docs[f].body = disk[f].body
          /\ t.docs[f].young = (disk[f].stamp = now)
      BY <2>3
    <3>1. ~ t.docs[f].young => disk[f].stamp # now
      BY <3>3, Zenon
    <3>2. disk[f].stamp \in Nat /\ now \in Nat /\ disk[f].stamp <= now
      BY DiskTyped DEF StampsPast
    <3> QED
      BY <1>1, <2>2, <3>1, <3>2, <3>3
  <2>4. CASE s.docs[f] # None /\ t.docs[f] = [s.docs[f] EXCEPT !.body = disk[f].body]
    <3>1. s.docs[f] \in Document /\ f \in Indexed(s)
      BY <2>4, SnapshotTyped DEF Indexed
    <3>2. t.docs[f].stamp = s.docs[f].stamp /\ t.docs[f].young = s.docs[f].young
          /\ t.docs[f].body = disk[f].body
      BY <2>4, <3>1 DEF Document
    <3> QED
      BY <1>1, <2>2, <3>1, <3>2 DEF Sound, DocumentsSound
  <2> QED
    BY <2>2, <2>3, <2>4
<1>2. ControlBefore(t, now)
  BY DEF Sound, ControlBefore
<1> QED
  BY <1>1, <1>2 DEF Sound, DocumentsSound

LEMMA SoundStep ==
    ASSUME FreshTypeOK, FreshTypeOK', Course, StampsPast, SoundInv, [FreshNext]_freshVars
    PROVE  SoundInv'
<1> USE DEF Sound
<1>1. CASE UNCHANGED <<now, disk, index, floor, stage, goal, entry>>
  BY <1>1 DEF SoundInv, DocumentsSound, ControlBefore, Validates, Builds, Indexed
<1>2. CASE UNCHANGED freshVars
  BY <1>1, <1>2 DEF freshVars
<1>3. CASE Environment
  <2>1. \A s \in IndexSnapshot : Sound(s) => Sound(s)'
    BY <1>3, SoundStays
  <2>2. UNCHANGED <<entry, stage, goal, index, floor>>
    BY <1>3, ProgramsStay
  <2>3. /\ \A q \in Query : index[q] \in IndexSnapshot
        /\ entry # None => entry.snap \in IndexSnapshot
    BY EntryTyped DEF FreshTypeOK
  <2>4. ASSUME NEW q \in Query
        PROVE  Sound(index[q])' /\ (Validates(q)' => ControlBefore(index[q], floor[q])')
    BY <2>1, <2>2, <2>3 DEF SoundInv, DocumentsSound, ControlBefore, Validates, Builds, Indexed
  <2>5. entry' # None => Sound(entry.snap)'
    BY <2>1, <2>2, <2>3 DEF SoundInv, DocumentsSound, ControlBefore, Indexed
  <2> QED
    BY <2>4, <2>5 DEF SoundInv
<1>4. ASSUME NEW q \in Query, Search(q), Sound(index'[q]),
             Validates(q)' => ControlBefore(index'[q], floor'[q]),
             entry' # None => Sound(entry'.snap)
      PROVE  SoundInv'
  <2>1. UNCHANGED <<now, disk>>
    BY <1>4, SearchStays DEF files
  <2>2. ASSUME NEW p \in Query
        PROVE  Sound(index'[p]) /\ (Validates(p)' => ControlBefore(index'[p], floor'[p]))
    <3>1. CASE p = q
      BY <1>4, <3>1
    <3>2. CASE p # q
      BY <1>4, <3>2, OthersStay DEF Same, SoundInv, Validates, Builds
    <3> QED
      BY <3>1, <3>2
  <2> QED
    BY <1>4, <2>1, <2>2 DEF SoundInv, DocumentsSound, ControlBefore
<1>5. ASSUME NEW q \in Query, Search(q)
      PROVE  SoundInv'
  <2>0. /\ Sound(index[q]) /\ (entry # None => Sound(entry.snap))
        /\ Validates(q) => ControlBefore(index[q], floor[q])
        /\ index[q] \in IndexSnapshot /\ index'[q] \in IndexSnapshot
    BY DEF SoundInv, FreshTypeOK
  <2>1. CASE End(q) /\ (entry' # None => entry # None /\ entry'.snap = entry.snap)
    BY <1>4, <1>5, <2>0, <2>1, NothingSound DEF End, Go, FreshTypeOK, Validates
  <2>2. CASE /\ index'[q] = index[q] /\ entry' = entry /\ floor'[q] = floor[q]
             /\ Validates(q)' => Validates(q)
    BY <1>4, <1>5, <2>0, <2>2
  <2>3. CASE AcquireSnapshot(q)
    <3>1. ~ Validates(q)' /\ UNCHANGED entry
      BY <2>3 DEF AcquireSnapshot, Go, FreshTypeOK, Validates, Builds, Course
    <3>2. CASE entry # None /\ index' = [index EXCEPT ![q] = entry.snap]
      BY <1>4, <1>5, <2>0, <3>1, <3>2 DEF FreshTypeOK
    <3>3. CASE index' = [index EXCEPT ![q].gen = calls + 1]
      <4>1. index'[q].docs = index[q].docs /\ index'[q].control = index[q].control
        BY <3>3, <2>0 DEF FreshTypeOK, IndexSnapshot
      <4> QED
        BY <1>4, <1>5, <2>0, <3>1, <4>1, SoundControl
    <3> QED
      BY <2>3, <3>2, <3>3 DEF AcquireSnapshot
  <2>4. CASE \E why \in {"set", "full"} : Walk(q, why) /\ Validates(q)
    BY <2>2, <2>4 DEF Walk
  <2>5. CASE WalkRules(q) \/ \E d \in Dir : WalkDir(q, d)
    BY <2>2, <2>5 DEF WalkRules, WalkDir, Go, FreshTypeOK, Validates, Builds
  <2>6. CASE build_ignore_fingerprint(q)
    <3>1. ~ Validates(q)' /\ UNCHANGED entry
      BY <2>6 DEF build_ignore_fingerprint, Walked, Go, FreshTypeOK, Validates, Builds
    <3>2. index'[q].docs = index[q].docs
          /\ index'[q].control = IF control = None THEN None
                                 ELSE [stamp |-> control.stamp, young |-> control.stamp = now]
      BY <2>6, <2>0 DEF build_ignore_fingerprint, FreshTypeOK, IndexSnapshot
    <3> QED
      BY <1>4, <1>5, <2>0, <3>1, <3>2, SoundControl
  <2>7. ASSUME NEW d \in Dir, from_directories(q, d)
        PROVE  SoundInv'
    <3>1. ~ Validates(q)' /\ UNCHANGED entry
      BY <2>7 DEF from_directories, Go, FreshTypeOK, Validates, Builds, Course
    <3>2. index'[q].docs = index[q].docs /\ index'[q].control = index[q].control
      BY <2>7, <2>0 DEF from_directories, FreshTypeOK, IndexSnapshot
    <3> QED
      BY <1>4, <1>5, <2>0, <3>1, <3>2, SoundControl
  <2>8. ASSUME NEW f \in File, OpenFile(q, f)
        PROVE  SoundInv'
    <3>1. ~ Validates(q)' /\ UNCHANGED entry
      BY <2>8 DEF OpenFile, FreshTypeOK, Validates, Builds, Course
    <3>2. /\ index'[q].control = index[q].control
          /\ \A g \in File : g # f => index'[q].docs[g] = index[q].docs[g]
          /\ index'[q].docs[f] = [body |-> disk[f].body, stamp |-> disk[f].stamp,
                                  young |-> disk[f].stamp = now]
      BY <2>8, <2>0 DEF OpenFile, FreshTypeOK, IndexSnapshot
    <3>3. disk[f] # None
      BY <2>8 DEF OpenFile
    <3> QED
      BY <1>4, <1>5, <2>0, <3>1, <3>2, <3>3, SoundDocument
  <2>9. ASSUME NEW f \in File, ReadFile(q, f)
        PROVE  SoundInv'
    <3>1. ~ Validates(q)' /\ UNCHANGED entry
      BY <2>9 DEF ReadFile, FreshTypeOK, Validates, Builds, Course
    <3>2. CASE UNCHANGED index
      BY <1>4, <1>5, <2>0, <3>1, <3>2
    <3>3. CASE disk[f] # None /\ index' = [index EXCEPT ![q].docs[f].body = disk[f].body]
      <4>1. /\ index'[q].control = index[q].control
            /\ \A g \in File : g # f => index'[q].docs[g] = index[q].docs[g]
            /\ index'[q].docs[f] = [index[q].docs[f] EXCEPT !.body = disk[f].body]
        BY <3>3, <2>0 DEF FreshTypeOK, IndexSnapshot
      <4>2. index[q].docs[f] # None
        BY <2>9 DEF ReadFile
      <4> QED
        BY <1>4, <1>5, <2>0, <3>1, <3>3, <4>1, <4>2, SoundDocument
    <3> QED
      BY <2>9, <3>2, <3>3 DEF ReadFile
  <2>10. CASE publish_snapshot(q)
    <3>1. ~ Validates(q)' /\ index'[q] = index[q] /\ entry'.snap = index[q]
      BY <2>10 DEF publish_snapshot, Go, FreshTypeOK, Validates
    <3> QED
      BY <1>4, <1>5, <2>0, <3>1
  <2>11. CASE begin_validation(q)
    <3>1. index'[q] = index[q] /\ entry' = entry /\ floor'[q] = now
      BY <2>11 DEF begin_validation, FreshTypeOK
    <3> QED
      BY <1>4, <1>5, <2>0, <3>1
  <2>12. CASE UNCHANGED <<entry, index, floor>> /\ Validates(q)
    BY <2>2, <2>12
  <2>13. ASSUME NEW d \in Dir, CheckDirectory(q, d)
         PROVE  SoundInv'
    BY <2>13, <2>4, <2>12 DEF CheckDirectory, Course, Builds, Validates
  <2>14. CASE CheckIgnore(q)
    BY <2>14, <2>4, <2>12 DEF CheckIgnore, Course, Builds, Validates
  <2>15. CASE FileSetChanged(q) \/ FileSetMatches(q) \/ FullSetMatches(q)
    BY <2>15, <2>4, <2>12 DEF FileSetChanged, FileSetMatches, FullSetMatches, Walked,
       Builds, Validates
  <2>16. CASE Fails(q) \/ FullSetChanged(q) \/ \E f \in File : CheckDocument(q, f) /\ Fail(q)
    BY <2>16, <2>0, <2>1, <1>1 DEF Fails, FullSetChanged, Fail
  <2>17. ASSUME NEW f \in File, CheckDocument(q, f)
         PROVE  SoundInv'
    BY <2>17, <2>16, <2>12 DEF CheckDocument, Course, Builds, Validates
  <2>18. CASE Answer(q)
    BY <2>18, <2>1, AnsweredEntry DEF Answer
  <2> QED
    BY <1>5, <2>3, <2>5, <2>6, <2>7, <2>8, <2>9, <2>10, <2>11, <2>13, <2>14, <2>15, <2>16,
       <2>17, <2>18 DEF Search
<1> QED
  BY <1>2, <1>3, <1>5 DEF FreshNext
-----------------------------------------------------------------------------
\* The results that match, and those found fresh, have matched while the answer
\* was validated.
HadMatches(q) ==
    Validates(q) =>
        \A f \in result_doc_ids(index[q]) :
            Matches(f) \/ (stage[q] = "results" /\ f \notin left[q])
              => f \in had[q] \/ index[q].docs[f].young

HadInv == \A q \in Query : HadMatches(q)

LEMMA HadInit == FreshInit => HadInv
BY DEF FreshInit, HadInv, HadMatches, Validates

\* A document found fresh under an old stamp has the text it was indexed with.
LEMMA FreshIsSame ==
    ASSUME FreshTypeOK, NEW s \in IndexSnapshot, Sound(s), NEW f \in Indexed(s),
           document_fresh(s, f), ~ s.docs[f].young
    PROVE  disk[f] # None /\ disk[f].body = s.docs[f].body
BY DEF document_fresh, Sound, DocumentsSound

LEMMA HadStep ==
    ASSUME FreshTypeOK, Course, SoundInv, HadInv, [FreshNext]_freshVars
    PROVE  HadInv'
<1>1. CASE UNCHANGED freshVars
  BY <1>1 DEF freshVars, HadInv, HadMatches, Validates, Builds, Matches
<1>2. CASE Environment
  <2>1. UNCHANGED <<stage, goal, index, left>>
    BY <1>2, ProgramsStay
  <2>2. CASE Tick
    BY <2>1, <2>2 DEF Tick, history, HadInv, HadMatches, Validates, Builds, Matches
  <2>3. CASE Change
    <3>1. ASSUME NEW q \in Query, Validates(q)
          PROVE  had'[q] = had[q] \cup {f \in result_doc_ids(index[q]) : Matches(f)'}
      BY <2>3, <3>1 DEF Change
    <3> QED
      BY <2>1, <3>1 DEF HadInv, HadMatches, Validates, Builds
  <2> QED
    BY <1>2, <2>2, <2>3, ProgramsStay
<1>3. ASSUME NEW q \in Query, Search(q), HadMatches(q)'
      PROVE  HadInv'
  <2>1. UNCHANGED files
    BY <1>3, SearchStays
  <2>2. ASSUME NEW p \in Query, p # q
        PROVE  HadMatches(p)'
    <3>1. Same(p)
      BY <1>3, <2>2, OthersStay
    <3> QED
      BY <2>1, <3>1 DEF Same, files, HadInv, HadMatches, Validates, Builds, Matches
  <2> QED
    BY <1>3, <2>2 DEF HadInv
<1>4. ASSUME NEW q \in Query, Search(q)
      PROVE  HadMatches(q)'
  <2>0. HadMatches(q) /\ UNCHANGED <<disk, control>> /\ index[q] \in IndexSnapshot
    BY <1>4, SearchStays DEF HadInv, files, FreshTypeOK
  <2>1. CASE ~ Validates(q)'
    BY <2>1 DEF HadMatches
  <2>2. CASE /\ Validates(q) /\ index'[q] = index[q] /\ had'[q] = had[q]
             /\ stage'[q] = "results" =>
                  \A f \in result_doc_ids(index[q]) :
                     \/ f \in left'[q] \/ f \in had[q] \/ index[q].docs[f].young
                     \/ stage[q] = "results" /\ f \notin left[q]
    BY <2>0, <2>2 DEF HadMatches, Matches
  <2>3. CASE End(q)
    BY <2>1, <2>3 DEF End, Go, FreshTypeOK, Validates
  <2>4. CASE \E why \in {"set", "full"} : Walk(q, why) /\ Validates(q)
    BY <2>2, <2>4 DEF Walk, Go, FreshTypeOK, history
  <2>5. CASE AcquireSnapshot(q) \/ publish_snapshot(q) \/ build_ignore_fingerprint(q)
    BY <2>1, <2>5 DEF AcquireSnapshot, publish_snapshot, build_ignore_fingerprint, Walked, Go,
       FreshTypeOK, Validates, Builds, Course
  <2>6. CASE (\E d \in Dir : from_directories(q, d)) \/ \E f \in File : OpenFile(q, f) \/ ReadFile(q, f)
    BY <2>1, <2>6 DEF from_directories, OpenFile, ReadFile, Go, FreshTypeOK, Validates, Builds, Course
  <2>7. CASE WalkRules(q) \/ \E d \in Dir : WalkDir(q, d)
    BY <2>1, <2>2, <2>7 DEF WalkRules, WalkDir, Go, FreshTypeOK, Validates, Builds, history
  <2>8. CASE begin_validation(q)
    <3>1. index' = index /\ had'[q] = {f \in result_doc_ids(index[q]) : Matches(f)}
          /\ stage'[q] # "results"
      BY <2>8 DEF begin_validation, Go, FreshTypeOK
    <3> QED
      BY <2>0, <3>1 DEF HadMatches, Matches
  <2>9. ASSUME NEW d \in Dir, CheckDirectory(q, d)
        PROVE  HadMatches(q)'
    BY <2>9, <2>2, <2>4 DEF CheckDirectory, Course, Validates, Builds, FreshTypeOK, history
  <2>10. CASE CheckIgnore(q)
    BY <2>10, <2>2, <2>4 DEF CheckIgnore, Course, Validates, Builds, Go, FreshTypeOK, history
  <2>11. CASE FileSetChanged(q) \/ FileSetMatches(q)
    BY <2>11, <2>2, <2>4 DEF FileSetChanged, FileSetMatches, Walked, Go, Validates, Builds,
       FreshTypeOK, history
  <2>12. CASE FullSetMatches(q)
    <3>1. result_doc_ids(index[q]) \subseteq Indexed(index[q])
      BY DEF result_doc_ids
    <3> QED
      BY <2>12, <2>2, <3>1 DEF FullSetMatches, Walked, Go, Validates, Builds, FreshTypeOK, history
  <2>13. ASSUME NEW f \in File, CheckDocument(q, f)
         PROVE  HadMatches(q)'
    <3>1. CASE document_fresh(index[q], f)
      <4>1. /\ Validates(q) /\ stage[q] = "results" /\ stage' = stage /\ goal' = goal
            /\ index' = index /\ had' = had /\ left'[q] = left[q] \ {f}
        BY <2>13, <3>1 DEF CheckDocument, Course, Validates, Builds, FreshTypeOK, history
      <4>2. f \in result_doc_ids(index[q]) => f \in had[q] \/ index[q].docs[f].young
        <5>1. SUFFICES ASSUME f \in result_doc_ids(index[q]), ~ index[q].docs[f].young
                       PROVE  f \in had[q]
          OBVIOUS
        <5>2. f \in Indexed(index[q]) /\ Sound(index[q])
          BY <5>1 DEF result_doc_ids, SoundInv
        <5>3. disk[f] # None /\ disk[f].body = index[q].docs[f].body
          BY <2>0, <3>1, <5>1, <5>2, FreshIsSame
        <5>4. Matches(f)
          BY <5>1, <5>3 DEF Matches, result_doc_ids
        <5> QED
          BY <2>0, <4>1, <5>1, <5>4 DEF HadMatches
      <4> QED
        BY <2>2, <4>1, <4>2
    <3> QED
      BY <2>13, <2>3, <3>1 DEF CheckDocument, Fail
  <2>14. CASE Fails(q) \/ FullSetChanged(q) \/ Answer(q)
    BY <2>14, <2>3 DEF Fails, FullSetChanged, Fail, Answer
  <2> QED
    BY <1>4, <2>5, <2>6, <2>7, <2>8, <2>9, <2>10, <2>11, <2>12, <2>13, <2>14 DEF Search
<1> QED
  BY <1>1, <1>2, <1>3, <1>4 DEF FreshNext
-----------------------------------------------------------------------------
\* No directory and no ignore file has been changed since t.
StillSince(t) ==
    /\ \A d \in Dir : mtime[d] < t
    /\ control # None => control.stamp < t

\* The snapshot lists what the tree shows.
SameSet(s) == Indexed(s) = Visible /\ (s.control = None => control = None)

ControlSettled(s) == s.control # None => ~ s.control.young

\* What certification promises.
Guaranteed(s) ==
    /\ \A d \in Dir : s.dirs[d] < now
    /\ (ControlSettled(s) /\ s.dirs = mtime /\ ignore_unchanged(s, TRUE)) => SameSet(s)

\* A walk finds the files that are there, or whose directory it has yet to read.
WalkFinds(q) ==
    found[q] = {f \in File \ Hidden(control) : disk[f] # None \/ Home[f] \in left[q]}

\* So does one that a change has overtaken, if no stamp tells of the change.
WalkSound(q) ==
    (Validates(q) /\ stage[q] = "list" /\ (calm[q] \/ StillSince(floor[q]))) => WalkFinds(q)

\* Between the look for an ignore file and the end of the walk, one that comes is
\* told by a directory.
IgnoreSound(q) ==
    (/\ stage[q] \in {"rules", "list"} /\ goal[q] = "set" /\ index[q].control = None
     /\ \A d \in Dir : mtime[d] < floor[q])
        => control = None

WalkInv == \A q \in Query : WalkSound(q) /\ IgnoreSound(q)

GuaranteeInv ==
    /\ entry # None /\ entry.certified => Guaranteed(entry.snap)
    /\ \A q \in Query : certified[q] \/ newly[q] => Guaranteed(index[q])

LEMMA WalkInit == FreshInit => WalkInv /\ GuaranteeInv
BY DEF FreshInit, WalkInv, WalkSound, IgnoreSound, GuaranteeInv, Validates

\* A change that no directory tells of leaves the files there are, and the
\* ignore file where it is.
LEMMA SilentChange ==
    ASSUME FreshTypeOK, Environment, NEW t \in Nat, t <= now, \A d \in Dir : mtime'[d] < t
    PROVE  /\ \A d \in Dir : mtime[d] < t
           /\ mtime' = mtime
           /\ control = None <=> control' = None
           /\ control' # control => control'.stamp = now
           /\ \A f \in File : disk[f] = None <=> disk'[f] = None
<1> USE FreshnessAssumption
<1>1. ASSUME NEW d \in Dir, mtime' = [mtime EXCEPT ![d] = now]
      PROVE  FALSE
  <2>1. mtime'[d] = now
    BY <1>1 DEF FreshTypeOK
  <2> QED
    BY <2>1, DiskTyped
<1>2. CASE Tick
  BY <1>2 DEF Tick
<1>3. ASSUME NEW f \in File, WriteFile(f)
      PROVE  /\ \A d \in Dir : mtime[d] < t
             /\ mtime' = mtime /\ control = control'
             /\ \A g \in File : disk[g] = None <=> disk'[g] = None
  <2>1. mtime' = mtime /\ control' = control
    BY <1>1, <1>3 DEF WriteFile
  <2>2. PICK t0 \in Text : disk' = [disk EXCEPT ![f] = [body |-> t0, stamp |-> now]]
    BY <1>3 DEF WriteFile
  <2>3. [body |-> t0, stamp |-> now] # None
    <3>1. [body |-> t0, stamp |-> now] \in OnDisk
      BY DiskTyped DEF OnDisk
    <3> QED
      BY <3>1, AbsenceAssumption
  <2>4. disk[f] # None
    BY <1>3 DEF WriteFile
  <2> QED
    BY <2>1, <2>2, <2>3, <2>4 DEF FreshTypeOK
<1>4. ASSUME NEW f \in File, CreateOrRemove(f)
      PROVE  FALSE
  BY <1>1, <1>4 DEF CreateOrRemove
<1>5. ASSUME NEW r \in Rules \cup {None}, ChangeRules(r)
      PROVE  /\ mtime' = mtime /\ disk' = disk
             /\ control # None /\ control' # None /\ control'.stamp = now
  <2>1. None \notin {control, r} /\ mtime' = mtime
    BY <1>1, <1>5 DEF ChangeRules
  <2>2. control' = [hides |-> r, stamp |-> now] /\ disk' = disk
    BY <1>5, <2>1 DEF ChangeRules
  <2>3. control' \in Control
    BY <2>1, <2>2, DiskTyped DEF Control
  <2> QED
    BY <2>1, <2>2, <2>3, AbsenceAssumption
<1>6. CASE \E f \in File : WriteFile(f) \/ CreateOrRemove(f)
  BY <1>3, <1>4, <1>6
<1>7. CASE \E r \in Rules \cup {None} : ChangeRules(r)
  BY <1>5, <1>7
<1> QED
  BY <1>2, <1>6, <1>7 DEF Environment

\* What a snapshot is certified for outlasts every change.
LEMMA GuaranteeStays ==
    ASSUME FreshTypeOK, FreshTypeOK', Environment, NEW s \in IndexSnapshot, Sound(s), Guaranteed(s)
    PROVE  Guaranteed(s)'
<1>1. now \in Nat /\ now' \in Nat /\ now <= now' /\ \A d \in Dir : s.dirs[d] \in Nat /\ s.dirs[d] < now
  BY ProgramsStay, DiskTyped, SnapshotTyped DEF Guaranteed
<1>2. \A d \in Dir : s.dirs[d] < now'
  BY <1>1
<1>3. ASSUME ControlSettled(s), s.dirs = mtime', ignore_unchanged(s, TRUE)'
      PROVE  SameSet(s)'
  <2>1. /\ mtime' = mtime /\ (control = None <=> control' = None)
        /\ control' # control => control'.stamp = now
        /\ \A f \in File : disk[f] = None <=> disk'[f] = None
    BY <1>1, <1>3, SilentChange
  <2>2. control' = control
    <3>1. SUFFICES ASSUME control' # control
                   PROVE  FALSE
      OBVIOUS
    <3>2. control'.stamp = now /\ control' # None /\ control # None
      BY <2>1, <3>1
    <3>3. CASE s.control = None
      <4>1. SameSet(s)
        BY <1>3, <2>1, <3>3 DEF Guaranteed, ignore_unchanged
      <4> QED
        BY <3>2, <3>3, <4>1 DEF SameSet
    <3>4. CASE s.control # None
      <4>1. s.control.stamp = now
        BY <1>3, <3>2, <3>4 DEF ignore_unchanged
      <4>2. s.control.stamp < now
        BY <1>3, <3>4 DEF ControlSettled, Sound, ControlBefore
      <4> QED
        BY <1>1, <4>1, <4>2
    <3> QED
      BY <3>3, <3>4
  <2>3. SameSet(s)
    BY <1>3, <2>1, <2>2 DEF Guaranteed, ignore_unchanged
  <2>4. Visible' = Visible
    BY <2>1, <2>2 DEF Visible, Hidden
  <2> QED
    BY <2>2, <2>3, <2>4 DEF SameSet
<1> QED
  BY <1>2, <1>3 DEF Guaranteed, ControlSettled

\* If no stamp tells of a change since t, there was none.
LEMMA StillStays ==
    ASSUME FreshTypeOK, FreshTypeOK', Environment, NEW t \in Nat, t <= now,
           \A d \in Dir : mtime'[d] < t, control' # None => control'.stamp < t
    PROVE  /\ StillSince(t) /\ UNCHANGED control
           /\ \A f \in File : disk[f] = None <=> disk'[f] = None
<1>1. /\ \A d \in Dir : mtime[d] < t
      /\ control = None <=> control' = None
      /\ control' # control => control'.stamp = now
      /\ \A f \in File : disk[f] = None <=> disk'[f] = None
  BY SilentChange
<1>2. control' = control
  <2>1. now \in Nat
    BY DiskTyped
  <2> QED
    BY <1>1, <2>1
<1> QED
  BY <1>1, <1>2 DEF StillSince

LEMMA WalkStep ==
    ASSUME FreshTypeOK, FreshTypeOK', Course, WalkInv, [FreshNext]_freshVars
    PROVE  WalkInv'
<1>1. CASE UNCHANGED freshVars
  BY <1>1 DEF freshVars, WalkInv, WalkSound, IgnoreSound, WalkFinds, StillSince, Validates,
     Builds
<1>2. CASE Environment
  <2>1. UNCHANGED <<stage, goal, index, left, found, floor>>
    BY <1>2, ProgramsStay
  <2>2. \A q \in Query : floor[q] \in Nat /\ floor[q] <= now
    BY FreshnessAssumption DEF Course, FreshTypeOK, Time
  <2>3. ASSUME NEW q \in Query
        PROVE  WalkSound(q)'
    <3>1. SUFFICES ASSUME Validates(q), stage[q] = "list", calm'[q] \/ StillSince(floor[q])'
                   PROVE  WalkFinds(q)'
      BY <2>1 DEF WalkSound, Validates, Builds
    <3>2. CASE Tick
      BY <2>1, <3>1, <3>2 DEF Tick, history, WalkInv, WalkSound, WalkFinds, StillSince
    <3>3. CASE Change
      <4>1. ~ calm'[q]
        BY <3>3 DEF Change
      <4>2. (\A d \in Dir : mtime'[d] < floor[q]) /\ (control' # None => control'.stamp < floor[q])
        BY <2>1, <3>1, <4>1 DEF StillSince
      <4>3. /\ StillSince(floor[q]) /\ UNCHANGED control
            /\ \A f \in File : disk[f] = None <=> disk'[f] = None
        BY <1>2, <2>2, <4>2, StillStays
      <4>4. WalkFinds(q)
        BY <3>1, <4>3 DEF WalkInv, WalkSound
      <4> QED
        BY <2>1, <4>3, <4>4 DEF WalkFinds
    <3> QED
      BY <1>2, <3>2, <3>3, ProgramsStay
  <2>4. ASSUME NEW q \in Query
        PROVE  IgnoreSound(q)'
    <3>1. SUFFICES ASSUME stage[q] \in {"rules", "list"}, goal[q] = "set",
                          index[q].control = None, \A d \in Dir : mtime'[d] < floor[q]
                   PROVE  control' = None
      BY <2>1 DEF IgnoreSound
    <3>2. /\ \A d \in Dir : mtime[d] < floor[q]
          /\ control = None <=> control' = None
      BY <1>2, <2>2, <3>1, SilentChange
    <3> QED
      BY <3>1, <3>2 DEF WalkInv, IgnoreSound
  <2> QED
    BY <2>3, <2>4 DEF WalkInv
<1>3. ASSUME NEW q \in Query, Search(q)
      PROVE  WalkInv'
  <2>1. UNCHANGED files /\ WalkSound(q) /\ IgnoreSound(q)
    BY <1>3, SearchStays DEF WalkInv
  <2>2. ASSUME NEW p \in Query, p # q
        PROVE  WalkSound(p)' /\ IgnoreSound(p)'
    <3>1. Same(p)
      BY <1>3, <2>2, OthersStay
    <3> QED
      BY <2>1, <3>1 DEF files, Same, WalkInv, WalkSound, IgnoreSound, WalkFinds, StillSince,
         Validates, Builds
  <2> SUFFICES WalkSound(q)' /\ IgnoreSound(q)'
    BY <2>2 DEF WalkInv
  <2>3. CASE stage'[q] \notin {"rules", "list"}
    BY <2>3 DEF WalkSound, IgnoreSound
  <2>4. CASE End(q)
    BY <2>3, <2>4 DEF End, Go, FreshTypeOK
  <2>5. CASE stage'[q] = "rules" /\ goal'[q] # "set"
    BY <2>5 DEF WalkSound, IgnoreSound
  <2>6. CASE AcquireSnapshot(q)
    BY <2>3, <2>5, <2>6 DEF AcquireSnapshot, Go, FreshTypeOK, Course
  <2>7. CASE Walk(q, "full")
    BY <2>5, <2>7 DEF Walk, Go, FreshTypeOK
  <2>8. CASE WalkRules(q)
    <3>1. /\ found'[q] = File \ Hidden(control) /\ left'[q] = {Home[f] : f \in File}
          /\ stage'[q] = "list" /\ stage[q] = "rules"
          /\ UNCHANGED <<goal, index, floor, control, mtime>>
      BY <2>8 DEF WalkRules, Go, FreshTypeOK, files
    <3>2. WalkFinds(q)'
      BY <3>1 DEF WalkFinds, Hidden
    <3> QED
      BY <2>1, <3>1, <3>2 DEF WalkSound, IgnoreSound
  <2>9. ASSUME NEW d \in Dir, WalkDir(q, d)
        PROVE  WalkSound(q)' /\ IgnoreSound(q)'
    <3>1. /\ found'[q] = found[q] \ Absent(d) /\ left'[q] = left[q] \ {d}
          /\ stage' = stage /\ stage[q] = "list"
          /\ UNCHANGED <<goal, index, floor, control, mtime, disk, calm>>
      BY <2>9 DEF WalkDir, FreshTypeOK, files, history
    <3>2. WalkFinds(q) => WalkFinds(q)'
      BY <3>1 DEF WalkFinds, Hidden, Absent
    <3> QED
      BY <2>1, <3>1, <3>2 DEF WalkSound, IgnoreSound, Validates, Builds, StillSince
  <2>10. CASE build_ignore_fingerprint(q) \/ publish_snapshot(q)
    BY <2>3, <2>10 DEF build_ignore_fingerprint, publish_snapshot, Go, FreshTypeOK
  <2>11. CASE \E d \in Dir : from_directories(q, d)
    BY <2>3, <2>11 DEF from_directories, Go, FreshTypeOK
  <2>12. CASE \E f \in File : OpenFile(q, f) \/ ReadFile(q, f)
    BY <2>3, <2>12 DEF OpenFile, ReadFile
  <2>13. CASE begin_validation(q)
    BY <2>3, <2>5, <2>13 DEF begin_validation, Go, FreshTypeOK
  <2>14. CASE \E d \in Dir : CheckDirectory(q, d)
    BY <2>3, <2>7, <2>14 DEF CheckDirectory
  <2>15. CASE CheckIgnore(q)
    <3>1. CASE Walk(q, "set") /\ ignore_unchanged(index[q], certified[q]) /\ ~ certified[q]
      <4>1. index[q].control = None => control = None
        BY <3>1 DEF ignore_unchanged, FreshTypeOK
      <4> QED
        BY <3>1, <4>1 DEF Walk, Go, FreshTypeOK, WalkSound, IgnoreSound, files
    <3> QED
      BY <2>3, <2>7, <2>15, <3>1 DEF CheckIgnore, Go, FreshTypeOK
  <2>16. CASE FileSetChanged(q) \/ FileSetMatches(q) \/ FullSetMatches(q)
    BY <2>3, <2>7, <2>16 DEF FileSetChanged, FileSetMatches, FullSetMatches, Go, FreshTypeOK
  <2>17. CASE \E f \in File : CheckDocument(q, f)
    BY <2>3, <2>4, <2>17 DEF CheckDocument, Fail
  <2>18. CASE Fails(q) \/ FullSetChanged(q) \/ Answer(q)
    BY <2>4, <2>18 DEF Fails, FullSetChanged, Fail, Answer
  <2> QED
    BY <1>3, <2>6, <2>8, <2>9, <2>10, <2>11, <2>12, <2>13, <2>14, <2>15, <2>16, <2>17, <2>18
       DEF Search
<1> QED
  BY <1>1, <1>2, <1>3 DEF FreshNext

\* A file set found unchanged under settled stamps deserves certification.
LEMMA MatchesGuarantee ==
    ASSUME FreshTypeOK, Course, SoundInv, WalkInv, NEW q \in Query, FileSetMatches(q),
           certifiable_at(index[q], floor[q])
    PROVE  Guaranteed(index[q])
<1> DEFINE s == index[q]
           t == floor[q]
<1>1. /\ s \in IndexSnapshot /\ t \in Nat /\ now \in Nat /\ t <= now
      /\ \A d \in Dir : s.dirs[d] \in Nat
  BY FreshnessAssumption, SnapshotTyped, DiskTyped DEF FreshTypeOK, Course, Time
<1>2. \A d \in Dir : s.dirs[d] < t
  BY <1>1, FreshnessAssumption DEF certifiable_at
<1>3. stage[q] = "list" /\ left[q] = {} /\ goal[q] = "set" /\ found[q] = Indexed(s)
  BY DEF FileSetMatches, Walked
<1>4. Validates(q)
  BY <1>3 DEF Validates, Builds
<1> HIDE DEF s, t
<1>5. ASSUME ControlSettled(s), s.dirs = mtime, ignore_unchanged(s, TRUE)
      PROVE  SameSet(s)
  <2>1. \A d \in Dir : mtime[d] < t
    BY <1>2, <1>5
  <2>2. s.control = None => control = None
    BY <1>3, <2>1 DEF WalkInv, IgnoreSound, s, t
  <2>3. control # None => control.stamp < t
    <3>1. s.control # None => s.control.stamp < t
      BY <1>4, <1>5 DEF ControlSettled, SoundInv, ControlBefore, s, t
    <3> QED
      BY <1>5, <2>2, <3>1 DEF ignore_unchanged
  <2>4. WalkFinds(q)
    BY <1>3, <1>4, <2>1, <2>3 DEF WalkInv, WalkSound, StillSince, t
  <2>5. found[q] = Visible
    BY <1>3, <2>4 DEF WalkFinds, Visible
  <2> QED
    BY <1>3, <2>2, <2>5 DEF SameSet
<1>6. \A d \in Dir : s.dirs[d] < now
  BY <1>1, <1>2
<1> QED
  BY <1>5, <1>6 DEF Guaranteed, s

LEMMA GuaranteeStep ==
    ASSUME FreshTypeOK, FreshTypeOK', Course, Course', Known, SoundInv, WalkInv, GuaranteeInv,
           [FreshNext]_freshVars
    PROVE  GuaranteeInv'
<1>1. CASE UNCHANGED <<now, disk, mtime, control, entry, index, certified, newly>>
  BY <1>1 DEF GuaranteeInv, Guaranteed, ControlSettled, SameSet, ignore_unchanged, Visible, Hidden,
     Indexed
<1>2. CASE Environment
  <2>1. UNCHANGED <<entry, index, certified, newly>>
    BY <1>2, ProgramsStay
  <2>2. ASSUME NEW s \in IndexSnapshot, Sound(s), Guaranteed(s)
        PROVE  Guaranteed(s)'
    BY <1>2, <2>2, GuaranteeStays
  <2>3. ASSUME NEW q \in Query, certified[q] \/ newly[q]
        PROVE  Guaranteed(index[q])'
    <3>1. Guaranteed(index[q]) /\ Sound(index[q]) /\ index[q] \in IndexSnapshot
      BY <2>3 DEF GuaranteeInv, SoundInv, FreshTypeOK
    <3> QED
      BY <2>1, <2>2, <3>1 DEF Guaranteed, ControlSettled, SameSet, ignore_unchanged, Visible, Indexed
  <2>4. ASSUME entry # None, entry.certified
        PROVE  Guaranteed(entry.snap)'
    <3>1. Guaranteed(entry.snap) /\ Sound(entry.snap) /\ entry.snap \in IndexSnapshot
      BY <2>4, EntryTyped DEF GuaranteeInv, SoundInv
    <3> QED
      BY <2>1, <2>2, <3>1 DEF Guaranteed, ControlSettled, SameSet, ignore_unchanged, Visible, Indexed
  <2> QED
    BY <2>1, <2>3, <2>4 DEF GuaranteeInv
<1>3. ASSUME NEW q \in Query, Search(q), certified'[q] \/ newly'[q] => Guaranteed(index'[q]),
             entry' # None /\ entry'.certified => Guaranteed(entry'.snap)
      PROVE  GuaranteeInv'
  <2>1. UNCHANGED <<now, disk, mtime, control>>
    BY <1>3, SearchStays DEF files
  <2>2. ASSUME NEW p \in Query
        PROVE  certified'[p] \/ newly'[p] => Guaranteed(index'[p])
    <3>1. CASE p = q
      BY <1>3, <3>1
    <3>2. CASE p # q
      BY <1>3, <3>2, OthersStay DEF Same, GuaranteeInv
    <3> QED
      BY <3>1, <3>2
  <2> QED
    BY <1>3, <2>1, <2>2 DEF GuaranteeInv, Guaranteed, ControlSettled, SameSet, ignore_unchanged,
       Visible, Hidden, Indexed
<1>4. ASSUME NEW q \in Query, Search(q)
      PROVE  GuaranteeInv'
  <2>0. /\ certified[q] \/ newly[q] => Guaranteed(index[q])
        /\ entry # None /\ entry.certified => Guaranteed(entry.snap)
    BY DEF GuaranteeInv
  <2>1. CASE ~ Validates(q)' /\ entry' \in {entry, None}
    <3>1. ~ certified'[q] /\ ~ newly'[q]
      BY <2>1 DEF Course, Validates, Builds
    <3> QED
      BY <1>3, <1>4, <2>0, <2>1, <3>1
  <2>2. CASE UNCHANGED <<index, entry, certified, newly>>
    BY <1>3, <1>4, <2>0, <2>2
  <2>3. CASE End(q) /\ entry' \in {entry, None}
    BY <2>1, <2>3 DEF End, Go, FreshTypeOK, Validates
  <2>4. CASE \E why \in {"set", "full"} : Walk(q, why)
    BY <2>2, <2>4 DEF Walk
  <2>5. CASE WalkRules(q) \/ \E d \in Dir : WalkDir(q, d)
    BY <2>2, <2>5 DEF WalkRules, WalkDir
  <2>6. CASE AcquireSnapshot(q) \/ build_ignore_fingerprint(q)
    BY <2>1, <2>6 DEF AcquireSnapshot, build_ignore_fingerprint, Walked, Go, FreshTypeOK,
       Validates, Builds, Course
  <2>7. CASE (\E d \in Dir : from_directories(q, d)) \/ \E f \in File : OpenFile(q, f) \/ ReadFile(q, f)
    BY <2>1, <2>7 DEF from_directories, OpenFile, ReadFile, Go, FreshTypeOK, Validates, Builds,
       Course
  <2>8. CASE publish_snapshot(q)
    <3>1. ~ Validates(q)' /\ ~ entry'.certified
      BY <2>8 DEF publish_snapshot, Go, FreshTypeOK, Validates
    <3>2. ~ certified'[q] /\ ~ newly'[q]
      BY <3>1 DEF Course, Validates, Builds
    <3> QED
      BY <1>3, <1>4, <3>1, <3>2
  <2>9. CASE begin_validation(q)
    <3>1. /\ UNCHANGED <<index, entry, newly>> /\ stage[q] # "idle"
          /\ certified'[q] = (still_cached(index[q]) /\ entry.certified)
      BY <2>9 DEF begin_validation, FreshTypeOK
    <3>2. ASSUME still_cached(index[q]), entry.certified
          PROVE  Guaranteed(index[q])
      BY <2>0, <3>1, <3>2 DEF Known, still_cached
    <3>3. certified'[q] => still_cached(index[q]) /\ entry.certified
      BY <3>1, Zenon
    <3> QED
      BY <1>3, <1>4, <2>0, <3>1, <3>2, <3>3
  <2>10. CASE \E d \in Dir : CheckDirectory(q, d)
    BY <2>10, <2>2, <2>4 DEF CheckDirectory
  <2>11. CASE CheckIgnore(q)
    BY <2>11, <2>2, <2>4 DEF CheckIgnore
  <2>12. CASE FileSetMatches(q)
    <3>1. /\ UNCHANGED <<index, entry, certified>>
          /\ newly'[q] = certifiable_at(index[q], floor[q])
      BY <2>12 DEF FileSetMatches, FreshTypeOK
    <3>2. newly'[q] => certifiable_at(index[q], floor[q])
      BY <3>1, Zenon
    <3> QED
      BY <1>3, <1>4, <2>0, <2>12, <3>1, <3>2, MatchesGuarantee
  <2>13. CASE FileSetChanged(q) \/ FullSetMatches(q)
    BY <2>13, <2>2, <2>4 DEF FileSetChanged, FullSetMatches
  <2>14. CASE \E f \in File : CheckDocument(q, f)
    BY <2>14, <2>2, <2>3 DEF CheckDocument, Fail
  <2>15. CASE Fails(q) \/ FullSetChanged(q)
    BY <2>15, <2>3 DEF Fails, FullSetChanged, Fail
  <2>16. CASE Answer(q)
    <3>1. End(q)
      BY <2>16 DEF Answer
    <3>2. ~ certified'[q] /\ ~ newly'[q]
      BY <3>1 DEF End, FreshTypeOK
    <3>3. entry' # None => /\ entry # None /\ entry'.snap = entry.snap
                           /\ entry'.certified =>
                                entry.certified \/ (still_cached(index[q]) /\ newly[q])
      BY <2>16, AnsweredEntry
    <3>4. still_cached(index[q]) => index[q] = entry.snap
      BY <2>16 DEF Known, Answer, Answers
    <3> QED
      BY <1>3, <1>4, <2>0, <3>2, <3>3, <3>4
  <2> QED
    BY <1>4, <2>5, <2>6, <2>7, <2>8, <2>9, <2>10, <2>11, <2>12, <2>13, <2>14, <2>15, <2>16
       DEF Search
<1> QED
  BY <1>1, <1>2, <1>4 DEF FreshNext, freshVars

\* What the promise says of an entry that is certified.
LEMMA GuaranteeIsExact == GuaranteeInv => CertifiedIsExact
BY DEF GuaranteeInv, Guaranteed, CertifiedIsExact, ControlSettled, SameSet
-----------------------------------------------------------------------------
\* While nothing changes, what a validation has looked at is as it says.
CalmDirs(q) ==
    calm[q] /\ stage[q] = "dirs" =>
        \A d \in Dir \ left[q] : index[q].dirs[d] = mtime[d]

CalmResults(q) ==
    calm[q] /\ stage[q] = "results" =>
        /\ ControlSettled(index[q]) => Indexed(index[q]) = Visible
        /\ \A f \in Indexed(index[q]) \ left[q] :
              f \in result_doc_ids(index[q]) \/ goal[q] = "full"
                => document_fresh(index[q], f)

CalmInv == \A q \in Query : CalmDirs(q) /\ CalmResults(q)

LEMMA CalmInit == FreshInit => CalmInv
BY DEF FreshInit, CalmInv, CalmDirs, CalmResults

LEMMA CalmStep ==
    ASSUME FreshTypeOK, FreshTypeOK', Course, WalkInv, GuaranteeInv, CalmInv,
           [FreshNext]_freshVars
    PROVE  CalmInv'
<1> USE DEF CalmDirs, CalmResults
<1>1. CASE UNCHANGED freshVars
  BY <1>1 DEF freshVars, CalmInv, ControlSettled, Visible, Hidden, document_fresh
<1>2. CASE Environment
  <2>1. CASE Tick
    BY <2>1 DEF Tick, locals, history, CalmInv, ControlSettled, Visible, Hidden, document_fresh
  <2>2. CASE Change
    BY <2>2 DEF Change, CalmInv
  <2> QED
    BY <1>2, <2>1, <2>2, ProgramsStay
<1>3. ASSUME NEW q \in Query, Search(q)
      PROVE  CalmInv'
  <2>1. UNCHANGED files /\ CalmDirs(q) /\ CalmResults(q) /\ index[q] \in IndexSnapshot
    BY <1>3, SearchStays DEF CalmInv, FreshTypeOK
  <2>2. ASSUME NEW p \in Query, p # q
        PROVE  CalmDirs(p)' /\ CalmResults(p)'
    <3>1. Same(p)
      BY <1>3, <2>2, OthersStay
    <3> QED
      BY <2>1, <3>1 DEF files, Same, CalmInv, ControlSettled, Visible, Hidden, document_fresh
  <2> SUFFICES CalmDirs(q)' /\ CalmResults(q)'
    BY <2>2 DEF CalmInv
  <2>3. CASE stage'[q] \notin {"dirs", "results"} \/ ~ calm'[q]
    BY <2>3
  <2>4. CASE End(q)
    BY <2>3, <2>4 DEF End, Go, FreshTypeOK
  <2>5. CASE \E why \in {"set", "full"} : Walk(q, why)
    BY <2>3, <2>5 DEF Walk, Go, FreshTypeOK
  <2>6. CASE AcquireSnapshot(q) \/ publish_snapshot(q) \/ build_ignore_fingerprint(q)
    BY <2>3, <2>6 DEF AcquireSnapshot, publish_snapshot, build_ignore_fingerprint, Go,
       FreshTypeOK
  <2>7. CASE (\E d \in Dir : from_directories(q, d)) \/ \E f \in File : OpenFile(q, f) \/ ReadFile(q, f)
    BY <2>3, <2>7 DEF from_directories, OpenFile, ReadFile, Go, FreshTypeOK
  <2>8. CASE WalkRules(q) \/ \E d \in Dir : WalkDir(q, d)
    BY <2>3, <2>8 DEF WalkRules, WalkDir, Go, FreshTypeOK
  <2>9. CASE begin_validation(q)
    <3>1. left'[q] = Dir /\ stage'[q] # "results"
      BY <2>9 DEF begin_validation, Go, FreshTypeOK
    <3> QED
      BY <3>1
  <2>10. ASSUME NEW d \in Dir, CheckDirectory(q, d)
         PROVE  CalmDirs(q)' /\ CalmResults(q)'
    <3>1. CASE /\ index[q].dirs[d] = mtime[d] /\ left' = [left EXCEPT ![q] = @ \ {d}]
               /\ UNCHANGED <<stage, index, calm>> /\ stage[q] = "dirs"
      BY <2>1, <3>1 DEF files, FreshTypeOK
    <3> QED
      BY <2>10, <2>5, <3>1 DEF CheckDirectory, history
  \* A walk that nothing has overtaken.
  <2>11. ASSUME calm[q], Validates(q), stage[q] = "list", left[q] = {},
                found[q] = Indexed(index[q])
         PROVE  Indexed(index[q]) = Visible
    BY <2>11 DEF WalkInv, WalkSound, WalkFinds, Visible
  <2>12. CASE CheckIgnore(q)
    <3>1. CASE /\ stage[q] = "dirs" /\ left[q] = {} /\ certified[q]
               /\ ignore_unchanged(index[q], certified[q]) /\ stage'[q] = "results"
               /\ left'[q] = result_doc_ids(index[q]) /\ UNCHANGED <<index, calm, goal>>
      <4>1. ASSUME calm[q], ControlSettled(index[q])
            PROVE  Indexed(index[q]) = Visible
        <5>1. index[q].dirs \in [Dir -> Time] /\ mtime \in [Dir -> Time]
          BY <2>1 DEF IndexSnapshot, FreshTypeOK
        <5>2. index[q].dirs = mtime
          BY <2>1, <3>1, <4>1, <5>1
        <5>3. ignore_unchanged(index[q], TRUE) /\ Guaranteed(index[q])
          BY <3>1 DEF ignore_unchanged, GuaranteeInv
        <5> QED
          BY <4>1, <5>2, <5>3 DEF Guaranteed, SameSet
      <4>2. goal[q] # "full"
        BY <3>1 DEF Course
      <4>3. UNCHANGED <<disk, control>>
        BY <2>1 DEF files
      <4> QED
        BY <3>1, <4>1, <4>2, <4>3 DEF ControlSettled, Visible, Hidden, Indexed, result_doc_ids,
           document_fresh
    <3> QED
      BY <2>12, <2>5, <3>1 DEF CheckIgnore, Go, FreshTypeOK, history
  <2>13. ASSUME stage[q] = "list", left[q] = {}, Validates(q), found[q] = Indexed(index[q]),
                UNCHANGED <<index, calm, goal>>, stage'[q] = "results",
                \/ left'[q] = Indexed(index[q])
                \/ left'[q] = result_doc_ids(index[q]) /\ goal[q] = "set"
         PROVE  CalmDirs(q)' /\ CalmResults(q)'
    <3>1. UNCHANGED <<disk, control>>
      BY <2>1 DEF files
    <3> QED
      BY <2>11, <2>13, <3>1 DEF ControlSettled, Visible, Hidden, Indexed, result_doc_ids,
         document_fresh
  <2>14. CASE FileSetMatches(q) \/ FullSetMatches(q)
    BY <2>13, <2>14 DEF FileSetMatches, FullSetMatches, Walked, Go, FreshTypeOK, Validates,
       Builds, history
  <2>15. CASE FileSetChanged(q)
    BY <2>15, <2>5 DEF FileSetChanged
  <2>16. ASSUME NEW f \in File, CheckDocument(q, f)
         PROVE  CalmDirs(q)' /\ CalmResults(q)'
    <3>1. CASE /\ document_fresh(index[q], f) /\ left' = [left EXCEPT ![q] = @ \ {f}]
               /\ UNCHANGED <<stage, index, goal, calm>> /\ stage[q] = "results"
      <4>1. UNCHANGED <<disk, control>> /\ left'[q] = left[q] \ {f}
        BY <2>1, <3>1 DEF files, FreshTypeOK
      <4> QED
        BY <2>1, <3>1, <4>1 DEF ControlSettled, Visible, Hidden, document_fresh
    <3> QED
      BY <2>16, <2>4, <3>1 DEF CheckDocument, Fail, history
  <2>17. CASE Fails(q) \/ FullSetChanged(q) \/ Answer(q)
    BY <2>17, <2>4 DEF Fails, FullSetChanged, Fail, Answer
  <2> QED
    BY <1>3, <2>6, <2>7, <2>8, <2>9, <2>10, <2>12, <2>14, <2>15, <2>16, <2>17 DEF Search
<1> QED
  BY <1>1, <1>2, <1>3 DEF FreshNext

\* Then the answer is exact, but for files it does not look at.
LEMMA CalmAnswers == FreshTypeOK /\ SoundInv /\ CalmInv => CalmIsExact
<1> SUFFICES ASSUME FreshTypeOK, SoundInv, CalmInv, NEW q \in Query, Answers(q), calm[q],
                    Settled(index[q])
             PROVE  LET s == index[q]
                    IN  /\ result_doc_ids(s) \subseteq Truth
                        /\ \A f \in Truth \ result_doc_ids(s) :
                              /\ goal[q] # "full"
                              /\ f \in Indexed(s) /\ s.docs[f].stamp # disk[f].stamp
  BY DEF CalmIsExact
<1> DEFINE s == index[q]
<1>1. /\ s \in IndexSnapshot /\ Sound(s) /\ Indexed(s) = Visible
      /\ \A f \in Indexed(s) : ~ s.docs[f].young
      /\ \A f \in Indexed(s) : f \in result_doc_ids(s) \/ goal[q] = "full"
                                 => document_fresh(s, f)
  BY DEF FreshTypeOK, SoundInv, Answers, CalmInv, CalmResults, Settled, ControlSettled
<1> HIDE DEF s
<1>2. ASSUME NEW f \in result_doc_ids(s)
      PROVE  f \in Truth
  <2>1. f \in Indexed(s) /\ s.docs[f].body \in Matching
    BY DEF result_doc_ids
  <2>2. disk[f] # None /\ disk[f].body = s.docs[f].body
    BY <1>1, <2>1, FreshIsSame
  <2> QED
    BY <1>1, <2>1, <2>2 DEF Truth, Matches
<1>3. ASSUME NEW f \in Truth \ result_doc_ids(s)
      PROVE  /\ goal[q] # "full"
             /\ f \in Indexed(s) /\ s.docs[f].stamp # disk[f].stamp
  <2>1. f \in Indexed(s) /\ disk[f] # None /\ disk[f].body \in Matching
    BY <1>1 DEF Truth, Matches
  <2>2. disk[f].body # s.docs[f].body
    BY <1>3, <2>1 DEF result_doc_ids
  <2>3. goal[q] # "full"
    BY <1>1, <2>1, <2>2, FreshIsSame
  <2>4. s.docs[f].stamp # disk[f].stamp
    BY <1>1, <2>1, <2>2 DEF Sound, DocumentsSound
  <2> QED
    BY <2>1, <2>3, <2>4
<1> QED
  BY <1>2, <1>3 DEF s

\* A result that has been looked at was there.
LEMMA HadAnswers == Course /\ HadInv => ReportedWasThere
BY DEF Course, HadInv, HadMatches, ReportedWasThere, Answers, Validates, Builds
-----------------------------------------------------------------------------
\* A build begun since the last change is right as far as it has come.
BuildsRight(q) ==
    /\ stage[q] = "list" => WalkFinds(q)
    /\ stage[q] = "stamp" => found[q] = Visible
    /\ stage[q] = "load" =>
         /\ left[q] \subseteq Visible
         /\ Indexed(index[q]) \subseteq Visible
         /\ Visible \ left[q] \subseteq Indexed(index[q])
         /\ \A f \in Indexed(index[q]) : index[q].docs[f].body = disk[f].body

\* A build that nothing disturbs stays right.
LEMMA BuildStays ==
    ASSUME FreshTypeOK, FreshTypeOK', Course, NEW q \in Query, Search(q), Builds(q)',
           Builds(q) => BuildsRight(q)
    PROVE  BuildsRight(q)'
<1> USE DEF BuildsRight
<1>1. /\ UNCHANGED files /\ index[q] \in IndexSnapshot /\ index'[q] \in IndexSnapshot
      /\ stage'[q] \notin {"idle", "begin", "dirs", "results"} /\ goal'[q] = "build"
      /\ Visible' = Visible
  <2>1. UNCHANGED files /\ index[q] \in IndexSnapshot /\ index'[q] \in IndexSnapshot
    BY SearchStays DEF FreshTypeOK
  <2>2. stage'[q] \notin {"idle", "begin"} /\ goal'[q] = "build"
    BY DEF Builds
  <2>3. stage'[q] \notin {"dirs", "results"}
    <3>1. Course'
      BY CourseStep DEF FreshNext
    <3> QED
      BY <2>2, <3>1 DEF Course
  <2> QED
    BY <2>1, <2>2, <2>3 DEF files, Visible, Hidden
<1>2. CASE stage'[q] = "rules"
  BY <1>2
<1>3. CASE End(q)
  BY <1>1, <1>3 DEF End, Go, FreshTypeOK
<1>4. CASE AcquireSnapshot(q)
  BY <1>1, <1>2, <1>4 DEF AcquireSnapshot, Go, FreshTypeOK
<1>5. CASE Walk(q, "set") \/ Walk(q, "full")
  BY <1>1, <1>5 DEF Walk, FreshTypeOK
<1>6. CASE WalkRules(q)
  BY <1>1, <1>6 DEF WalkRules, Go, FreshTypeOK, WalkFinds, Hidden, files
<1>7. ASSUME NEW d \in Dir, WalkDir(q, d)
      PROVE  BuildsRight(q)'
  <2>1. /\ found'[q] = found[q] \ Absent(d) /\ left'[q] = left[q] \ {d}
        /\ stage' = stage /\ stage[q] = "list" /\ goal' = goal
        /\ UNCHANGED <<control, disk>>
    BY <1>7 DEF WalkDir, FreshTypeOK, files
  <2>2. WalkFinds(q)
    BY <1>1, <2>1 DEF Builds
  <2> QED
    BY <2>1, <2>2 DEF WalkFinds, Hidden, Absent
<1>8. CASE build_ignore_fingerprint(q)
  <2>1. stage[q] = "list" /\ left[q] = {} /\ goal' = goal /\ stage'[q] = "stamp" /\ found' = found
    BY <1>8 DEF build_ignore_fingerprint, Walked, Go, FreshTypeOK
  <2>2. WalkFinds(q)
    BY <1>1, <2>1 DEF Builds
  <2> QED
    BY <1>1, <2>1, <2>2 DEF WalkFinds, Visible
<1>9. ASSUME NEW d \in Dir, from_directories(q, d)
      PROVE  BuildsRight(q)'
  <2>1. /\ stage[q] = "stamp" /\ goal' = goal /\ found' = found
        /\ \/ stage'[q] = "stamp"
           \/ stage'[q] = "load" /\ left'[q] = found[q]
    BY <1>9 DEF from_directories, Go, FreshTypeOK
  <2>2. found[q] = Visible /\ Indexed(index[q]) = {}
    BY <1>1, <2>1 DEF Builds, Course
  <2>3. index'[q].docs = index[q].docs
    BY <1>1, <1>9 DEF from_directories, FreshTypeOK, IndexSnapshot
  <2>4. Indexed(index'[q]) = {}
    BY <2>2, <2>3 DEF Indexed
  <2> QED
    BY <1>1, <2>1, <2>2, <2>4 DEF Indexed
<1>10. ASSUME NEW f \in File, f \in left[q], stage[q] = "load", stage' = stage, goal' = goal,
              left'[q] = left[q] \/ (left'[q] = left[q] \ {f} /\ index[q].docs[f] # None),
              \A g \in File : g # f => index'[q].docs[g] = index[q].docs[g],
              index'[q].docs[f] # None,
              index'[q].docs[f].body = disk[f].body \/ index'[q].docs[f] = index[q].docs[f]
       PROVE  BuildsRight(q)'
  <2>1. /\ left[q] \subseteq Visible /\ Indexed(index[q]) \subseteq Visible
        /\ Visible \ left[q] \subseteq Indexed(index[q])
        /\ \A g \in Indexed(index[q]) : index[q].docs[g].body = disk[g].body
    BY <1>1, <1>10 DEF Builds
  <2>2. Indexed(index'[q]) = Indexed(index[q]) \cup {f}
    BY <1>10 DEF Indexed
  <2>3. left'[q] \subseteq left[q] /\ Visible \ left'[q] \subseteq Indexed(index'[q])
    BY <1>10, <2>1, <2>2 DEF Indexed
  <2>4. \A g \in Indexed(index'[q]) : index'[q].docs[g].body = disk[g].body
    BY <1>10, <2>1, <2>2 DEF Indexed
  <2>5. f \in Visible /\ disk' = disk
    BY <1>1, <1>10, <2>1 DEF files
  <2> QED
    BY <1>1, <1>10, <2>1, <2>2, <2>3, <2>4, <2>5 DEF Indexed
<1>11. ASSUME NEW f \in File, OpenFile(q, f)
       PROVE  BuildsRight(q)'
  <2>1. index'[q].docs = [index[q].docs EXCEPT ![f] = [body |-> disk[f].body,
                            stamp |-> disk[f].stamp, young |-> disk[f].stamp = now]]
    BY <1>1, <1>11 DEF OpenFile, FreshTypeOK, IndexSnapshot
  <2>2. /\ \A g \in File : g # f => index'[q].docs[g] = index[q].docs[g]
        /\ index'[q].docs[f] = [body |-> disk[f].body,
                            stamp |-> disk[f].stamp, young |-> disk[f].stamp = now]
    BY <1>1, <2>1 DEF IndexSnapshot
  <2>3. index'[q].docs[f] # None /\ index'[q].docs[f].body = disk[f].body
    <3>1. disk[f].body \in Text /\ disk[f].stamp \in Time
      BY <1>11, DiskTyped DEF OpenFile
    <3>2. [body |-> disk[f].body, stamp |-> disk[f].stamp, young |-> disk[f].stamp = now] \in Document
      BY <3>1 DEF Document
    <3> QED
      BY <2>2, <3>2, AbsenceAssumption
  <2> QED
    BY <1>10, <1>11, <2>2, <2>3 DEF OpenFile
<1>12. ASSUME NEW f \in File, ReadFile(q, f)
       PROVE  BuildsRight(q)'
  <2>1. /\ \A g \in File : g # f => index'[q].docs[g] = index[q].docs[g]
        /\ \/ index'[q].docs[f] = index[q].docs[f]
           \/ index'[q].docs[f] = [index[q].docs[f] EXCEPT !.body = disk[f].body]
    <3>1. CASE UNCHANGED index
      BY <3>1
    <3>2. CASE index' = [index EXCEPT ![q].docs[f].body = disk[f].body]
      <4>1. index'[q].docs = [index[q].docs EXCEPT ![f] = [@ EXCEPT !.body = disk[f].body]]
        BY <1>1, <3>2 DEF FreshTypeOK, IndexSnapshot
      <4> QED
        BY <1>1, <4>1 DEF IndexSnapshot
    <3> QED
      BY <1>12, <3>1, <3>2 DEF ReadFile
  <2>2. index[q].docs[f] \in Document /\ index[q].docs[f] # None
    BY <1>1, <1>12, SnapshotTyped DEF ReadFile
  <2>3. index'[q].docs[f] # None
    <3>1. index'[q].docs[f] \in Document \cup {None}
      BY <1>1 DEF IndexSnapshot
    <3>2. CASE index'[q].docs[f] = [index[q].docs[f] EXCEPT !.body = disk[f].body]
      <4>1. disk[f].body \in Text \/ UNCHANGED index
        BY <1>12, DiskTyped DEF ReadFile
      <4>2. disk[f].body \in Text => index'[q].docs[f] \in Document
        BY <2>2, <3>2 DEF Document
      <4> QED
        BY <2>2, <4>1, <4>2, AbsenceAssumption
    <3> QED
      BY <2>1, <2>2, <3>2
  <2>4. index'[q].docs[f].body = disk[f].body \/ index'[q].docs[f] = index[q].docs[f]
    BY <2>1, <2>2 DEF Document
  <2>5. f \in left[q] /\ stage[q] = "load" /\ stage' = stage /\ goal' = goal
        /\ left'[q] = left[q] \ {f}
    BY <1>12 DEF ReadFile, FreshTypeOK
  <2> QED
    BY <1>10, <2>1, <2>2, <2>3, <2>4, <2>5
<1>13. CASE publish_snapshot(q) \/ begin_validation(q)
  BY <1>1, <1>13 DEF publish_snapshot, begin_validation, Go, FreshTypeOK
<1>14. CASE \E d \in Dir : CheckDirectory(q, d)
  BY <1>1, <1>5, <1>14 DEF CheckDirectory
<1>15. CASE CheckIgnore(q) \/ FileSetMatches(q) \/ FullSetMatches(q) \/ FileSetChanged(q)
  BY <1>1, <1>5, <1>15 DEF CheckIgnore, FileSetMatches, FullSetMatches, FileSetChanged, Go,
     FreshTypeOK
<1>16. CASE \E f \in File : CheckDocument(q, f)
  BY <1>1, <1>3, <1>16 DEF CheckDocument, Fail
<1>17. CASE Fails(q) \/ FullSetChanged(q) \/ Answer(q)
  BY <1>3, <1>17 DEF Fails, FullSetChanged, Fail, Answer
<1> QED
  BY <1>4, <1>6, <1>7, <1>8, <1>9, <1>11, <1>12, <1>13, <1>14, <1>15, <1>16, <1>17 DEF Search

\* So a build that nothing has disturbed publishes the right results.
LEMMA BuildIsExact ==
    ASSUME FreshTypeOK, Course, NEW q \in Query, publish_snapshot(q), BuildsRight(q)
    PROVE  result_doc_ids(index[q]) = Truth
<1>1. /\ Indexed(index[q]) = Visible
      /\ \A f \in Indexed(index[q]) : index[q].docs[f].body = disk[f].body
  BY DEF publish_snapshot, BuildsRight
<1> QED
  BY <1>1 DEF result_doc_ids, Truth, Matches, Visible
-----------------------------------------------------------------------------
\* Counted validations that nothing has disturbed, of a snapshot without the
\* right results: only these answer wrongly.
Misled == {q \in Query : /\ Validates(q) /\ goal[q] = "set" /\ calm[q]
                         /\ result_doc_ids(index[q]) # Truth}

\* Counted validations of the entry: each counts once when it answers.
Counted == {q \in Query : /\ Validates(q) /\ goal[q] = "set"
                           /\ still_cached(index[q])}

Most == FullScanInterval + Cardinality(Query) - 1

\* Wrong answers, with those to come; and what the entry will have counted.
\* While the entry is wrong, it counts every one of them.
WrongInv ==
    /\ wrong + Cardinality(Misled) <= Most
    /\ entry # None => entry.since + Cardinality(Counted) <= Most
    /\ entry # None /\ result_doc_ids(entry.snap) # Truth =>
         wrong <= entry.since /\ Misled \subseteq Counted
    /\ \A q \in Query : Builds(q) /\ (wrong > 0 \/ Misled # {}) => BuildsRight(q)

LEMMA Sizes ==
    ASSUME NEW S \in SUBSET Query, NEW T \in SUBSET Query, S \subseteq T
    PROVE  /\ Cardinality(S) \in Nat /\ Cardinality(T) \in Nat
           /\ Cardinality(S) <= Cardinality(T) /\ Cardinality(T) <= Cardinality(Query)
           /\ Cardinality(Query) \in Nat /\ Most \in Nat
           /\ \A q \in T \ S : Cardinality(S) + 1 <= Cardinality(T)
<1>1. IsFiniteSet(Query) /\ IsFiniteSet(S) /\ IsFiniteSet(T)
  BY FreshnessAssumption, FS_Subset
<1>2. /\ Cardinality(S) \in Nat /\ Cardinality(T) \in Nat /\ Cardinality(Query) \in Nat
  BY <1>1, FS_CardinalityType
<1>3. Cardinality(S) <= Cardinality(T) /\ Cardinality(T) <= Cardinality(Query)
  BY <1>1, FS_Subset
<1>4. Cardinality(Query) # 0
  BY <1>1, FS_EmptySet, FreshnessAssumption
<1>5. ASSUME NEW q \in T \ S
      PROVE  Cardinality(S) + 1 <= Cardinality(T)
  <2>1. Cardinality(S) # Cardinality(T)
    BY <1>1, <1>5, FS_Subset
  <2> QED
    BY <1>2, <1>3, <2>1
<1> QED
  BY <1>2, <1>3, <1>4, <1>5, FreshnessAssumption DEF Most

LEMMA WrongInit == FreshInit => WrongInv
<1> SUFFICES ASSUME FreshInit
             PROVE  WrongInv
  OBVIOUS
<1>1. Misled = {} /\ entry = None /\ wrong = 0 /\ \A q \in Query : ~ Builds(q)
  BY DEF FreshInit, Misled, Validates, Builds
<1>2. Cardinality(Misled) = 0
  BY <1>1, FS_EmptySet
<1>3. Most \in Nat
  BY Sizes
<1> QED
  BY <1>1, <1>2, <1>3 DEF WrongInv

\* A change takes back every wrong answer: none of those under way counts.
LEMMA ChangeForgives ==
    ASSUME FreshTypeOK, Environment, WrongInv
    PROVE  WrongInv'
<1>1. UNCHANGED <<entry, stage, goal, index, left, found>>
  BY ProgramsStay
<1>2. CASE Tick
  <2>1. UNCHANGED <<disk, control, calm, wrong>>
    BY <1>2 DEF Tick, history
  <2> QED
    BY <1>1, <2>1 DEF WrongInv, Misled, Counted, BuildsRight, WalkFinds, Validates, Builds,
       still_cached, Truth, Visible, Hidden, Matches
<1>3. CASE Change
  <2>1. wrong' = 0 /\ \A q \in Query : ~ calm'[q]
    BY <1>3 DEF Change
  <2>2. Misled' = {}
    BY <2>1 DEF Misled
  <2>3. Counted' = Counted
    BY <1>1 DEF Counted, Validates, Builds, still_cached
  <2>4. Cardinality(Misled') = 0 /\ Most \in Nat
    BY <2>2, FS_EmptySet, Sizes
  <2>5. entry' # None => entry'.since \in Nat
    BY <1>1, EntryTyped
  <2> QED
    BY <1>1, <2>1, <2>2, <2>3, <2>4, <2>5 DEF WrongInv
<1> QED
  BY <1>2, <1>3, ProgramsStay

\* What a step of q leaves of the other queries.
LEMMA OthersAnswer ==
    ASSUME FreshTypeOK, FreshTypeOK', NEW q \in Query, Search(q)
    PROVE  /\ Truth' = Truth
           /\ \A p \in Query : p # q =>
                /\ p \in Misled' <=> p \in Misled
                /\ Builds(p)' <=> Builds(p)
                /\ BuildsRight(p) => BuildsRight(p)'
                /\ (entry # None /\ entry' # None /\ entry'.snap = entry.snap)
                     => (p \in Counted' <=> p \in Counted)
<1>1. UNCHANGED files
  BY SearchStays
<1>2. Truth' = Truth /\ Visible' = Visible
  BY <1>1 DEF files, Truth, Visible, Hidden, Matches
<1>3. ASSUME NEW p \in Query, p # q
      PROVE  /\ p \in Misled' <=> p \in Misled
             /\ Builds(p)' <=> Builds(p)
             /\ BuildsRight(p) => BuildsRight(p)'
             /\ (entry # None /\ entry' # None /\ entry'.snap = entry.snap)
                  => (p \in Counted' <=> p \in Counted)
  <2>1. Same(p)
    BY <1>3, OthersStay
  <2>2. (Builds(p)' <=> Builds(p)) /\ (Validates(p)' <=> Validates(p))
    BY <2>1 DEF Same, Builds, Validates
  <2>3. p \in Misled' <=> p \in Misled
    BY <1>2, <2>1, <2>2 DEF Same, Misled
  <2>4. BuildsRight(p) => BuildsRight(p)'
    BY <1>1, <1>2, <2>1 DEF Same, BuildsRight, WalkFinds, Hidden, files, Indexed
  <2>5. (entry # None /\ entry' # None /\ entry'.snap = entry.snap)
          => (p \in Counted' <=> p \in Counted)
    BY <2>1, <2>2 DEF Same, Counted, still_cached
  <2> QED
    BY <2>2, <2>3, <2>4, <2>5
<1> QED
  BY <1>2, <1>3

\* A step by which a query goes on, or gives up, makes no answer wrong.
LEMMA GoesOn ==
    ASSUME FreshTypeOK, FreshTypeOK', Course, WrongInv, NEW q \in Query, Search(q),
           wrong' = wrong, entry' \in {entry, None}, q \in Misled' => q \in Misled,
           entry' # None => /\ q \in Counted' => q \in Counted
                            /\ q \in Misled' /\ q \in Counted => q \in Counted'
    PROVE  WrongInv'
<1>1. Misled' \subseteq Misled
  BY OthersAnswer DEF Misled
<1>2. /\ Misled \subseteq Query /\ Misled' \subseteq Query
      /\ Counted \subseteq Query /\ Counted' \subseteq Query
  BY DEF Misled, Counted
<1>3. wrong' + Cardinality(Misled') <= Most
  <2>1. /\ Cardinality(Misled') <= Cardinality(Misled) /\ Most \in Nat
        /\ Cardinality(Misled') \in Nat /\ Cardinality(Misled) \in Nat
    BY <1>1, <1>2, Sizes
  <2> QED
    BY <2>1 DEF WrongInv, FreshTypeOK
<1>4. ASSUME entry' # None
      PROVE  /\ entry'.since + Cardinality(Counted') <= Most
             /\ result_doc_ids(entry'.snap) # Truth' =>
                  wrong' <= entry'.since /\ Misled' \subseteq Counted'
  <2>1. entry' = entry /\ entry # None /\ Truth' = Truth /\ entry.since \in Nat
    BY <1>4, EntryTyped, OthersAnswer
  <2>2. \A p \in Query : p # q => (p \in Counted' <=> p \in Counted)
    BY <1>4, <2>1, OthersAnswer
  <2>3. Counted' \subseteq Counted
    BY <1>2, <1>4, <2>2
  <2>4. /\ Cardinality(Counted') <= Cardinality(Counted) /\ Most \in Nat
        /\ Cardinality(Counted') \in Nat /\ Cardinality(Counted) \in Nat
    BY <1>2, <2>3, Sizes
  <2>5. entry'.since + Cardinality(Counted') <= Most
    BY <2>1, <2>4 DEF WrongInv
  <2>6. Misled \subseteq Counted => Misled' \subseteq Counted'
    BY <1>1, <1>2, <1>4, <2>2
  <2> QED
    BY <2>1, <2>5, <2>6 DEF WrongInv
<1>5. ASSUME NEW p \in Query, Builds(p)', wrong' > 0 \/ Misled' # {}
      PROVE  BuildsRight(p)'
  <2>1. Builds(p) => BuildsRight(p)
    BY <1>1, <1>5 DEF WrongInv
  <2> QED
    BY <1>5, <2>1, BuildStays, OthersAnswer
<1> QED
  BY <1>3, <1>4, <1>5 DEF WrongInv

\* A new entry is right, unless it was built through a change: and then there
\* has been no wrong answer since.
LEMMA PublishesAnew ==
    ASSUME FreshTypeOK, FreshTypeOK', Course, Known, Known', WrongInv, NEW q \in Query,
           Search(q), publish_snapshot(q)
    PROVE  WrongInv'
<1>1. /\ stage[q] = "load" /\ stage'[q] = "begin" /\ wrong' = wrong /\ index' = index
      /\ goal' = goal /\ calls' = calls
      /\ entry' = [snap |-> index[q], certified |-> FALSE, since |-> 0]
  BY DEF publish_snapshot, Go, FreshTypeOK, history
<1>2. entry'.snap = index[q] /\ entry'.since = 0 /\ entry' # None
  <2>1. entry' \in IndexEntry
    BY <1>1 DEF FreshTypeOK, IndexEntry
  <2> QED
    BY <1>1, <2>1, AbsenceAssumption
<1>3. Builds(q) /\ q \notin Misled'
  BY <1>1 DEF Builds, Validates, Course, Misled
<1>4. Misled' = Misled
  BY <1>3, OthersAnswer DEF Misled, Validates
<1>5. Counted' = {}
  <2>1. SUFFICES ASSUME NEW p \in Counted'
                 PROVE  FALSE
    OBVIOUS
  <2>2. p \in Query /\ stage'[p] \notin {"idle", "begin"} /\ index'[p].gen = index[q].gen
    BY <1>2, <2>1 DEF Counted, Validates, still_cached
  <2>3. p # q /\ stage'[p] = stage[p]
    BY <1>1, <2>2, OthersStay DEF Same
  <2>4. index[p].gen < index[q].gen /\ index[p].gen \in Nat
    BY <1>3, <2>2, <2>3 DEF Known, FreshTypeOK, IndexSnapshot
  <2> QED
    BY <1>1, <2>2, <2>4
<1>6. Most \in Nat /\ Cardinality(Counted') = 0
  BY <1>5, Sizes, FS_EmptySet
<1>7. ASSUME result_doc_ids(entry'.snap) # Truth'
      PROVE  wrong = 0 /\ Misled = {}
  <2>1. result_doc_ids(index[q]) # Truth
    BY <1>2, <1>7, OthersAnswer
  <2>2. ~ BuildsRight(q)
    BY <2>1, BuildIsExact
  <2> QED
    BY <1>3, <2>2 DEF WrongInv, FreshTypeOK
<1>8. \A p \in Query : ~ Builds(p)'
  BY <1>2 DEF Known
<1> QED
  BY <1>1, <1>2, <1>4, <1>6, <1>7, <1>8 DEF WrongInv

\* A targeted validation begins only while the entry has been counted less often
\* than the interval.
LEMMA BeginsTargeted ==
    ASSUME FreshTypeOK, FreshTypeOK', Course, Known, WrongInv, NEW q \in Query, Search(q),
           begin_validation(q)
    PROVE  WrongInv'
<1>1. /\ stage[q] = "begin" /\ wrong' = wrong /\ index' = index /\ entry' = entry
      /\ calm'[q]
  BY DEF begin_validation, FreshTypeOK
<1>2. q \notin Misled /\ q \notin Counted
  BY <1>1 DEF Misled, Counted, Validates
<1>3. CASE goal'[q] # "set"
  <2>1. q \notin Misled' /\ q \notin Counted'
    BY <1>3 DEF Misled, Counted
  <2> QED
    BY <1>1, <2>1, GoesOn
<1>4. CASE goal'[q] = "set"
  <2>1. still_cached(index[q]) /\ ~ full_scan_due(entry) /\ stage'[q] = "dirs"
    BY <1>4 DEF begin_validation, Go, FreshTypeOK
  <2>2. entry # None /\ index[q] = entry.snap
    BY <1>1, <2>1 DEF Known, still_cached
  <2>3. entry.since \in Nat /\ entry.since + 1 <= FullScanInterval
    BY <2>1, <2>2, EntryTyped, FreshnessAssumption DEF full_scan_due
  <2>4. q \in Counted' /\ \A p \in Query : p # q => (p \in Counted' <=> p \in Counted)
    <3>1. q \in Counted'
      BY <1>1, <1>4, <2>1 DEF Counted, Validates, Builds, still_cached
    <3>2. \A p \in Query : p # q => (p \in Counted' <=> p \in Counted)
      BY <1>1, <2>2, OthersAnswer
    <3> QED
      BY <3>1, <3>2
  <2>5. /\ Misled \subseteq Query /\ Misled' \subseteq Query /\ Counted' \subseteq Query
        /\ Misled' \subseteq Misled \cup {q}
    <3>1. \A p \in Query : p # q => (p \in Misled' <=> p \in Misled)
      BY OthersAnswer
    <3> QED
      BY <3>1 DEF Misled, Counted
  <2>6. /\ Cardinality(Counted') \in Nat /\ Cardinality(Counted') <= Cardinality(Query)
        /\ Cardinality(Misled') \in Nat /\ Cardinality(Misled') <= Cardinality(Query)
        /\ Cardinality(Query) \in Nat
    BY <2>5, Sizes
  <2>7. Truth' = Truth /\ wrong \in Nat /\ FullScanInterval \in Nat
    BY OthersAnswer, FreshnessAssumption DEF FreshTypeOK
  <2>8. entry.since + Cardinality(Counted') <= Most
    BY <2>3, <2>6, <2>7 DEF Most
  <2>9. ASSUME result_doc_ids(entry.snap) # Truth
        PROVE  /\ wrong <= entry.since /\ Misled' \subseteq Counted'
               /\ wrong + Cardinality(Misled') <= Most
    <3>1. wrong <= entry.since /\ Misled \subseteq Counted
      BY <2>2, <2>9 DEF WrongInv
    <3>2. Misled' \subseteq Counted'
      BY <2>4, <2>5, <3>1
    <3> QED
      BY <2>3, <2>6, <2>7, <3>1, <3>2 DEF Most
  <2>10. ASSUME result_doc_ids(entry.snap) = Truth
         PROVE  wrong + Cardinality(Misled') <= Most
    <3>1. q \notin Misled'
      BY <1>1, <2>2, <2>7, <2>10 DEF Misled
    <3>2. Misled' \subseteq Misled
      BY <2>5, <3>1
    <3>3. Cardinality(Misled') <= Cardinality(Misled) /\ Cardinality(Misled) \in Nat /\ Most \in Nat
      BY <2>5, <3>2, Sizes
    <3> QED
      BY <2>6, <2>7, <3>3 DEF WrongInv
  <2>11. \A p \in Query : ~ Builds(p)'
    <3>1. \A p \in Query : ~ Builds(p)
      BY <2>2 DEF Known
    <3>2. ~ Builds(q)'
      BY <1>4 DEF Builds
    <3> QED
      BY <3>1, <3>2, OthersAnswer
  <2> QED
    BY <1>1, <2>2, <2>7, <2>8, <2>9, <2>10, <2>11 DEF WrongInv
<1> QED
  BY <1>3, <1>4

\* A targeted answer is counted by the entry, if wrong by the history, too; a
\* full one is not wrong.
LEMMA AnswersCount ==
    ASSUME FreshTypeOK, FreshTypeOK', Course, Known, CalmIsExact, WrongInv, NEW q \in Query,
           Search(q), Answer(q)
    PROVE  WrongInv'
<1>1. Answers(q) /\ stage[q] = "results" /\ Validates(q) /\ goal[q] \in {"set", "full"}
  BY DEF Answer, Answers, Course, Validates, Builds, FreshTypeOK
<1>2. stage'[q] = "idle"
  BY DEF Answer, End, Go, FreshTypeOK
<1>3. q \notin Misled' /\ q \notin Counted' /\ ~ Builds(q)'
  BY <1>2 DEF Misled, Counted, Validates, Builds
<1>4. /\ entry = None => entry' = None
      /\ entry # None =>
           /\ entry' # None /\ entry'.snap = entry.snap
           /\ entry'.since = IF ~ still_cached(index[q]) THEN entry.since
                             ELSE IF goal[q] = "full" THEN 0 ELSE entry.since + 1
  BY AnsweredEntry
<1>5. /\ Misled' = Misled \ {q}
      /\ entry # None => Counted' = Counted \ {q}
  <2>1. \A p \in Query : p # q => (p \in Misled' <=> p \in Misled)
    BY OthersAnswer
  <2>2. entry # None => \A p \in Query : p # q => (p \in Counted' <=> p \in Counted)
    BY <1>4, OthersAnswer
  <2>3. Misled \subseteq Query /\ Misled' \subseteq Query
        /\ Counted \subseteq Query /\ Counted' \subseteq Query
    BY DEF Misled, Counted
  <2> QED
    BY <1>3, <2>1, <2>2, <2>3
<1>6. wrong \in Nat /\ wrong' \in Nat /\ Truth' = Truth /\ (entry # None => entry.since \in Nat)
  BY OthersAnswer, EntryTyped DEF FreshTypeOK
<1>7. /\ Cardinality(Misled) \in Nat /\ Cardinality(Misled') \in Nat /\ Most \in Nat
      /\ Cardinality(Misled') <= Cardinality(Misled)
      /\ q \in Misled => Cardinality(Misled') + 1 <= Cardinality(Misled)
  <2>1. Misled \in SUBSET Query /\ Misled' \in SUBSET Query
    BY DEF Misled
  <2> QED
    BY <1>5, <2>1, Sizes
<1>8. entry # None =>
        /\ Cardinality(Counted) \in Nat /\ Cardinality(Counted') \in Nat
        /\ Cardinality(Counted') <= Cardinality(Counted)
        /\ q \in Counted => Cardinality(Counted') + 1 <= Cardinality(Counted)
  <2>1. Counted \in SUBSET Query /\ Counted' \in SUBSET Query
    BY DEF Counted
  <2> QED
    BY <1>5, <2>1, Sizes
<1>9. q \in Counted <=> goal[q] = "set" /\ still_cached(index[q])
  BY <1>1 DEF Counted
<1>10. entry # None => entry'.since + Cardinality(Counted') <= Most
  BY <1>1, <1>4, <1>6, <1>7, <1>8, <1>9 DEF WrongInv
<1>11. \/ wrong' = 0 /\ goal[q] = "full" /\ still_cached(index[q])
       \/ wrong' = wrong /\ (goal[q] = "full" => ~ still_cached(index[q]))
       \/ /\ wrong' = wrong + 1 /\ calm[q] /\ Settled(index[q])
          /\ result_doc_ids(index[q]) # Truth
  BY DEF Answer
<1>12. ASSUME calm[q], Settled(index[q]), result_doc_ids(index[q]) # Truth
       PROVE  q \in Misled
  <2>1. goal[q] # "full"
    BY <1>1, <1>12 DEF CalmIsExact
  <2> QED
    BY <1>1, <1>12, <2>1 DEF Misled
<1>13. wrong' + Cardinality(Misled') <= Most
  <2>1. wrong + Cardinality(Misled) <= Most
    BY DEF WrongInv
  <2> QED
    BY <1>6, <1>7, <1>11, <1>12, <2>1
<1>14. ASSUME entry # None, result_doc_ids(entry.snap) # Truth
       PROVE  wrong' <= entry'.since /\ Misled' \subseteq Counted'
  <2>1. wrong <= entry.since /\ Misled \subseteq Counted
    BY <1>14 DEF WrongInv
  <2>2. q \in Misled => still_cached(index[q]) /\ goal[q] = "set"
    BY <1>9, <2>1
  <2>3. wrong' <= entry'.since
    BY <1>1, <1>4, <1>6, <1>11, <1>12, <1>14, <2>1, <2>2
  <2> QED
    BY <1>5, <1>14, <2>1, <2>3
<1>15. ASSUME NEW p \in Query, Builds(p)', wrong' > 0 \/ Misled' # {}
       PROVE  BuildsRight(p)'
  <2>1. p # q /\ Builds(p)
    BY <1>3, <1>15, OthersAnswer
  <2>2. wrong > 0 \/ Misled # {}
    BY <1>5, <1>6, <1>11, <1>12, <1>15
  <2> QED
    BY <2>1, <2>2, OthersAnswer DEF WrongInv
<1> QED
  BY <1>4, <1>6, <1>10, <1>13, <1>14, <1>15 DEF WrongInv

LEMMA WrongStep ==
    ASSUME FreshTypeOK, FreshTypeOK', Course, Known, Known', CalmIsExact, WrongInv,
           [FreshNext]_freshVars
    PROVE  WrongInv'
<1>1. CASE UNCHANGED freshVars
  BY <1>1 DEF freshVars, WrongInv, Misled, Counted, BuildsRight, WalkFinds, Validates, Builds,
     still_cached, Truth, Visible, Hidden, Matches
<1>2. CASE Environment
  BY <1>2, ChangeForgives
<1>3. ASSUME NEW q \in Query, Search(q)
      PROVE  WrongInv'
  <2>0. Truth' = Truth /\ index[q] \in IndexSnapshot
    BY <1>3, OthersAnswer DEF FreshTypeOK
  \* Neither misled nor targeted after the step.
  <2>1. CASE wrong' = wrong /\ entry' \in {entry, None}
             /\ (~ Validates(q)' \/ goal'[q] # "set")
    <3>1. q \notin Misled' /\ q \notin Counted'
      BY <2>1 DEF Misled, Counted, Validates, Builds
    <3> QED
      BY <1>3, <2>1, <3>1, GoesOn
  \* As before the step.
  <2>2. CASE UNCHANGED <<wrong, entry, index, calm, goal>> /\ Validates(q)
             /\ stage'[q] \notin {"idle", "begin"}
    <3>1. Validates(q)'
      BY <2>2 DEF Validates, Builds
    <3>2. (q \in Misled' <=> q \in Misled) /\ (q \in Counted' <=> q \in Counted)
      BY <2>0, <2>2, <3>1 DEF Misled, Counted, still_cached
    <3> QED
      BY <1>3, <2>2, <3>2, GoesOn
  <2>3. CASE End(q) /\ wrong' = wrong /\ entry' \in {entry, None}
    BY <2>1, <2>3 DEF End, Go, FreshTypeOK, Validates
  <2>4. CASE Walk(q, "full")
    BY <2>1, <2>4 DEF Walk, FreshTypeOK, history
  <2>5. CASE AcquireSnapshot(q)
    <3>1. ~ Validates(q)' /\ UNCHANGED <<wrong, entry>>
      BY <2>5 DEF AcquireSnapshot, Go, FreshTypeOK, Validates, Builds, Course, history
    <3> QED
      BY <2>1, <3>1
  <2>6. CASE WalkRules(q) \/ \E d \in Dir : WalkDir(q, d)
    <3>1. /\ UNCHANGED <<wrong, entry, index, calm, goal>>
          /\ stage[q] \notin {"idle", "begin"} /\ stage'[q] = "list"
      BY <2>6 DEF WalkRules, WalkDir, Go, FreshTypeOK, history
    <3> QED
      BY <2>1, <2>2, <3>1 DEF Validates, Builds
  <2>7. CASE build_ignore_fingerprint(q) \/ \E d \in Dir : from_directories(q, d)
    <3>1. ~ Validates(q)' /\ UNCHANGED <<wrong, entry>>
      BY <2>7 DEF build_ignore_fingerprint, from_directories, Walked, Go, FreshTypeOK,
         Validates, Builds, Course, history
    <3> QED
      BY <2>1, <3>1
  <2>8. CASE \E f \in File : OpenFile(q, f) \/ ReadFile(q, f)
    <3>1. ~ Validates(q)' /\ UNCHANGED <<wrong, entry>>
      BY <2>8 DEF OpenFile, ReadFile, FreshTypeOK, Validates, Builds, Course, history
    <3> QED
      BY <2>1, <3>1
  <2>9. CASE \E d \in Dir : CheckDirectory(q, d)
    BY <2>9, <2>2, <2>4 DEF CheckDirectory, Course, Validates, Builds, history
  <2>10. CASE CheckIgnore(q)
    <3>1. Validates(q) /\ goal[q] = "set"
      BY <2>10 DEF CheckIgnore, Course, Validates, Builds
    <3>2. CASE Walk(q, "set")
      <4>1. /\ UNCHANGED <<wrong, entry, index, calm>> /\ stage'[q] = "rules"
            /\ goal' = [goal EXCEPT ![q] = "set"]
        BY <3>2 DEF Walk, Go, FreshTypeOK, history
      <4>2. goal' = goal
        BY <3>1, <4>1 DEF FreshTypeOK
      <4> QED
        BY <2>2, <3>1, <4>1, <4>2
    <3>3. CASE Go(q, "results") /\ UNCHANGED <<wrong, entry, index, calm, goal>>
      BY <2>2, <3>1, <3>3 DEF Go, FreshTypeOK
    <3> QED
      BY <2>10, <2>4, <3>2, <3>3 DEF CheckIgnore, history
  <2>11. CASE FileSetMatches(q) \/ FullSetMatches(q)
    BY <2>11, <2>2 DEF FileSetMatches, FullSetMatches, Walked, Go, FreshTypeOK, Validates,
       Builds, history
  <2>12. CASE FileSetChanged(q)
    BY <2>12, <2>4 DEF FileSetChanged
  <2>13. CASE \E f \in File : CheckDocument(q, f)
    BY <2>13, <2>2, <2>3 DEF CheckDocument, Fail, Course, Validates, Builds, history
  <2>14. CASE Fails(q) \/ FullSetChanged(q)
    BY <2>14, <2>3 DEF Fails, FullSetChanged, Fail
  <2> QED
    BY <1>3, <2>5, <2>6, <2>7, <2>8, <2>9, <2>10, <2>11, <2>12, <2>13, <2>14, PublishesAnew,
       BeginsTargeted, AnswersCount DEF Search
<1> QED
  BY <1>1, <1>2, <1>3 DEF FreshNext

LEMMA WrongIsCounted == WrongInv /\ FreshTypeOK => WrongIsBounded
<1> SUFFICES ASSUME WrongInv, FreshTypeOK
             PROVE  WrongIsBounded
  OBVIOUS
<1>1. /\ Cardinality(Misled) \in Nat /\ Most \in Nat
      /\ wrong \in Nat /\ wrong + Cardinality(Misled) <= Most
  <2>1. Misled \in SUBSET Query
    BY DEF Misled
  <2> QED
    BY <2>1, Sizes DEF WrongInv, FreshTypeOK
<1>2. wrong <= Most
  BY <1>1
<1> QED
  BY <1>2 DEF WrongIsBounded, Most

-----------------------------------------------------------------------------
(* Each part is inductive relative to those before it. *)

FreshInv ==
    /\ FreshTypeOK /\ Course /\ StampsPast /\ Known /\ SoundInv
    /\ HadInv /\ WalkInv /\ GuaranteeInv /\ CalmInv /\ WrongInv

LEMMA FreshInvHolds == FreshSpec => []FreshInv
<1>1. FreshInit => FreshInv
  BY FreshTypeInit, CourseInit, StampsInit, KnownInit, SoundInit, HadInit, WalkInit,
     CalmInit, WrongInit DEF FreshInv
<1>2. FreshInv /\ [FreshNext]_freshVars => FreshInv'
  <2> SUFFICES ASSUME FreshInv, [FreshNext]_freshVars
               PROVE  FreshInv'
    OBVIOUS
  <2>1. FreshTypeOK' /\ Course' /\ StampsPast' /\ Known'
    BY FreshTypeStep, CourseStep, StampsStep, KnownStep DEF FreshInv
  <2>2. SoundInv' /\ HadInv' /\ WalkInv' /\ GuaranteeInv'
    BY <2>1, SoundStep, HadStep, WalkStep, GuaranteeStep DEF FreshInv
  <2>3. CalmInv' /\ WrongInv'
    BY <2>1, CalmStep, WrongStep, CalmAnswers DEF FreshInv
  <2> QED
    BY <2>1, <2>2, <2>3 DEF FreshInv
<1> QED
  BY <1>1, <1>2, PTL DEF FreshSpec

\* The state of the validations has its type.
THEOREM FreshTypeOKHolds == FreshSpec => []FreshTypeOK
<1>1. FreshInv => FreshTypeOK
  BY DEF FreshInv
<1> QED
  BY <1>1, FreshInvHolds, PTL

\* A certified file set that passes the checks of stamps and ignore file is the
\* one on disk, however many programs change the tree and queries validate it
\* (search_memory.rs, SnapshotValidation::certifiable_at).
THEOREM CertifiedIsExactHolds == FreshSpec => []CertifiedIsExact
<1>1. FreshInv => CertifiedIsExact
  BY GuaranteeIsExact DEF FreshInv
<1> QED
  BY <1>1, FreshInvHolds, PTL

\* No file is reported that had no matching text while the answer was validated
\* (search_memory.rs, check_result_documents).
THEOREM ReportedWasThereHolds == FreshSpec => []ReportedWasThere
<1>1. FreshInv => ReportedWasThere
  BY HadAnswers DEF FreshInv
<1> QED
  BY <1>1, FreshInvHolds, PTL

\* An answer validated while nothing changed is exact, but for the files that a
\* targeted validation does not look at.
THEOREM CalmIsExactHolds == FreshSpec => []CalmIsExact
<1>1. FreshInv => CalmIsExact
  BY CalmAnswers DEF FreshInv
<1> QED
  BY <1>1, FreshInvHolds, PTL

\* Such a miss is in no more answers than the interval between full validations,
\* and one of each other query (search_memory.rs, full_validation_due).
THEOREM WrongIsBoundedHolds == FreshSpec => []WrongIsBounded
<1>1. FreshInv => WrongIsBounded
  BY WrongIsCounted DEF FreshInv
<1> QED
  BY <1>1, FreshInvHolds, PTL
-----------------------------------------------------------------------------
(* One key of the manager keeps its promise *)

\* There is at most one builder, and what is being built is its snapshot.
LEMMA TheBuilder ==
    /\ Known => /\ \A q \in Query : Builds(q) => BeingBuilt = index[q].gen
                /\ (\A q \in Query : ~ Builds(q)) => BeingBuilt = 0
    /\ Known' => /\ \A q \in Query : Builds(q)' => BeingBuilt' = index'[q].gen
                 /\ (\A q \in Query : ~ Builds(q)') => BeingBuilt' = 0
<1>1. Known => /\ \A q \in Query : Builds(q) => BeingBuilt = index[q].gen
               /\ (\A q \in Query : ~ Builds(q)) => BeingBuilt = 0
  <2> SUFFICES ASSUME Known, NEW q \in Query, Builds(q) PROVE BeingBuilt = index[q].gen
    BY DEF BeingBuilt
  <2>1. \A p \in Query : Builds(p) => p = q
    BY DEF Known
  <2>2. (CHOOSE p \in Query : Builds(p)) = q
    BY <2>1
  <2> QED
    BY <2>2 DEF BeingBuilt
<1>2. Known' => /\ \A q \in Query : Builds(q)' => BeingBuilt' = index'[q].gen
                /\ (\A q \in Query : ~ Builds(q)') => BeingBuilt' = 0
  <2> SUFFICES ASSUME Known', NEW q \in Query, Builds(q)' PROVE BeingBuilt' = index'[q].gen
    BY DEF BeingBuilt
  <2>1. \A p \in Query : Builds(p)' => p = q
    BY DEF Known
  <2>2. (CHOOSE p \in Query : Builds(p)') = q
    BY <2>1
  <2> QED
    BY <2>2 DEF BeingBuilt
<1> QED
  BY <1>1, <1>2

\* The generation of the snapshot that the entry has.
CachedGen == IF entry = None THEN 0 ELSE entry.snap.gen

LEMMA KeyCountsAgree == \A S : KeyPromise!Cardinality(S) = Cardinality(S)
BY DEF KeyPromise!Cardinality, Cardinality

\* The steps of SnapshotCache, in terms of the one key.
LEMMA KeySteps ==
    ASSUME FreshTypeOK
    PROVE  /\ UNCHANGED <<BeingBuilt, CachedGen, calls>> => UNCHANGED KeyPromise!vars
           /\ UNCHANGED <<BeingBuilt, CachedGen>> /\ calls' \in Nat /\ calls' > calls
                => KeyPromise!Next
           /\ UNCHANGED <<BeingBuilt, calls>> /\ CachedGen' = 0 => KeyPromise!Next
           /\ BeingBuilt = 0 /\ CachedGen = 0 /\ calls' = calls + 1
                /\ BeingBuilt' = calls + 1 /\ CachedGen' = 0 => KeyPromise!Next
           /\ BeingBuilt # 0 /\ BeingBuilt' = 0 /\ UNCHANGED <<CachedGen, calls>>
                => KeyPromise!Next
           /\ BeingBuilt # 0 /\ BeingBuilt' = 0 /\ CachedGen' = BeingBuilt /\ UNCHANGED calls
                => KeyPromise!Next
<1> DEFINE B == [k \in {Root} |-> BeingBuilt]
           C == [k \in {Root} |-> IF entry = None THEN 0 ELSE entry.snap.gen]
<1>1. C = [k \in {Root} |-> CachedGen] /\ C' = [k \in {Root} |-> CachedGen']
  BY DEF CachedGen
<1> HIDE DEF C
<1>2. UNCHANGED <<BeingBuilt, CachedGen, calls>> => UNCHANGED KeyPromise!vars
  BY <1>1 DEF KeyPromise!vars, C
<1>3. UNCHANGED <<BeingBuilt, CachedGen>> /\ calls' \in Nat /\ calls' > calls => KeyPromise!Next
  BY <1>1 DEF KeyPromise!Next, KeyPromise!Skip, C
<1>4. UNCHANGED <<BeingBuilt, calls>> /\ CachedGen' = 0 => KeyPromise!Next
  <2> SUFFICES ASSUME UNCHANGED <<BeingBuilt, calls>>, CachedGen' = 0 PROVE KeyPromise!Forget
    BY DEF KeyPromise!Next
  <2>1. C' = KeyPromise!Without(C, {Root})
    BY <1>1 DEF KeyPromise!Without
  <2> QED
    BY <2>1 DEF KeyPromise!Forget, C
<1>5. BeingBuilt = 0 /\ CachedGen = 0 /\ calls' = calls + 1
        /\ BeingBuilt' = calls + 1 /\ CachedGen' = 0 => KeyPromise!Next
  <2> SUFFICES ASSUME BeingBuilt = 0, CachedGen = 0, calls' = calls + 1,
                      BeingBuilt' = calls + 1, CachedGen' = 0
               PROVE  KeyPromise!Reserve(Root)
    BY DEF KeyPromise!Next
  <2> QED
    BY <1>1 DEF KeyPromise!Reserve, C
<1>6. BeingBuilt # 0 /\ BeingBuilt' = 0 /\ UNCHANGED <<CachedGen, calls>> => KeyPromise!Next
  <2> SUFFICES ASSUME BeingBuilt # 0, BeingBuilt' = 0, UNCHANGED <<CachedGen, calls>>
               PROVE  KeyPromise!Abandon(Root)
    BY DEF KeyPromise!Next
  <2> QED
    BY <1>1 DEF KeyPromise!Abandon, C
<1>7. BeingBuilt # 0 /\ BeingBuilt' = 0 /\ CachedGen' = BeingBuilt /\ UNCHANGED calls
        => KeyPromise!Next
  <2> SUFFICES ASSUME BeingBuilt # 0, BeingBuilt' = 0, CachedGen' = BeingBuilt, UNCHANGED calls
               PROVE  KeyPromise!Store(Root)
    BY DEF KeyPromise!Next
  <2>1. C' = KeyPromise!Without([C EXCEPT ![Root] = BeingBuilt], {})
    BY <1>1 DEF KeyPromise!Without
  <2>2. KeyPromise!Cardinality({j \in {Root} : C'[j] # 0}) <= 1
    <3>1. {j \in {Root} : C'[j] # 0} = {Root}
      BY <1>1
    <3> QED
      BY <3>1, FS_Singleton, KeyCountsAgree
  <2> QED
    BY <1>1, <2>1, <2>2 DEF KeyPromise!Store, C
<1> QED
  BY <1>2, <1>3, <1>4, <1>5, <1>6, <1>7

\* A step of the searches is a step of the promise, or none.
LEMMA KeyStep ==
    ASSUME FreshTypeOK, Course, Known, FreshTypeOK', Course', Known', [FreshNext]_freshVars
    PROVE  [KeyPromise!Next]_(KeyPromise!vars)
<1>1. CASE UNCHANGED <<entry, calls, stage, goal, index>>
  <2>1. UNCHANGED <<BeingBuilt, CachedGen, calls>>
    BY <1>1 DEF BeingBuilt, Builds, CachedGen
  <2> QED
    BY <2>1, KeySteps
<1>2. CASE UNCHANGED freshVars \/ Environment
  BY <1>1, <1>2, ProgramsStay DEF freshVars
<1>3. ASSUME NEW q \in Query, Search(q)
      PROVE  [KeyPromise!Next]_(KeyPromise!vars)
  <2>0. /\ calls \in Nat /\ calls' \in Nat /\ \A p \in Query : index[p].gen \in Nat
        /\ entry # None => entry.snap.gen \in 1 .. calls
        /\ \A p \in Query : stage[p] # "idle" => index[p].gen \in 1 .. calls
    BY FreshnessAssumption DEF FreshTypeOK, IndexSnapshot, Known
  <2>1. \A p \in Query : p # q => stage'[p] = stage[p] /\ goal'[p] = goal[p] /\ index'[p] = index[p]
    BY <1>3, OthersStay DEF Same
  \* A query that begins or ends no build.
  <2>2. ASSUME Builds(q)' <=> Builds(q), Builds(q) => index'[q].gen = index[q].gen
        PROVE  UNCHANGED BeingBuilt
    <3>1. \A p \in Query : /\ Builds(p)' <=> Builds(p)
                           /\ Builds(p) => index'[p].gen = index[p].gen
      BY <2>1, <2>2 DEF Builds
    <3>2. CASE \E p \in Query : Builds(p)
      BY <3>1, <3>2, TheBuilder
    <3>3. CASE \A p \in Query : ~ Builds(p)
      BY <3>1, <3>3, TheBuilder
    <3> QED
      BY <3>2, <3>3
  \* A builder that ends.
  <2>3. ASSUME Builds(q), ~ Builds(q)'
        PROVE  BeingBuilt = index[q].gen /\ BeingBuilt # 0 /\ BeingBuilt' = 0
    <3>1. BeingBuilt = index[q].gen
      BY <2>3, TheBuilder
    <3>2. index[q].gen # 0
      BY <2>0, <2>3 DEF Builds
    <3>3. \A p \in Query : ~ Builds(p)'
      BY <2>1, <2>3 DEF Builds, Known
    <3> QED
      BY <3>1, <3>2, <3>3, TheBuilder
  \* A query that goes on: what it builds or validates stays.
  <2>4. CASE UNCHANGED calls /\ UNCHANGED CachedGen /\ (Builds(q)' <=> Builds(q))
             /\ (Builds(q) => index'[q].gen = index[q].gen)
    BY <2>2, <2>4, KeySteps
  \* One that ends with an error.
  <2>5. CASE Fail(q)
    <3>1. ~ Builds(q)' /\ UNCHANGED calls
      BY <2>5 DEF Fail, End, Go, Builds, FreshTypeOK
    <3>2. CASE Builds(q)
      <4>1. UNCHANGED entry
        BY <2>5, <3>2 DEF Fail, Validates
      <4> QED
        BY <2>3, <3>1, <3>2, <4>1, KeySteps DEF CachedGen
    <3>3. CASE ~ Builds(q)
      <4>1. UNCHANGED CachedGen \/ CachedGen' = 0
        BY <2>5 DEF Fail, CachedGen
      <4> QED
        BY <2>2, <3>1, <3>3, <4>1, KeySteps
    <3> QED
      BY <3>2, <3>3
  <2>6. CASE AcquireSnapshot(q)
    <3>1. calls' = calls + 1 /\ UNCHANGED entry /\ stage[q] = "idle" /\ goal'[q] = "build"
      BY <2>6 DEF AcquireSnapshot, Course, FreshTypeOK
    <3>2. CASE entry # None
      <4>1. stage'[q] = "begin"
        BY <2>6, <3>2 DEF AcquireSnapshot, Go, FreshTypeOK
      <4>2. UNCHANGED BeingBuilt
        BY <2>2, <3>1, <4>1 DEF Builds
      <4> QED
        BY <2>0, <3>1, <4>2, KeySteps DEF CachedGen
    <3>3. CASE entry = None
      <4>1. /\ stage'[q] = "rules" /\ index'[q].gen = calls + 1
            /\ \A p \in Query : ~ Builds(p)
        BY <2>6, <3>3 DEF AcquireSnapshot, Go, FreshTypeOK, IndexSnapshot
      <4>2. Builds(q)'
        BY <3>1, <4>1 DEF Builds
      <4>3. BeingBuilt = 0 /\ BeingBuilt' = calls + 1
        BY <4>1, <4>2, TheBuilder
      <4> QED
        BY <3>1, <3>3, <4>3, KeySteps DEF CachedGen
    <3> QED
      BY <3>2, <3>3
  <2>7. CASE publish_snapshot(q)
    <3>1. Builds(q) /\ ~ Builds(q)'
      <4>0. stage[q] = "load" /\ Go(q, "begin")
        BY <2>7 DEF publish_snapshot
      <4>1. stage[q] = "load" /\ stage'[q] = "begin"
        BY <4>0 DEF Go, FreshTypeOK
      <4>2. goal[q] = "build"
        BY <4>1 DEF Course
      <4> QED
        BY <4>1, <4>2 DEF Builds
    <3>2. UNCHANGED calls /\ CachedGen' = index[q].gen
      <4>1. /\ entry' = [snap |-> index[q], certified |-> FALSE, since |-> 0]
            /\ UNCHANGED calls
        BY <2>7 DEF publish_snapshot
      <4>2. index[q] \in IndexSnapshot
        BY DEF FreshTypeOK
      <4>3. entry' \in IndexEntry
        BY <4>1, <4>2 DEF IndexEntry
      <4> QED
        BY <4>1, <4>3, AbsenceAssumption DEF CachedGen
    <3> QED
      BY <2>3, <3>1, <3>2, KeySteps
  <2>8. CASE begin_validation(q)
    <3>1. ~ Builds(q) /\ ~ Builds(q)' /\ UNCHANGED <<calls, entry>>
      <4>1. stage[q] = "begin" /\ goal'[q] # "build"
        BY <2>8 DEF begin_validation, FreshTypeOK
      <4>2. UNCHANGED <<calls, entry>>
        BY <2>8 DEF begin_validation
      <4> QED
        BY <4>1, <4>2 DEF Builds
    <3> QED
      BY <2>4, <3>1 DEF CachedGen
  <2>9. CASE Answer(q)
    <3>1. ~ Builds(q) /\ ~ Builds(q)' /\ UNCHANGED calls
      <4>1. stage[q] = "results" /\ stage'[q] = "idle" /\ UNCHANGED calls
        BY <2>9 DEF Answer, Answers, End, Go, FreshTypeOK
      <4>2. goal[q] # "build"
        BY <4>1 DEF Course
      <4> QED
        BY <4>1, <4>2 DEF Builds
    <3>2. UNCHANGED CachedGen
      BY <2>9, AnsweredEntry DEF Answer, CachedGen
    <3> QED
      BY <2>4, <3>1, <3>2
  <2>10. CASE WalkRules(q) \/ \E d \in Dir : WalkDir(q, d)
    BY <1>1, <2>4, <2>10 DEF WalkRules, WalkDir, Go, Builds, CachedGen, FreshTypeOK
  <2>11. CASE build_ignore_fingerprint(q)
    BY <2>4, <2>11 DEF build_ignore_fingerprint, Walked, Go, Builds, CachedGen, FreshTypeOK,
       IndexSnapshot
  <2>12. CASE \E d \in Dir : from_directories(q, d)
    BY <2>4, <2>12 DEF from_directories, Go, Builds, CachedGen, FreshTypeOK, IndexSnapshot
  <2>13. CASE \E f \in File : OpenFile(q, f) \/ ReadFile(q, f)
    BY <2>4, <2>13 DEF OpenFile, ReadFile, Builds, CachedGen, FreshTypeOK, IndexSnapshot
  \* A validation that goes on.
  <2>14. ASSUME UNCHANGED <<entry, calls, index>>, goal[q] # "build", goal'[q] # "build"
         PROVE  [KeyPromise!Next]_(KeyPromise!vars)
    BY <2>4, <2>14 DEF Builds, CachedGen
  <2>15. ASSUME NEW why \in {"set", "full"}, Walk(q, why), goal[q] # "build"
         PROVE  [KeyPromise!Next]_(KeyPromise!vars)
    BY <2>14, <2>15 DEF Walk, FreshTypeOK
  <2>16. CASE \E d \in Dir : CheckDirectory(q, d)
    BY <2>14, <2>15, <2>16 DEF CheckDirectory, Course
  <2>17. CASE CheckIgnore(q)
    BY <2>14, <2>15, <2>17 DEF CheckIgnore, Course
  <2>18. CASE FileSetChanged(q) \/ FileSetMatches(q) \/ FullSetMatches(q)
    BY <2>14, <2>15, <2>18 DEF FileSetChanged, FileSetMatches, FullSetMatches, Walked
  <2>19. CASE \E f \in File : CheckDocument(q, f)
    BY <2>5, <2>14, <2>19 DEF CheckDocument, Course
  <2>20. CASE Fails(q) \/ FullSetChanged(q)
    BY <2>5, <2>20 DEF Fails, FullSetChanged
  <2> QED
    BY <1>3, <2>6, <2>7, <2>8, <2>9, <2>10, <2>11, <2>12, <2>13, <2>16, <2>17, <2>18, <2>19,
       <2>20 DEF Search
<1> QED
  BY <1>2, <1>3 DEF FreshNext

\* One key implements SnapshotCache, for any queries and tree: at most one build
\* at a time, begun only when nothing is cached, and what is cached is its
\* outcome, however the failures of validations, which drop it, fall between.
THEOREM KeyImplementsSnapshotCacheHolds == FreshSpec => KeyImplementsSnapshotCache
<1>1. FreshInit => KeyPromise!Init
  BY DEF FreshInit, KeyPromise!Init, BeingBuilt, Builds
<1>2. FreshInv /\ FreshInv' /\ [FreshNext]_freshVars => [KeyPromise!Next]_(KeyPromise!vars)
  BY KeyStep DEF FreshInv
<1> QED
  BY <1>1, <1>2, FreshInvHolds, PTL DEF FreshSpec, KeyImplementsSnapshotCache, KeyPromise!Spec
=============================================================================

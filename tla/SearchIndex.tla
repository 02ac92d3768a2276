----------------------------- MODULE SearchIndex -----------------------------
(***************************************************************************)
(* The shared index cache behind the in-memory search backend              *)
(* (tools-mcp-local/src/tools/handlers/search_memory.rs).                  *)
(*                                                                         *)
(* One process-wide IndexManager, guarded by one mutex, caches an index    *)
(* snapshot per key.  A request that finds no snapshot reserves the build  *)
(* (state "building" and a per-key condition variable), builds without the *)
(* lock, publishes, and notifies the requests that waited meanwhile; a     *)
(* request that got a snapshot verifies its matches against it, then       *)
(* validates the snapshot against the disk, again without the lock.        *)
(*                                                                         *)
(* Every action that touches the manager is one critical section of the    *)
(* mutex.  What is read outside of it (the tree being indexed, the clock,  *)
(* the request's cancellation token) appears as the choice between the     *)
(* outcomes of the unlocked step.                                          *)
(***************************************************************************)
EXTENDS Naturals, Sequences, FiniteSets, FiniteSetsExt, SequencesExt, AccessOrder

CONSTANTS
    Querier,        \* threads serving Search requests (tokio workers)
    Warmer,         \* the warm-cache thread: gets snapshots, asks no query
    Key,            \* index keys: root, hidden, follow, no_ignore, globs
    MaxEntries,     \* TOOLS_SEARCH_INDEX_CACHE_MAX_ENTRIES
    MaxBytes,       \* TOOLS_SEARCH_INDEX_CACHE_MAX_BYTES, 0 = unbounded
    SnapshotBytes,  \* the sizes a built snapshot may have
    Interval,       \* TARGETED_FRESHNESS_FULL_SCAN_INTERVAL_QUERIES
    RequestBudget   \* bound: requests each thread makes

Thread == Querier \cup Warmer

ASSUME SearchIndexAssumption ==
    /\ Querier \cap Warmer = {} /\ IsFiniteSet(Querier)
    /\ MaxEntries \in Nat \ {0}     \* index_cache_max_entries: .max(1)
    /\ MaxBytes \in Nat
    /\ SnapshotBytes \subseteq Nat
    /\ Interval \in Nat \ {0}
    /\ RequestBudget \in Nat

VARIABLES
    \* the IndexManager, guarded by its mutex
    entries,        \* a key absent from the map is a cold entry here
    accessOrder,    \* least recently used key first
    nextGen,        \* next_generation
    inProgress,     \* the condvar of the key's build, 0 when there is none
    \* the locals of each thread's request
    pc, key,
    snap,           \* the Arc<IndexSnapshot> it holds
    gen,            \* generation of its build reservation, 0 when none
    condvar,        \* the condvar it waits on, or took and has to notify
    deduped,        \* build_deduped: it has waited for another's build
    admission,      \* ValidationAdmission
    outcome,        \* "none" while running, then "ok" or the error type
    expired,        \* its deadline has passed
    cancelled,      \* its cancellation token is set
    budget

manager == <<entries, accessOrder, nextGen, inProgress>>
request == <<key, budget>>
flags == <<expired, cancelled>>
vars == <<entries, accessOrder, nextGen, inProgress, pc, key, snap, gen,
          condvar, deduped, admission, outcome, expired, cancelled, budget>>

-----------------------------------------------------------------------------
(* Data *)

State == {"cold", "building", "ready", "refreshing", "unavailable"}

\* MemoryError.error_type: "fault" is any error of the scope itself (limits,
\* I/O, encoding), "changed" is file_changed_during_verification.
Error == {"timeout", "cancelled", "fault", "changed"}
\* Mutant: a cancelled build counts as a failure of the scope.
Mut_only_timeout(e) == e = "timeout"
is_per_request_failure(e) == e \in {"timeout", "cancelled"}

\* Snapshots are told apart by their generation (Arc::ptr_eq: every build has
\* a generation of its own).
Snapshot == [gen : Nat, bytes : Nat]
NoSnapshot == [gen |-> 0, bytes |-> 0]

Entry == [state : State, snap : Snapshot, gen : Nat,
          err : Error \cup {"none"}, queries : Nat, certified : BOOLEAN]
ColdEntry == [state |-> "cold", snap |-> NoSnapshot, gen |-> 0,
              err |-> "none", queries |-> 0, certified |-> FALSE]
BuildingEntry(g) == [ColdEntry EXCEPT !.state = "building", !.gen = g]
PublishedEntry(s) ==
    [ColdEntry EXCEPT !.state = "ready", !.snap = s, !.gen = s.gen]
Unavailable(e, g) == [ColdEntry EXCEPT !.state = "unavailable",
                                       !.gen = g, !.err = e]

Admission == [full : BOOLEAN, certified : BOOLEAN]
NoAdmission == [full |-> FALSE, certified |-> FALSE]

Usable(e) == e.state \in {"ready", "refreshing"} /\ e.snap # NoSnapshot
ReadyKeys(E) == {k \in Key : Usable(E[k])}

-----------------------------------------------------------------------------
(* Capacity: IndexManager::evict_to_capacity and what it calls *)

ready_cache_bytes(E) ==
    MapThenSumSet(LAMBDA k : E[k].snap.bytes, ReadyKeys(E))

exceeds_cache_limits(E) ==
    \/ Cardinality(ReadyKeys(E)) > MaxEntries
    \/ MaxBytes # 0 /\ ready_cache_bytes(E) > MaxBytes

\* Ready keys missing from the order are appended in HashMap order; the
\* property EvictionIsLRU shows there never are any.
reconcile_access_order(E, order) ==
    LET kept == retain(order, ReadyKeys(E))
    IN  kept \o SetToSeq(ReadyKeys(E) \ ToSet(kept))

\* Mutant: the snapshot of an evicted entry is kept alive.
Mut_evict_state_only(E, S) ==
    [k \in Key |-> IF k \in S /\ Usable(E[k])
                   THEN [E[k] EXCEPT !.state = "cold"] ELSE E[k]]
Evict(E, S) ==
    [k \in Key |-> IF k \in S /\ Usable(E[k]) THEN ColdEntry ELSE E[k]]

\* Pops the shortest prefix of the order whose removal restores the limits.
evict_to_capacity(E, order) ==
    LET lru == reconcile_access_order(E, order)
        After(n) == Evict(E, {lru[i] : i \in 1..n})
        enough == {n \in 0..Len(lru) :
                      ~exceeds_cache_limits(After(n)) \/ n = Len(lru)}
        pops == CHOOSE n \in enough : \A m \in enough : n <= m
    IN  IF exceeds_cache_limits(E)
        THEN [entries |-> After(pops), order |-> SubSeq(lru, pops + 1, Len(lru))]
        ELSE [entries |-> E, order |-> order]

\* Every use of a snapshot refreshes its place in the order, then evicts.
UseSnapshot(E, k) ==
    LET kept == evict_to_capacity(E, touch(accessOrder, k))
    IN  entries' = kept.entries /\ accessOrder' = kept.order

-----------------------------------------------------------------------------
(* Control points of a request                                             *)

Goto(t, to) == pc' = [pc EXCEPT ![t] = to]

\* The request returns: its locals are gone, its outcome is known.
Return(t, o) ==
    /\ Goto(t, "idle")
    /\ outcome' = [outcome EXCEPT ![t] = o]
    /\ snap' = [snap EXCEPT ![t] = NoSnapshot]
    /\ gen' = [gen EXCEPT ![t] = 0]
    /\ condvar' = [condvar EXCEPT ![t] = 0]
    /\ deduped' = [deduped EXCEPT ![t] = FALSE]
    /\ admission' = [admission EXCEPT ![t] = NoAdmission]
    /\ expired' = [expired EXCEPT ![t] = FALSE]
    /\ cancelled' = [cancelled EXCEPT ![t] = FALSE]

\* What a failing unlocked step of t may fail with, besides its own errors.
PerRequestErrors(t) ==
    (IF expired[t] THEN {"timeout"} ELSE {})
        \cup (IF cancelled[t] THEN {"cancelled"} ELSE {})

Start(t, k) ==
    /\ pc[t] = "idle"
    /\ budget[t] > 0
    /\ budget' = [budget EXCEPT ![t] = @ - 1]
    /\ key' = [key EXCEPT ![t] = k]
    /\ outcome' = [outcome EXCEPT ![t] = "none"]
    /\ Goto(t, "acquire")
    /\ UNCHANGED <<manager, flags, snap, gen, condvar, deduped, admission>>

\* Environment: the clock passes t's deadline, the client cancels t's call.
Expire(t) ==
    /\ pc[t] # "idle" /\ ~expired[t]
    /\ expired' = [expired EXCEPT ![t] = TRUE]
    /\ UNCHANGED <<manager, request, pc, snap, gen, condvar, deduped, admission,
                   outcome, cancelled>>

Cancel(t) ==
    /\ t \in Querier /\ pc[t] # "idle" /\ ~cancelled[t]
    /\ cancelled' = [cancelled EXCEPT ![t] = TRUE]
    /\ UNCHANGED <<manager, request, pc, snap, gen, condvar, deduped, admission,
                   outcome, expired>>

-----------------------------------------------------------------------------
(* acquire_or_reserve_snapshot_build: one turn of its loop under the lock  *)

Current(t) == entries[key[t]]

\* A usable snapshot is handed out.  The warmer is done with it; a query that
\* needs UTF-8 scope may still be refused by ensure_snapshot_supports_query,
\* which VerifyFails includes.
AcquireCached(t) ==
    /\ pc[t] = "acquire"
    /\ Usable(Current(t))
    /\ UseSnapshot(entries, key[t])
    /\ IF t \in Warmer
       THEN Return(t, "ok")
       ELSE /\ Goto(t, "verify")
            /\ snap' = [snap EXCEPT ![t] = Current(t).snap]
            /\ deduped' = [deduped EXCEPT ![t] = FALSE]
            /\ UNCHANGED <<flags, gen, condvar, admission, outcome>>
    /\ UNCHANGED <<nextGen, inProgress, request>>

AcquireTimesOut(t) ==
    /\ pc[t] = "acquire"
    /\ Current(t).state = "building"
    /\ expired[t]
    /\ Return(t, "timeout")
    /\ UNCHANGED <<manager, request>>

\* wait_for_build: sleeps on the build's condvar, or, should there be none,
\* goes round the loop again.
AcquireWaits(t) ==
    /\ pc[t] = "acquire"
    /\ Current(t).state = "building"
    /\ ~expired[t]
    /\ condvar' = [condvar EXCEPT ![t] = inProgress[key[t]]]
    /\ deduped' = [deduped EXCEPT ![t] = TRUE]
    /\ Goto(t, IF inProgress[key[t]] = 0 THEN "acquire" ELSE "wait")
    /\ UNCHANGED <<manager, request, flags, snap, gen, admission, outcome>>

\* A request that waited for a build that made the key unavailable returns
\* that error instead of building again.
InheritsError(t) ==
    deduped[t] /\ Current(t).state = "unavailable" /\ Current(t).err # "none"

AcquireInherits(t) ==
    /\ pc[t] = "acquire"
    /\ InheritsError(t)
    /\ Return(t, Current(t).err)
    /\ UNCHANGED <<manager, request>>

\* IndexManager::begin_build and IndexEntry::begin_build
begin_build(k) ==
    /\ entries' = [entries EXCEPT ![k] = BuildingEntry(nextGen)]
    /\ nextGen' = nextGen + 1
    /\ inProgress' = [inProgress EXCEPT ![k] = IF @ = 0 THEN nextGen ELSE @]

\* Mutant: a build already in progress is not noticed.
Mut_build_anyway(t) == ~Usable(Current(t)) /\ ~InheritsError(t)
MayBuild(t) ==
    /\ ~Usable(Current(t))
    /\ Current(t).state # "building"
    /\ ~InheritsError(t)

AcquireReserves(t) ==
    /\ pc[t] = "acquire"
    /\ MayBuild(t)
    /\ begin_build(key[t])
    /\ gen' = [gen EXCEPT ![t] = nextGen]
    /\ deduped' = [deduped EXCEPT ![t] = FALSE]
    /\ Goto(t, "build")
    /\ UNCHANGED <<accessOrder, request, flags, snap, condvar, admission,
                   outcome>>

\* A waiter leaves the condvar unnotified: at its deadline, or spuriously
\* (std::sync::Condvar allows it).
WakeAtDeadline(t) ==
    /\ pc[t] = "wait" /\ expired[t]
    /\ Goto(t, "acquire")
    /\ condvar' = [condvar EXCEPT ![t] = 0]
    /\ UNCHANGED <<manager, request, flags, snap, gen, deduped, admission, outcome>>

WakeSpuriously(t) ==
    /\ pc[t] = "wait" /\ ~expired[t]
    /\ Goto(t, "acquire")
    /\ condvar' = [condvar EXCEPT ![t] = 0]
    /\ UNCHANGED <<manager, request, flags, snap, gen, deduped, admission, outcome>>

-----------------------------------------------------------------------------
(* get_or_build_snapshot_with_selector: the reserved build *)

BuildSucceeds(t) ==
    /\ pc[t] = "build"
    /\ \E b \in SnapshotBytes :
           snap' = [snap EXCEPT ![t] = [gen |-> gen[t], bytes |-> b]]
    /\ Goto(t, "publish")
    /\ UNCHANGED <<manager, request, flags, gen, condvar, deduped, admission, outcome>>

BuildFails(t) ==
    /\ pc[t] = "build"
    /\ \E e \in {"fault"} \cup PerRequestErrors(t) :
           outcome' = [outcome EXCEPT ![t] = e]
    /\ Goto(t, "buildfailed")
    /\ UNCHANGED <<manager, request, flags, snap, gen, condvar, deduped, admission>>

\* Mutant: the condvar is removed and forgotten.
Mut_drop_condvar(t) ==
    /\ inProgress' = [inProgress EXCEPT ![key[t]] = 0]
    /\ UNCHANGED condvar
TakeCondvar(t) ==
    /\ condvar' = [condvar EXCEPT ![t] = inProgress[key[t]]]
    /\ inProgress' = [inProgress EXCEPT ![key[t]] = 0]

\* publish_snapshot_if_absent: a snapshot already there wins.
Publish(t) ==
    /\ pc[t] = "publish"
    /\ IF Usable(Current(t))
       THEN /\ UseSnapshot(entries, key[t])
            /\ snap' = [snap EXCEPT ![t] = Current(t).snap]
       ELSE /\ UseSnapshot([entries EXCEPT ![key[t]] = PublishedEntry(snap[t])],
                           key[t])
            /\ UNCHANGED snap
    /\ TakeCondvar(t)
    /\ Goto(t, "notify")
    /\ UNCHANGED <<nextGen, request, flags, gen, deduped, admission, outcome>>

\* IndexManager::record_build_failure: a timeout or a cancellation is the
\* builder's own and leaves the key cold; any other error is kept.
record_build_failure(e, g, err) ==
    IF e.state = "building" /\ e.gen = g
    THEN IF is_per_request_failure(err) THEN ColdEntry ELSE Unavailable(err, g)
    ELSE e

RecordBuildFailure(t) ==
    /\ pc[t] = "buildfailed"
    /\ entries' = [entries EXCEPT
                      ![key[t]] = record_build_failure(@, gen[t], outcome[t])]
    /\ TakeCondvar(t)
    /\ Goto(t, "notify")
    /\ UNCHANGED <<accessOrder, nextGen, request, flags, snap, gen, deduped,
                   admission, outcome>>

\* Mutant: notify_one.
Mut_notify_one(c) ==
    LET all == {u \in Thread : pc[u] = "wait" /\ condvar[u] = c}
    IN  IF all = {} THEN {} ELSE {CHOOSE u \in all : TRUE}
\* condvar.notify_all(), after the mutex is released
Waiters(c) == {u \in Thread : pc[u] = "wait" /\ condvar[u] = c}

NotifyAll(t) ==
    /\ pc[t] = "notify"
    /\ LET woken == Waiters(condvar[t])
           answering == outcome[t] = "none" /\ t \in Querier
       IN  /\ pc' = [u \in Thread |->
                       IF u = t THEN IF answering THEN "verify" ELSE "idle"
                       ELSE IF u \in woken THEN "acquire" ELSE pc[u]]
           /\ condvar' = [u \in Thread |->
                            IF u = t \/ u \in woken THEN 0 ELSE condvar[u]]
           /\ gen' = [gen EXCEPT ![t] = 0]
           /\ snap' = [snap EXCEPT ![t] = IF answering THEN @ ELSE NoSnapshot]
           /\ expired' = [expired EXCEPT ![t] = answering /\ @]
           /\ cancelled' = [cancelled EXCEPT ![t] = answering /\ @]
           /\ outcome' = [outcome EXCEPT
                            ![t] = IF @ = "none" /\ t \in Warmer THEN "ok" ELSE @]
    /\ UNCHANGED <<manager, request, deduped, admission>>

-----------------------------------------------------------------------------
(* handle_memory_search: verification and freshness validation             *)

\* Candidate selection and verify_and_render read the snapshot only.
VerifySucceeds(t) ==
    /\ pc[t] = "verify"
    /\ Goto(t, "admit")
    /\ UNCHANGED <<manager, request, flags, snap, gen, condvar, deduped, admission,
                   outcome>>

VerifyFails(t) ==
    /\ pc[t] = "verify"
    /\ \E e \in {"fault"} \cup PerRequestErrors(t) : Return(t, e)
    /\ UNCHANGED <<manager, request>>

\* Mutants: the outcome of a validation is recorded for whatever the entry
\* holds now; the interval is off by one.
Mut_any_snapshot(t) == TRUE
Mut_due_after(e) == e.queries > Interval
current_snapshot_is(t) == Current(t).snap = snap[t]
full_validation_due(e) == e.queries >= Interval

mark_refreshing(e) == IF Usable(e) THEN [e EXCEPT !.state = "refreshing"] ELSE e

\* IndexManager::begin_validation: a snapshot that is not current any more is
\* always validated in full.
BeginValidation(t) ==
    /\ pc[t] = "admit"
    /\ IF current_snapshot_is(t)
       THEN /\ admission' = [admission EXCEPT
                 ![t] = [full |-> full_validation_due(Current(t)),
                         certified |-> Current(t).certified]]
            /\ entries' = [entries EXCEPT ![key[t]] = mark_refreshing(@)]
       ELSE /\ admission' = [admission EXCEPT
                 ![t] = [full |-> TRUE, certified |-> FALSE]]
            /\ UNCHANGED entries
    /\ Goto(t, "validate")
    /\ UNCHANGED <<accessOrder, nextGen, inProgress, request, flags, snap, gen,
                   condvar, deduped, outcome>>

\* IndexEntry::mark_ready_after_validation
mark_ready_after_validation(e, full, newlyCertified) ==
    [e EXCEPT !.state = "ready",
              !.certified = IF newlyCertified THEN TRUE ELSE @,
              !.queries = IF full THEN 0 ELSE @ + 1]

\* SnapshotValidation::validate found nothing changed, and complete_validation
\* records it.  A targeted check that meets a changed directory or ignore rule
\* goes on to a full one; only a targeted one certifies.  Rendering the answer
\* reads nothing shared, and may still run into the deadline.
ValidationSucceeds(t) ==
    /\ pc[t] = "validate"
    /\ \E full, newlyCertified \in BOOLEAN :
          /\ admission[t].full => full
          /\ newlyCertified => ~full /\ ~admission[t].certified
          /\ entries' = IF current_snapshot_is(t)
                        THEN [entries EXCEPT ![key[t]] =
                                mark_ready_after_validation(@, full, newlyCertified)]
                        ELSE entries
    /\ \E o \in {"ok"} \cup (IF expired[t] THEN {"timeout"} ELSE {}) : Return(t, o)
    /\ UNCHANGED <<accessOrder, nextGen, inProgress, request>>

\* It found a change, or was interrupted: record_validation_failure drops the
\* snapshot, if it is still the current one, and keeps the error.
ValidationFails(t) ==
    /\ pc[t] = "validate"
    /\ \E e \in {"changed", "fault"} \cup PerRequestErrors(t) :
          /\ IF current_snapshot_is(t)
             THEN /\ entries' = [entries EXCEPT
                                   ![key[t]] = Unavailable(e, @.gen)]
                  /\ accessOrder' = retain(accessOrder, ToSet(accessOrder) \ {key[t]})
             ELSE UNCHANGED <<entries, accessOrder>>
          /\ Return(t, e)
    /\ UNCHANGED <<nextGen, inProgress, request>>

-----------------------------------------------------------------------------

Init ==
    /\ entries = [k \in Key |-> ColdEntry]
    /\ accessOrder = <<>>
    /\ nextGen = 1
    /\ inProgress = [k \in Key |-> 0]
    /\ pc = [t \in Thread |-> "idle"]
    /\ key \in [Thread -> Key]
    /\ snap = [t \in Thread |-> NoSnapshot]
    /\ gen = [t \in Thread |-> 0]
    /\ condvar = [t \in Thread |-> 0]
    /\ deduped = [t \in Thread |-> FALSE]
    /\ admission = [t \in Thread |-> NoAdmission]
    /\ outcome = [t \in Thread |-> "none"]
    /\ expired = [t \in Thread |-> FALSE]
    /\ cancelled = [t \in Thread |-> FALSE]
    /\ budget = [t \in Thread |-> RequestBudget]

\* What t's own code does next; the scheduler runs a runnable thread.
Step(t) ==
    \/ AcquireCached(t)
    \/ AcquireTimesOut(t)
    \/ AcquireWaits(t)
    \/ AcquireInherits(t)
    \/ AcquireReserves(t)
    \/ WakeAtDeadline(t)
    \/ BuildSucceeds(t)
    \/ BuildFails(t)
    \/ Publish(t)
    \/ RecordBuildFailure(t)
    \/ NotifyAll(t)
    \/ VerifySucceeds(t)
    \/ VerifyFails(t)
    \/ BeginValidation(t)
    \/ ValidationSucceeds(t)
    \/ ValidationFails(t)

\* Every request has been served.
Quiet ==
    /\ \A t \in Thread : pc[t] = "idle" /\ budget[t] = 0
    /\ UNCHANGED vars

Next ==
    \/ Quiet
    \/ \E t \in Thread :
           \/ \E k \in Key : Start(t, k)
           \/ Expire(t)
           \/ Cancel(t)
           \/ WakeSpuriously(t)
           \/ Step(t)

Spec == Init /\ [][Next]_vars

FairSpec == Spec /\ \A t \in Thread : WF_vars(Step(t))

-----------------------------------------------------------------------------
(* Properties *)

Pc == {"idle", "acquire", "wait", "build", "publish", "buildfailed", "notify",
       "verify", "admit", "validate"}

TypeOK ==
    /\ entries \in [Key -> Entry]
    /\ nextGen \in Nat \ {0}
    /\ inProgress \in [Key -> Nat]
    /\ pc \in [Thread -> Pc]
    /\ key \in [Thread -> Key]
    /\ snap \in [Thread -> Snapshot]
    /\ gen \in [Thread -> Nat]
    /\ condvar \in [Thread -> Nat]
    /\ deduped \in [Thread -> BOOLEAN]
    /\ admission \in [Thread -> Admission]
    /\ outcome \in [Thread -> Error \cup {"none", "ok"}]
    /\ expired \in [Thread -> BOOLEAN]
    /\ cancelled \in [Thread -> BOOLEAN]
    /\ budget \in [Thread -> Nat]

Building(t, k) == key[t] = k /\ pc[t] \in {"build", "publish", "buildfailed"}

\* A key is marked as building exactly while one request builds it: that
\* request holds the reservation the entry was marked with, and the key has a
\* condvar for the others to wait on (acquire_or_reserve_snapshot_build).
SingleFlight ==
    \A k \in Key :
        IF entries[k].state = "building"
        THEN /\ inProgress[k] # 0
             /\ \E t \in Thread :
                   /\ Building(t, k) /\ gen[t] = entries[k].gen
                   /\ \A u \in Thread : Building(u, k) => u = t
        ELSE /\ inProgress[k] = 0
             /\ \A t \in Thread : ~Building(t, k)

\* A snapshot is where it is needed and nowhere else: an entry that is not
\* usable keeps none alive, a request about to publish, verify or validate
\* holds one, and a request never sleeps without a condvar to be woken by.
SnapshotAccounting ==
    /\ \A k \in Key : entries[k].state \notin {"ready", "refreshing"} =>
                       entries[k].snap = NoSnapshot
    /\ \A t \in Thread :
          /\ \/ pc[t] \in {"publish", "verify", "admit", "validate"}
             \/ pc[t] = "notify" /\ outcome[t] = "none"
             => snap[t] # NoSnapshot
          /\ pc[t] = "build" => gen[t] # 0
          /\ pc[t] = "buildfailed" => outcome[t] \in Error
          /\ pc[t] = "wait" => condvar[t] # 0

\* No wakeup is lost: whoever sleeps in wait_for_build sleeps on the condvar
\* of a build still running, or on one whose builder is about to notify it.
NoLostWakeup ==
    \A t \in Thread : pc[t] = "wait" =>
        \/ inProgress[key[t]] = condvar[t]
        \/ \E u \in Thread : pc[u] = "notify" /\ condvar[u] = condvar[t]

\* The inductive invariant behind the two: a validation's verdict can only
\* reach an entry that still holds the validated snapshot, and so can never
\* disturb the build of the key.
IInv == TypeOK /\ SnapshotAccounting /\ SingleFlight /\ NoLostWakeup

\* Every snapshot in the cache has exactly one place in the access order, so
\* the order in which reconcile_access_order appends the missing ones (that
\* of a HashMap) never decides what is evicted.
ReadyIsOrdered ==
    /\ accessOrder \in Seq(Key)
    /\ ReadyKeys(entries) \subseteq ToSet(accessOrder)
    /\ IsInjective(accessOrder)

\* How long a change outside the result files can go unnoticed: between two
\* full validations of a snapshot at most Interval targeted ones are admitted,
\* plus those that other requests had started when the last was admitted
\* (TARGETED_FRESHNESS_FULL_SCAN_INTERVAL_QUERIES).
Targeted(k) ==
    {t \in Thread : /\ pc[t] = "validate" /\ ~admission[t].full
                    /\ key[t] = k /\ snap[t] = entries[k].snap}
TargetedRunIsBounded ==
    \A k \in Key : Usable(entries[k]) =>
        entries[k].queries + Cardinality(Targeted(k))
            <= Interval + Cardinality(Querier) - 1

\* A build given up because its own request timed out or was cancelled leaves
\* no error behind for the requests that waited for it (record_build_failure).
BuildErrorsStayPrivate ==
    [][\A k \in Key :
          entries[k].state = "building" /\ entries'[k].state = "unavailable"
              => entries'[k].err \notin {"timeout", "cancelled"}]_vars

\* Eviction is least recently used and restores both limits: the order is
\* complete, and the snapshot just published is dropped only when every other
\* one has been, because it alone exceeds the limits.
EvictionIsLRU ==
    /\ [](ReadyIsOrdered /\ ~exceeds_cache_limits(entries))
    /\ [][\A t \in Thread : pc[t] = "publish" /\ pc'[t] = "notify" =>
             Usable(entries'[key[t]]) \/ ReadyKeys(entries') = {}]_vars

\* Every request returns, whatever the others do, whether or not its deadline
\* ever passes.
EveryRequestEnds == \A t \in Thread : pc[t] # "idle" ~> pc[t] = "idle"

\* What the manager promises its callers.
Promise == INSTANCE SnapshotCache WITH
    building <- [k \in Key |-> IF entries[k].state = "building"
                               THEN entries[k].gen ELSE 0],
    cached <- [k \in Key |-> IF Usable(entries[k]) THEN entries[k].snap.gen ELSE 0],
    latest <- nextGen - 1
ImplementsSnapshotCache == Promise!Spec

\* A timeout or a cancellation is reported to the request it happened to, and
\* to no other (docs/tools/search.md: query_timeout is the per-call deadline,
\* cancelled the call's own token).
PerRequestErrorsAreOwn ==
    [][\A t \in Thread : outcome[t] = "none" =>
          /\ outcome'[t] = "timeout" => expired[t]
          /\ outcome'[t] = "cancelled" => cancelled[t]]_vars
=============================================================================

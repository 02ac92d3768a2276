------------------------------ MODULE Freshness ------------------------------
(***************************************************************************)
(* Are the answers of the memory search those of the files on disk?        *)
(* (tools-mcp-local/src/tools/handlers/search_memory.rs, SnapshotValidation *)
(* and build_index_with_selector.)  An answer is computed from a snapshot  *)
(* in memory and then validated: directory stamps, ignore file, file set   *)
(* and result files are looked at one after the other, while editors go on *)
(* changing them.  A file set that was once found unchanged under settled  *)
(* stamps is certified and not walked again; every so many queries all is  *)
(* looked at.                                                              *)
(*                                                                         *)
(* One key of the index manager, whose entry is what SearchIndex says it   *)
(* is: built by one query at a time, dropped when a validation fails.  The *)
(* tree has fixed directories, one ignore file, in Root, and files that    *)
(* all have the same length.  Time is in units of the granularity of file  *)
(* times.  The names differ from those of SearchIndex, so that one module  *)
(* can hold the proofs about both.                                         *)
(***************************************************************************)
EXTENDS Naturals, FiniteSets

CONSTANTS
    Query, Dir, File,
    Home,           \* the directory of each file
    Root,           \* the directory of the ignore file
    Text,
    Matching,       \* the texts the queries look for
    Rules,          \* what the ignore file may hide
    Slack,          \* SCOPE_STAMP_RACY_SLACK
    FullScanInterval,       \* TARGETED_FRESHNESS_FULL_SCAN_INTERVAL_QUERIES
    MaxTime, MaxEdits, MaxCalls,    \* bounds of the clock, edits and queries
    None

Time == 0 .. MaxTime

ASSUME FreshnessAssumption ==
    /\ Home \in [File -> Dir] /\ Root \in Dir
    /\ Matching \subseteq Text /\ Rules \subseteq SUBSET File
    /\ Slack \in Nat \ {0}  \* no shorter than the granularity of file times
    /\ FullScanInterval \in Nat /\ MaxTime \in Nat
    /\ MaxEdits \in Nat /\ MaxCalls \in Nat
    /\ None \notin Text /\ None \notin Nat
    /\ IsFiniteSet(Query) /\ Query # {}

\* A file or ignore file on disk; a Document or IgnoreControlStamp.  History: it
\* is young if its stamp was read in the unit of time that the stamp names.
OnDisk == [body : Text, stamp : Time]
Control == [hides : Rules, stamp : Time]
Document == [body : Text, stamp : Time, young : BOOLEAN]
ControlStamp == [stamp : Time, young : BOOLEAN]

\* IndexSnapshot: documents, scope_fingerprint and ignore_fingerprint.
IndexSnapshot == [gen : Nat, docs : [File -> Document \cup {None}],
                  dirs : [Dir -> Time], control : ControlStamp \cup {None}]

NoIndex == [gen |-> 0, docs |-> [f \in File |-> None],
            dirs |-> [d \in Dir |-> 0], control |-> None]

VARIABLES
    now, edits,
    disk, mtime, control,   \* the files, the directories, the ignore file
    entry,                  \* [snap, certified, since], or None
    calls,                  \* how many queries there have been
    stage,
    goal,                   \* what a walk is for: "build", "set" or "full"
    index,                  \* the snapshot built or answered from
    left,                   \* what the present loop has still to visit
    found,                  \* what the walk has found
    floor,                  \* stamp_observation_floor
    certified,              \* ValidationAdmission::file_set_certified
    newly,                  \* file_set_newly_certified
    \* History.
    calm,                   \* nothing changed since the validation began
    had,                    \* the results that matched at some time since then
    wrong                   \* wrong answers since the last change, or the last
                            \* full validation of the entry

files == <<now, edits, disk, mtime, control>>
locals == <<goal, index, left, found, floor, certified, newly>>
history == <<calm, had, wrong>>
freshVars == <<now, edits, disk, mtime, control, entry, calls, stage, goal,
               index, left, found, floor, certified, newly, calm, had, wrong>>

-----------------------------------------------------------------------------
(* The tree *)

Hidden(c) == IF c = None THEN {} ELSE c.hides
Visible == {f \in File : disk[f] # None} \ Hidden(control)
Matches(f) == disk[f] # None /\ disk[f].body \in Matching

\* What grep would answer.
Truth == {f \in Visible : Matches(f)}

Indexed(s) == {f \in File : s.docs[f] # None}

\* verify_and_render: the documents with events.
result_doc_ids(s) == {f \in Indexed(s) : s.docs[f].body \in Matching}

Builds(q) == goal[q] = "build" /\ stage[q] \notin {"idle", "begin"}
Validates(q) == stage[q] \notin {"idle", "begin"} /\ ~Builds(q)

\* A change of the tree, seen by the queries that are validating.
Change ==
    /\ edits < MaxEdits /\ edits' = edits + 1
    /\ calm' = [q \in Query |-> FALSE]
    /\ had' = [q \in Query |->
                 IF Validates(q)
                 THEN had[q] \cup {f \in result_doc_ids(index[q]) : Matches(f)'}
                 ELSE had[q]]
    /\ wrong' = 0
    /\ UNCHANGED <<now, entry, calls, stage, locals>>

\* A file is written in place, or replaced: then its directory changes, too.
WriteFile(f) ==
    /\ disk[f] # None
    /\ \E t \in Text : disk' = [disk EXCEPT ![f] = [body |-> t, stamp |-> now]]
    /\ \/ UNCHANGED mtime
       \/ mtime' = [mtime EXCEPT ![Home[f]] = now]
    /\ UNCHANGED control
    /\ Change

CreateOrRemove(f) ==
    /\ IF disk[f] = None
         THEN \E t \in Text :
                disk' = [disk EXCEPT ![f] = [body |-> t, stamp |-> now]]
         ELSE disk' = [disk EXCEPT ![f] = None]
    /\ mtime' = [mtime EXCEPT ![Home[f]] = now]
    /\ UNCHANGED control
    /\ Change

ChangeRules(r) ==
    /\ control' = IF r = None THEN None ELSE [hides |-> r, stamp |-> now]
    /\ control' # control
    /\ mtime' = IF None \in {control, r} THEN [mtime EXCEPT ![Root] = now]
                ELSE mtime
    /\ UNCHANGED disk
    /\ Change

Tick ==
    /\ now < MaxTime /\ now' = now + 1
    /\ UNCHANGED <<edits, disk, mtime, control, entry, calls, stage, locals,
                   history>>

-----------------------------------------------------------------------------
(* The index manager: the parts of SearchIndex that a validation depends on *)

Go(q, s) == stage' = [stage EXCEPT ![q] = s]

End(q) ==
    /\ Go(q, "idle")
    /\ goal' = [goal EXCEPT ![q] = "build"]
    /\ index' = [index EXCEPT ![q] = NoIndex]
    /\ left' = [left EXCEPT ![q] = {}]
    /\ found' = [found EXCEPT ![q] = {}]
    /\ floor' = [floor EXCEPT ![q] = 0]
    /\ certified' = [certified EXCEPT ![q] = FALSE]
    /\ newly' = [newly EXCEPT ![q] = FALSE]
    /\ calm' = [calm EXCEPT ![q] = FALSE]
    /\ had' = [had EXCEPT ![q] = {}]

\* Arc::ptr_eq.
still_cached(s) == entry # None /\ entry.snap.gen = s.gen

\* acquire_or_reserve_snapshot_build.
\* (Its mutant builds beside another build.)
Mut_AcquireSnapshot(q) ==
    /\ stage[q] = "idle"
    /\ calls < MaxCalls /\ calls' = calls + 1
    /\ IF entry # None
       THEN Go(q, "begin") /\ index' = [index EXCEPT ![q] = entry.snap]
       ELSE Go(q, "rules") /\ index' = [index EXCEPT ![q].gen = calls + 1]
    /\ UNCHANGED <<files, entry, goal, left, found, floor, certified, newly,
                   history>>

AcquireSnapshot(q) ==
    /\ stage[q] = "idle"
    /\ calls < MaxCalls /\ calls' = calls + 1
    /\ \/ /\ entry # None
          /\ Go(q, "begin")
          /\ index' = [index EXCEPT ![q] = entry.snap]
       \/ /\ entry = None /\ \A p \in Query : ~Builds(p)
          /\ Go(q, "rules")
          /\ index' = [index EXCEPT ![q].gen = calls + 1]
    /\ UNCHANGED <<files, entry, goal, left, found, floor, certified, newly,
                   history>>

\* A request ends with an error.  One of a validation drops the snapshot
\* (record_validation_failure).
Fail(q) ==
    /\ End(q)
    /\ entry' = IF Validates(q) /\ still_cached(index[q]) THEN None
                ELSE entry
    /\ UNCHANGED <<files, calls, wrong>>

\* The deadline, the token, a limit or a read that fails.
Fails(q) == stage[q] # "idle" /\ Fail(q)

-----------------------------------------------------------------------------
(* walk_scope: reads the ignore file, then lists the directories with files *)

Walk(q, why) ==
    /\ Go(q, "rules")
    /\ goal' = [goal EXCEPT ![q] = why]
    /\ UNCHANGED <<files, entry, calls, index, left, found, floor, certified,
                   newly, history>>

WalkRules(q) ==
    /\ stage[q] = "rules"
    /\ Go(q, "list")
    /\ found' = [found EXCEPT ![q] = File \ Hidden(control)]
    /\ left' = [left EXCEPT ![q] = {Home[f] : f \in File}]
    /\ UNCHANGED <<files, entry, calls, goal, index, floor, certified, newly,
                   history>>

Absent(d) == {f \in File : Home[f] = d /\ disk[f] = None}

WalkDir(q, d) ==
    /\ stage[q] = "list" /\ d \in left[q]
    /\ left' = [left EXCEPT ![q] = @ \ {d}]
    /\ found' = [found EXCEPT ![q] = @ \ Absent(d)]
    /\ UNCHANGED <<files, entry, calls, stage, goal, index, floor, certified,
                   newly, history>>

Walked(q, why) == stage[q] = "list" /\ left[q] = {} /\ goal[q] = why

-----------------------------------------------------------------------------
(* build_index_with_selector *)

\* discover_memory_scope: the list may come from the scope cache, and is then
\* older still; the fingerprint of the ignore file is taken after it.
build_ignore_fingerprint(q) ==
    /\ Walked(q, "build")
    /\ Go(q, "stamp")
    /\ index' = [index EXCEPT ![q].control =
                  IF control = None THEN None
                  ELSE [stamp |-> control.stamp,
                        young |-> control.stamp = now]]
    /\ left' = [left EXCEPT ![q] = Dir]
    /\ UNCHANGED <<files, entry, calls, goal, found, floor, certified, newly,
                   history>>

\* ScopeFingerprint::from_directories.
from_directories(q, d) ==
    /\ stage[q] = "stamp" /\ d \in left[q]
    /\ index' = [index EXCEPT ![q].dirs[d] = mtime[d]]
    /\ \/ /\ left[q] # {d}
          /\ left' = [left EXCEPT ![q] = @ \ {d}]
          /\ UNCHANGED stage
       \/ /\ left[q] = {d}
          /\ left' = [left EXCEPT ![q] = found[q]]
          /\ Go(q, "load")
    /\ UNCHANGED <<files, entry, calls, goal, found, floor, certified, newly,
                   history>>

\* load_scope_document: the stamp is read from the open file ...
OpenFile(q, f) ==
    /\ stage[q] = "load" /\ f \in left[q] /\ index[q].docs[f] = None
    /\ disk[f] # None
    /\ index' = [index EXCEPT ![q].docs[f] =
                  [body |-> disk[f].body, stamp |-> disk[f].stamp,
                   young |-> disk[f].stamp = now]]
    /\ UNCHANGED <<files, entry, calls, stage, goal, left, found, floor,
                   certified, newly, history>>

\* ... then the content, which may have been written meanwhile: the old one is
\* still that of the open file if another has taken its place.
\* Mutant: the stamp is read after the content.
Mut_ReadFile(q, f) ==
    /\ stage[q] = "load" /\ f \in left[q] /\ index[q].docs[f] # None
    /\ left' = [left EXCEPT ![q] = @ \ {f}]
    /\ index' = IF disk[f] = None THEN index
                ELSE [index EXCEPT ![q].docs[f].stamp = disk[f].stamp,
                                   ![q].docs[f].young = disk[f].stamp = now]
    /\ UNCHANGED <<files, entry, calls, stage, goal, found, floor, certified,
                   newly, history>>
ReadFile(q, f) ==
    /\ stage[q] = "load" /\ f \in left[q] /\ index[q].docs[f] # None
    /\ left' = [left EXCEPT ![q] = @ \ {f}]
    /\ \/ UNCHANGED index
       \/ /\ disk[f] # None
          /\ index' = [index EXCEPT ![q].docs[f].body = disk[f].body]
    /\ UNCHANGED <<files, entry, calls, stage, goal, found, floor, certified,
                   newly, history>>

\* publish_snapshot_if_absent.
publish_snapshot(q) ==
    /\ stage[q] = "load" /\ left[q] = {}
    /\ Go(q, "begin")
    /\ found' = [found EXCEPT ![q] = {}]
    /\ entry' = [snap |-> index[q], certified |-> FALSE, since |-> 0]
    /\ UNCHANGED <<files, calls, goal, index, left, floor, certified, newly,
                   history>>

-----------------------------------------------------------------------------
(* SnapshotValidation::validate *)

\* Mutant: one query more.
Mut_full_scan_due(e) == e.since > FullScanInterval
full_scan_due(e) == e.since >= FullScanInterval

\* begin_validation, and the floor of check_targeted_snapshot_fresh.
begin_validation(q) ==
    LET is_current == still_cached(index[q])
        force == ~is_current \/ full_scan_due(entry)
    IN  /\ stage[q] = "begin"
        /\ Go(q, IF force THEN "rules" ELSE "dirs")
        /\ goal' = [goal EXCEPT ![q] = IF force THEN "full" ELSE "set"]
        /\ left' = [left EXCEPT ![q] = Dir]
        /\ floor' = [floor EXCEPT ![q] = now]
        /\ certified' = [certified EXCEPT ![q] =
                           is_current /\ entry.certified]
        /\ calm' = [calm EXCEPT ![q] = TRUE]
        /\ had' = [had EXCEPT ![q] =
                     {f \in result_doc_ids(index[q]) : Matches(f)}]
        /\ UNCHANGED <<files, entry, calls, index, found, newly, wrong>>

\* check_scope_directory_fingerprints.
CheckDirectory(q, d) ==
    /\ stage[q] = "dirs" /\ d \in left[q]
    /\ \/ /\ index[q].dirs[d] = mtime[d]
          /\ left' = [left EXCEPT ![q] = @ \ {d}]
          /\ UNCHANGED <<files, entry, calls, stage, goal, index, found, floor,
                         certified, newly, history>>
       \/ /\ index[q].dirs[d] # mtime[d]
          /\ Walk(q, "full")

\* The stamp decides; one recorded as absent is not looked for (AbsentControl-
\* Skip) if the file set is certified.
ignore_unchanged(s, is_certified) ==
    IF s.control = None THEN is_certified \/ control = None
    ELSE control # None /\ s.control.stamp = control.stamp

\* check_ignore_fingerprint, and what follows it.
CheckIgnore(q) ==
    /\ stage[q] = "dirs" /\ left[q] = {}
    /\ \/ /\ ~ignore_unchanged(index[q], certified[q])
          /\ Walk(q, "full")
       \/ /\ ignore_unchanged(index[q], certified[q])
          /\ ~certified[q]
          /\ Walk(q, "set")
       \/ /\ ignore_unchanged(index[q], certified[q])
          /\ certified[q]
          /\ Go(q, "results")
          /\ left' = [left EXCEPT ![q] = result_doc_ids(index[q])]
          /\ UNCHANGED <<files, entry, calls, goal, index, found, floor,
                         certified, newly, history>>

\* Mutant: without the slack.
Mut_certifiable_at(s, t) == \A d \in Dir : s.dirs[d] <= t
certifiable_at(s, t) == \A d \in Dir : s.dirs[d] + Slack <= t

\* check_snapshot_file_set of the targeted check.
FileSetChanged(q) ==
    /\ Walked(q, "set") /\ found[q] # Indexed(index[q])
    /\ Walk(q, "full")

FileSetMatches(q) ==
    /\ Walked(q, "set") /\ found[q] = Indexed(index[q])
    /\ Go(q, "results")
    /\ left' = [left EXCEPT ![q] = result_doc_ids(index[q])]
    /\ newly' = [newly EXCEPT ![q] = certifiable_at(index[q], floor[q])]
    /\ UNCHANGED <<files, entry, calls, goal, index, found, floor, certified,
                   history>>

\* check_snapshot_fresh: the file set, then every document.
FullSetChanged(q) ==
    /\ Walked(q, "full") /\ found[q] # Indexed(index[q])
    /\ Fail(q)

\* Mutant: only the results.
Mut_FullSetMatches(q) ==
    /\ Walked(q, "full") /\ found[q] = Indexed(index[q])
    /\ Go(q, "results")
    /\ left' = [left EXCEPT ![q] = result_doc_ids(index[q])]
    /\ UNCHANGED <<files, entry, calls, goal, index, found, floor, certified,
                   newly, history>>
FullSetMatches(q) ==
    /\ Walked(q, "full") /\ found[q] = Indexed(index[q])
    /\ Go(q, "results")
    /\ left' = [left EXCEPT ![q] = Indexed(index[q])]
    /\ UNCHANGED <<files, entry, calls, goal, index, found, floor, certified,
                   newly, history>>

\* The stamp of a document proves it unchanged, or its content does.
document_fresh(s, f) ==
    /\ disk[f] # None
    /\ s.docs[f].stamp = disk[f].stamp \/ s.docs[f].body = disk[f].body

CheckDocument(q, f) ==
    /\ stage[q] = "results" /\ f \in left[q]
    /\ \/ /\ document_fresh(index[q], f)
          /\ left' = [left EXCEPT ![q] = @ \ {f}]
          /\ UNCHANGED <<files, entry, calls, stage, goal, index, found, floor,
                         certified, newly, history>>
       \/ /\ ~document_fresh(index[q], f)
          /\ Fail(q)

\* mark_ready_after_validation.
validated(e, full, new) ==
    [e EXCEPT !.certified = @ \/ new,
              !.since = IF full THEN 0 ELSE @ + 1]

\* No stamp of the snapshot was read in the unit of time it names.
Settled(s) ==
    /\ \A f \in Indexed(s) : ~s.docs[f].young
    /\ s.control # None => ~s.control.young

\* complete_validation, and the answer.
Answers(q) == stage[q] = "results" /\ left[q] = {}
Answer(q) ==
    /\ Answers(q)
    /\ entry' = IF still_cached(index[q])
                THEN validated(entry, goal[q] = "full", newly[q]) ELSE entry
    /\ wrong' = IF goal[q] = "full" /\ still_cached(index[q]) THEN 0
                ELSE IF calm[q] /\ Settled(index[q])
                          /\ result_doc_ids(index[q]) # Truth
                     THEN wrong + 1 ELSE wrong
    /\ End(q)
    /\ UNCHANGED <<files, calls>>

-----------------------------------------------------------------------------
FreshInit ==
    /\ now = 0 /\ edits = 0 /\ calls = 0
    /\ disk \in [File -> [body : Text, stamp : {0}] \cup {None}]
    /\ mtime = [d \in Dir |-> 0]
    /\ control \in [hides : Rules, stamp : {0}] \cup {None}
    /\ entry = None
    /\ stage = [q \in Query |-> "idle"]
    /\ goal = [q \in Query |-> "build"]
    /\ index = [q \in Query |-> NoIndex]
    /\ left = [q \in Query |-> {}]
    /\ found = [q \in Query |-> {}]
    /\ floor = [q \in Query |-> 0]
    /\ certified = [q \in Query |-> FALSE]
    /\ newly = [q \in Query |-> FALSE]
    /\ calm = [q \in Query |-> FALSE]
    /\ had = [q \in Query |-> {}]
    /\ wrong = 0

Search(q) ==
    \/ AcquireSnapshot(q) \/ Fails(q)
    \/ WalkRules(q) \/ \E d \in Dir : WalkDir(q, d)
    \/ build_ignore_fingerprint(q)
    \/ \E d \in Dir : from_directories(q, d)
    \/ \E f \in File : OpenFile(q, f) \/ ReadFile(q, f)
    \/ publish_snapshot(q) \/ begin_validation(q)
    \/ \E d \in Dir : CheckDirectory(q, d)
    \/ CheckIgnore(q)
    \/ FileSetChanged(q) \/ FileSetMatches(q)
    \/ FullSetChanged(q) \/ FullSetMatches(q)
    \/ \E f \in File : CheckDocument(q, f)
    \/ Answer(q)

Environment ==
    \/ Tick
    \/ \E f \in File : WriteFile(f) \/ CreateOrRemove(f)
    \/ \E r \in Rules \cup {None} : ChangeRules(r)

FreshNext == Environment \/ \E q \in Query : Search(q)

FreshSpec == FreshInit /\ [][FreshNext]_freshVars

-----------------------------------------------------------------------------
(* Properties *)

IndexEntry == [snap : IndexSnapshot, certified : BOOLEAN, since : Nat]

\* None is none of what it may stand for.
ASSUME AbsenceAssumption ==
    /\ None \notin OnDisk /\ None \notin Control /\ None \notin Document
    /\ None \notin ControlStamp /\ None \notin IndexEntry

\* Types.
FreshTypeOK ==
    /\ now \in Time /\ edits \in 0 .. MaxEdits /\ calls \in 0 .. MaxCalls
    /\ disk \in [File -> OnDisk \cup {None}]
    /\ mtime \in [Dir -> Time] /\ control \in Control \cup {None}
    /\ entry \in IndexEntry \cup {None}
    /\ stage \in [Query -> {"idle", "rules", "list", "stamp", "load", "begin",
                            "dirs", "results"}]
    /\ goal \in [Query -> {"build", "set", "full"}]
    /\ index \in [Query -> IndexSnapshot]
    /\ left \in [Query -> SUBSET (File \cup Dir)]
    /\ found \in [Query -> SUBSET File]
    /\ floor \in [Query -> Time]
    /\ certified \in [Query -> BOOLEAN] /\ newly \in [Query -> BOOLEAN]
    /\ calm \in [Query -> BOOLEAN] /\ had \in [Query -> SUBSET File]
    /\ wrong \in Nat

\* A certified file set that passes the checks of stamps and ignore file is
\* the file set on disk, though no walk has confirmed it since: whatever
\* happened while it was certified, and since (search_memory.rs 4167-4175).
\* Only the ignore file may have been rewritten in the unit of time in which
\* it was stamped.
CertifiedIsExact ==
    LET s == entry.snap
        settled == s.control # None => ~s.control.young
    IN  (/\ entry # None
         /\ entry.certified /\ settled
         /\ s.dirs = mtime /\ ignore_unchanged(s, TRUE))
          => Indexed(s) = Visible

\* A file is reported only if it had a matching text while the answer was
\* validated, however its edits fall between the stamp, the read and the
\* check; unless it was written again in the unit of time of its stamp.
ReportedWasThere ==
    \A q \in Query : Answers(q) =>
        \A f \in result_doc_ids(index[q]) :
            f \in had[q] \/ index[q].docs[f].young

\* If nothing changes during the validation, the answer is that of the disk,
\* but for files that a targeted validation does not look at: those indexed
\* without a match that were written in place since.
CalmIsExact ==
    \A q \in Query :
        Answers(q) /\ calm[q] /\ Settled(index[q]) =>
            LET s == index[q]
            IN  /\ result_doc_ids(s) \subseteq Truth
                /\ \A f \in Truth \ result_doc_ids(s) :
                      /\ goal[q] # "full"
                      /\ f \in Indexed(s) /\ s.docs[f].stamp # disk[f].stamp

\* However often such a miss could be repeated, between two full validations
\* it is in no more answers than the interval, and one from each other query
\* that was in flight when the interval ended; and a full validation that
\* begins after the change finds it (CalmIsExact).
WrongIsBounded == wrong <= FullScanInterval + Cardinality(Query) - 1
\* The one key of this module gives the promise of the index manager: one build
\* at a time, none while a snapshot is cached, and what is cached is the outcome
\* of the build begun last, whichever validations fail meanwhile.
BeingBuilt ==
    IF \E q \in Query : Builds(q)
    THEN index[CHOOSE q \in Query : Builds(q)].gen ELSE 0
KeyPromise == INSTANCE SnapshotCache WITH
    Key <- {Root}, MaxEntries <- 1,
    building <- [k \in {Root} |-> BeingBuilt],
    cached <- [k \in {Root} |-> IF entry = None THEN 0 ELSE entry.snap.gen],
    latest <- calls
KeyImplementsSnapshotCache == KeyPromise!Spec
=============================================================================

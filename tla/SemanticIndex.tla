--------------------------- MODULE SemanticIndex ---------------------------
(***************************************************************************)
(* SemanticIndex (tools-mcp-semantic/src/model.rs, index_workspace): runs  *)
(* that bring the table of embedded chunks and the manifest up to date     *)
(* with the files of a workspace, side by side with each other and with    *)
(* the programs that edit the files.                                       *)
(*                                                                         *)
(* A run touches the two stores in an order of its own (delete rows, add   *)
(* rows, rewrite the manifest in place) without a lock or a transaction,   *)
(* and may end at any await or with its process.  The store is LanceDB,    *)
(* whose single operations are atomic.  A hash stands for its content; all *)
(* contents have the same size, for which the stamps have to be made.      *)
(***************************************************************************)
EXTENDS Naturals, FiniteSets

CONSTANTS
    Run,            \* the calls of SemanticIndex that may overlap
    File,
    Text,           \* contents that have chunks
    Junk,           \* contents that have none, or are not UTF-8
    Batch,          \* DELETE_PATH_BATCH_SIZE
    Slack,          \* STAMP_RACY_SLACK
    Lag,            \* how far a file's time may lie behind the clock
    MaxTime, MaxEdits, MaxCalls,    \* bounds of the clock, edits and calls
    None

Time == 0 .. MaxTime
Content == Text \cup Junk

ManifestFile == [hash : Text, stamp : Time \cup {None}]
OnDisk == [body : Content, mtime : Time]

ASSUME SemanticAssumption ==
    /\ Slack \in Nat /\ Lag \in Nat /\ Lag < Slack
    /\ Batch \in Nat \ {0}
    /\ MaxTime \in Nat /\ MaxEdits \in Nat /\ MaxCalls \in Nat
    /\ None \notin Content /\ None \notin Nat
    /\ None \notin ManifestFile /\ None \notin OnDisk
    /\ Text \cap Junk = {}

VARIABLES
    now, edits,
    disk,               \* the files
    manifest, torn,     \* IndexManifest::files; whether the file is half written
    rows,               \* the table: how often it has the chunks of a content
    pc, calls,
    scope, force,       \* target_filter, options.force
    floor,              \* stamp_observation_floor
    stat,               \* FileCandidate::modified of the files discovered
    mem,                \* the manifest in memory
    dirty,              \* manifest_stamps_refreshed
    left,               \* what the present loop has still to visit
    pend,               \* files_to_index
    touched,            \* changed_paths
    \* History.
    hurt,               \* files whose rows a stopped or overlapping run changed
    lone,               \* no other run has been under way
    edited,             \* the files edited since the run began
    clash               \* another run was writing the manifest as well

files == <<now, edits, disk>>
index == <<manifest, torn, rows>>
args == <<scope, force, floor>>
vars == <<now, edits, disk, manifest, torn, rows, pc, calls, scope, force,
          floor, stat, mem, dirty, left, pend, touched, hurt, lone, edited,
          clash>>

Nothing == [f \in File |-> None]
Phase == {"idle", "walk", "read", "delete", "add", "save", "saving"}

TypeOK ==
    /\ now \in Time /\ edits \in Nat /\ calls \in Nat
    /\ disk \in [File -> OnDisk \cup {None}]
    /\ manifest \in [File -> ManifestFile \cup {None}]
    /\ torn \in BOOLEAN
    /\ rows \in [File -> [Text -> Nat]]
    /\ pc \in [Run -> Phase]
    /\ scope \in [Run -> SUBSET File]
    /\ force \in [Run -> BOOLEAN]
    /\ floor \in [Run -> Time]
    /\ stat \in [Run -> [File -> Time \cup {None}]]
    /\ mem \in [Run -> [File -> ManifestFile \cup {None}]]
    /\ dirty \in [Run -> BOOLEAN]
    /\ left \in [Run -> SUBSET File]
    /\ pend \in [Run -> [File -> ManifestFile \cup {None}]]
    /\ touched \in [Run -> SUBSET File]
    /\ hurt \in SUBSET File
    /\ lone \in [Run -> BOOLEAN]
    /\ edited \in [Run -> SUBSET File]
    /\ clash \in [Run -> BOOLEAN]

-----------------------------------------------------------------------------
Busy(r) == pc[r] # "idle"

\* The files whose rows a run has changed since the last save of the manifest.
Written(r) ==
    IF pc[r] = "delete" THEN touched[r] \ left[r]
    ELSE IF pc[r] \in {"add", "save", "saving"} THEN touched[r] ELSE {}

\* The run has answered and its variables are gone.
End(r) ==
    /\ pc' = [pc EXCEPT ![r] = "idle"]
    /\ scope' = [scope EXCEPT ![r] = {}]
    /\ force' = [force EXCEPT ![r] = FALSE]
    /\ floor' = [floor EXCEPT ![r] = 0]
    /\ stat' = [stat EXCEPT ![r] = Nothing]
    /\ mem' = [mem EXCEPT ![r] = Nothing]
    /\ dirty' = [dirty EXCEPT ![r] = FALSE]
    /\ left' = [left EXCEPT ![r] = {}]
    /\ pend' = [pend EXCEPT ![r] = Nothing]
    /\ touched' = [touched EXCEPT ![r] = {}]
    /\ lone' = [lone EXCEPT ![r] = FALSE]
    /\ edited' = [edited EXCEPT ![r] = {}]
    /\ clash' = [clash EXCEPT ![r] = FALSE]

\* The files are edited by anyone; the time of a file is the clock's or a
\* little earlier.
Edit(f) ==
    /\ edits < MaxEdits /\ edits' = edits + 1
    /\ \/ /\ disk[f] # None
          /\ disk' = [disk EXCEPT ![f] = None]
       \/ \E c \in Content, t \in Time :
             /\ t <= now /\ now <= t + Lag
             /\ disk' = [disk EXCEPT ![f] = [body |-> c, mtime |-> t]]
    /\ edited' = [r \in Run |-> IF Busy(r) THEN edited[r] \cup {f} ELSE {}]
    /\ UNCHANGED <<now, index, pc, calls, args, stat, mem, dirty, left, pend,
                   touched, hurt, lone, clash>>

Tick ==
    /\ now < MaxTime /\ now' = now + 1
    /\ UNCHANGED <<edits, disk, index, pc, calls, args, stat, mem, dirty,
                   left, pend, touched, hurt, lone, edited, clash>>

-----------------------------------------------------------------------------
Start(r) ==
    /\ ~Busy(r)
    /\ calls < MaxCalls /\ calls' = calls + 1
    /\ pc' = [pc EXCEPT ![r] = "walk"]
    /\ \E S \in SUBSET File \ {{}}, b \in BOOLEAN :
          /\ scope' = [scope EXCEPT ![r] = S]
          /\ left' = [left EXCEPT ![r] = S]
          /\ force' = [force EXCEPT ![r] = b]
    /\ floor' = [floor EXCEPT ![r] = now]
    /\ lone' = [q \in Run |-> q = r /\ \A p \in Run : ~Busy(p)]
    /\ UNCHANGED <<files, index, stat, mem, dirty, pend, touched, hurt, edited,
                   clash>>

\* discover_files comes to f, or passes it over: it does not exist, is
\* ignored, hidden, excluded or too large, has another extension, or the limit
\* or the deadline has cut the walk short.
Walk(r, f) ==
    /\ pc[r] = "walk" /\ f \in left[r]
    /\ left' = [left EXCEPT ![r] = @ \ {f}]
    /\ \/ UNCHANGED stat
       \/ /\ disk[f] # None
          /\ stat' = [stat EXCEPT ![r][f] = disk[f].mtime]
    /\ UNCHANGED <<files, index, pc, calls, args, mem, dirty, pend, touched,
                   hurt, lone, edited, clash>>

Found(r) == {f \in scope[r] : stat[r][f] # None}

\* IndexManifest::load_or_new; a manifest that cannot be parsed ends the run.
Load(r) ==
    /\ pc[r] = "walk" /\ left[r] = {}
    /\ ~torn
    /\ mem' = [mem EXCEPT ![r] = manifest]
    /\ pc' = [pc EXCEPT ![r] = "read"]
    /\ left' = [left EXCEPT ![r] = Found(r)]
    /\ UNCHANGED <<files, index, calls, args, stat, dirty, pend, touched,
                   hurt, lone, edited, clash>>

\* Mutant: a time is young only if it lies after the floor.
Mut_recordable_stamp(t, at) == IF t <= at THEN t ELSE None
recordable_stamp(t, at) == IF t + Slack <= at THEN t ELSE None

is_current_by_stamp(e, t) == e # None /\ e.stamp = t
\* Mutant: any entry is current.
Mut_is_current(e, c) == e # None
is_current(e, c) == e # None /\ e.hash = c

PassByStamp(r, f) ==
    /\ ~force[r] /\ is_current_by_stamp(mem[r][f], stat[r][f])
    /\ UNCHANGED <<mem, dirty, pend>>

\* The content is read now, the time is the one discovery has seen.
ReadAndHash(r, f) ==
    LET c == disk[f].body
        known == ~force[r] /\ is_current(mem[r][f], c)
        seen == recordable_stamp(stat[r][f], floor[r])
    IN /\ force[r] \/ ~is_current_by_stamp(mem[r][f], stat[r][f])
       /\ disk[f] # None
       /\ \/ /\ known
             /\ mem' = [mem EXCEPT ![r][f].stamp = seen]
             /\ dirty' = [dirty EXCEPT ![r] = @ \/ mem[r][f].stamp # seen]
             /\ UNCHANGED pend
          \/ /\ ~known
             /\ pend' = IF c \in Junk THEN pend
                        ELSE [pend EXCEPT
                                ![r][f] = [hash |-> c, stamp |-> seen]]
             /\ UNCHANGED <<mem, dirty>>

Read(r, f) ==
    /\ pc[r] = "read" /\ f \in left[r]
    /\ left' = [left EXCEPT ![r] = @ \ {f}]
    /\ PassByStamp(r, f) \/ ReadAndHash(r, f)
    /\ UNCHANGED <<files, index, pc, calls, args, stat, touched, hurt, lone,
                   edited, clash>>

stale_paths_under(r) ==
    {f \in scope[r] : mem[r][f] # None /\ f \notin Found(r)}
files_to_index(r) == {f \in File : pend[r][f] # None}

\* What follows the loop: the embedding and the opening of the table, or
\* nothing, change no state that another run can see.
Decide(r) ==
    LET changed_paths == files_to_index(r) \cup stale_paths_under(r)
    IN /\ pc[r] = "read" /\ left[r] = {}
       /\ changed_paths # {} \/ dirty[r]
       /\ left' = [left EXCEPT ![r] = changed_paths]
       /\ touched' = [touched EXCEPT ![r] = changed_paths]
       /\ pc' = [pc EXCEPT ![r] = IF changed_paths = {} THEN "save"
                                  ELSE "delete"]
       /\ UNCHANGED <<files, index, calls, args, stat, mem, dirty, pend, hurt,
                      lone, edited, clash>>

\* Nothing changed and nothing went stale.
AllCurrent(r) ==
    /\ pc[r] = "read" /\ left[r] = {}
    /\ files_to_index(r) = {} /\ stale_paths_under(r) = {} /\ ~dirty[r]
    /\ End(r)
    /\ UNCHANGED <<files, index, calls, hurt>>

Without(row, batch) ==
    [f \in File |-> IF f \in batch THEN [c \in Text |-> 0] ELSE row[f]]

\* One statement of delete_paths.
Delete(r) ==
    \E batch \in SUBSET left[r] \ {{}} :
       /\ pc[r] = "delete"
       /\ Cardinality(batch) <= Batch
       /\ rows' = Without(rows, batch)
       /\ left' = [left EXCEPT ![r] = @ \ batch]
       /\ pc' = [pc EXCEPT ![r] = IF batch = left[r] THEN "add" ELSE @]
       /\ UNCHANGED <<files, manifest, torn, calls, args, stat, mem, dirty,
                      pend, touched, hurt, lone, edited, clash>>

With(row, new) ==
    [f \in File |-> [c \in Text |->
        IF new[f] # None /\ new[f].hash = c THEN row[f][c] + 1
        ELSE row[f][c]]]

\* The manifest in memory after the run: the files indexed, without the stale.
\* Mutant: remove_paths is left out.
Mut_updated(r) ==
    [f \in File |-> IF pend[r][f] # None THEN pend[r][f] ELSE mem[r][f]]
updated(r) ==
    [f \in File |-> IF pend[r][f] # None THEN pend[r][f]
                    ELSE IF f \in touched[r] THEN None ELSE mem[r][f]]

\* add_chunks, if there are any, and what follows it up to the save.
Add(r) ==
    /\ pc[r] = "add"
    /\ rows' = With(rows, pend[r])
    /\ mem' = [mem EXCEPT ![r] = updated(r)]
    /\ pc' = [pc EXCEPT ![r] = "save"]
    /\ UNCHANGED <<files, manifest, torn, calls, args, stat, dirty, left, pend,
                   touched, hurt, lone, edited, clash>>

\* save_named: File::create empties the file ...
Save(r) ==
    LET others == {q \in Run \ {r} : pc[q] = "saving"}
    IN /\ pc[r] = "save"
       /\ torn' = TRUE
       /\ pc' = [pc EXCEPT ![r] = "saving"]
       /\ clash' = [q \in Run |-> \/ clash[q] \/ q \in others
                                  \/ q = r /\ others # {}]
       /\ UNCHANGED <<files, manifest, rows, calls, args, stat, mem, dirty,
                      left, pend, touched, hurt, lone, edited>>

\* ... and the writer fills it, over or under what another run writes into the
\* same file, which may leave it unreadable.
Saved(r) ==
    /\ pc[r] = "saving"
    /\ \/ torn' = FALSE /\ manifest' = [f \in File |-> mem[r][f]]
       \/ clash[r] /\ torn' = TRUE /\ UNCHANGED manifest
    /\ hurt' = IF lone[r] THEN hurt \ touched[r] ELSE hurt \cup touched[r]
    /\ End(r)
    /\ UNCHANGED <<files, rows, calls>>

\* A run ends early: a store, the embedding or a read fails, the manifest does
\* not parse, the deadline passes, the task is aborted or the process dies.
\* The rows it has changed stay changed.
Stop(r) ==
    /\ Busy(r)
    /\ End(r)
    /\ hurt' = hurt \cup Written(r)
    /\ UNCHANGED <<files, index, calls>>

-----------------------------------------------------------------------------
Init ==
    /\ now = 0 /\ edits = 0 /\ calls = 0
    /\ disk \in [File -> [body : Text, mtime : {0}] \cup {None}]
    /\ manifest = Nothing /\ torn = FALSE
    /\ rows = [f \in File |-> [c \in Text |-> 0]]
    /\ pc = [r \in Run |-> "idle"]
    /\ scope = [r \in Run |-> {}]
    /\ force = [r \in Run |-> FALSE]
    /\ floor = [r \in Run |-> 0]
    /\ stat = [r \in Run |-> Nothing]
    /\ mem = [r \in Run |-> Nothing]
    /\ dirty = [r \in Run |-> FALSE]
    /\ left = [r \in Run |-> {}]
    /\ pend = [r \in Run |-> Nothing]
    /\ touched = [r \in Run |-> {}]
    /\ hurt = {}
    /\ lone = [r \in Run |-> FALSE]
    /\ edited = [r \in Run |-> {}]
    /\ clash = [r \in Run |-> FALSE]

Next ==
    \/ Tick
    \/ \E f \in File : Edit(f)
    \/ \E r \in Run :
          \/ Start(r) \/ Load(r) \/ Decide(r) \/ AllCurrent(r) \/ Delete(r)
          \/ Add(r) \/ Save(r) \/ Saved(r) \/ Stop(r)
          \/ \E f \in File : Walk(r, f) \/ Read(r, f)

Spec == Init /\ [][Next]_vars

-----------------------------------------------------------------------------
\* A stamp in the manifest tells the truth: a file that has the time recorded
\* for it has the content recorded for it, however the edits fall among the
\* walk, the read and the save, and whichever run has saved last.
\* (model.rs 20-25: "git's racy-timestamp problem".)
StampsAreHonest ==
    ~torn =>
        \A f \in File :
            (disk[f] # None /\ is_current_by_stamp(manifest[f], disk[f].mtime))
                => manifest[f].hash = disk[f].body

Once(c) == [d \in Text |-> IF d = c THEN 1 ELSE 0]
Absent == [d \in Text |-> 0]

\* "Manifest reflects only persisted state" (docs/tools/semantic-index.md 60):
\* the table has the chunks of exactly the content the manifest names, once,
\* and none of a file it does not name; except for the files a run is writing,
\* and those that one has written which was stopped or overlapped another,
\* until a run that is alone has written them again.
IndexMatchesManifest ==
    ~torn =>
        \A f \in File :
            \/ f \in hurt
            \/ \E r \in Run : f \in Written(r)
            \/ rows[f] = IF manifest[f] = None THEN Absent
                         ELSE Once(manifest[f].hash)

\* A run that has had the index to itself leaves the files of its scope that
\* were not edited meanwhile indexed as they are on disk, and those it has not
\* come to not indexed at all.
FreshAfterRun ==
    [][\A r \in Run : (AllCurrent(r) \/ Saved(r)) /\ lone[r] =>
        \A f \in scope[r] \ (edited[r] \cup hurt') :
            \/ disk[f] # None /\ disk[f].body \in Junk
            \/ rows'[f] = IF f \in Found(r) THEN Once(disk[f].body)
                          ELSE Absent]_vars
=============================================================================

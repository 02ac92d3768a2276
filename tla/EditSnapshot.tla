----------------------------- MODULE EditSnapshot -----------------------------
(***************************************************************************)
(* Read before edit: the store of content hashes (edit_snapshot.rs) and    *)
(* the calls that meet at it and at the file: Read, Edit, Write, Delete,   *)
(* Copy and Move.                                                          *)
(*                                                                         *)
(* The store is keyed by canonical path and paths do not affect each       *)
(* other, so one file is modelled.  The calls are tasks of a runtime with  *)
(* several threads: their file operations and critical sections            *)
(* interleave.  A hash is its content: SHA-256 does not collide.           *)
(***************************************************************************)
EXTENDS Naturals

CONSTANTS
    Read, Edit, \* the calls of a session that know the store
    Other,      \* those that do not: each is a Write or a Delete of the file,
                \* a Copy or a Move of another to its path, or a Move away
    Outside,    \* changes of the file by other programs
    Text,       \* what Other and Outside fill the file with
    TextOf,     \* which of them each does
    Empty,      \* a file without bytes
    None        \* no file; no snapshot

Call == Read \cup Edit \cup Other

\* A text with the edits made in it; damaged if it is followed by the end of
\* another, longer one, or if its own end is missing.
Content == [base : Text, edits : SUBSET Edit, damaged : BOOLEAN]
File == Content \cup {Empty}

ASSUME EditSnapshotAssumption ==
    /\ Read \cap (Edit \cup Other) = {} /\ Edit \cap Other = {}
    /\ TextOf \in [Other \cup Outside -> Text]
    /\ Empty \notin Content /\ None \notin File

VARIABLES
    disk,       \* the file
    linked,     \* the calls whose open descriptor is the file's, not a deleted one's
    snapshot,   \* SNAPSHOTS[key(path)]
    at,         \* control point of each call
    text,       \* what the call has read; for an Edit first expected_hash
    pending,    \* the outside changes yet to come
    \* history
    seen,       \* contents a Read has read or an Edit has produced
    shared,     \* calls in flight during which another one, or an outside change, began
    current     \* nothing but a call of its own has touched the file or the
                \* store since the last Read or Edit recorded

vars == <<disk, linked, snapshot, at, text, pending, seen, shared, current>>

InFlight == {c \in Call : at[c] \notin {"idle", "ok", "refused"}}

Become(c, s) == at' = [at EXCEPT ![c] = s]
\* Another call begins, or an outside change happens.
Disturb(C) == shared' = IF InFlight = {} THEN {} ELSE InFlight \cup C

Fresh(t) == [base |-> t, edits |-> {}, damaged |-> FALSE]
\* What the file holds after c is written at its start.
Over(c, d) == IF d = Empty THEN {c} ELSE {c, [c EXCEPT !.damaged = TRUE]}

-----------------------------------------------------------------------------
(* The store *)

\* The text an Edit makes of the one it has read.
Produced(e) == [text[e] EXCEPT !.edits = @ \cup {e}]

\* Mutant: an Edit records what it has read.
Mut_before(c) == text[c]
\* What is recorded: file_hash_after, or the hash of what was read.
Recorded(c) == IF c \in Edit THEN Produced(c) ELSE text[c]

\* record: nothing is recorded for a path that does not resolve.  The call is
\* done with its text.
record(c) ==
    /\ snapshot' = IF disk = None THEN snapshot ELSE Recorded(c)
    /\ seen' = seen \cup {Recorded(c)}
    /\ current' = (c \notin shared)
    /\ text' = [text EXCEPT ![c] = None]

\* resolve_existing_file and get: there is a file, and a snapshot for it.
Known == disk # None /\ snapshot # None

-----------------------------------------------------------------------------
(* Read *)

ReadFile(r) ==
    /\ at[r] = "idle" /\ disk # None
    /\ Become(r, "record")
    /\ text' = [text EXCEPT ![r] = disk]
    /\ seen' = seen \cup {disk}
    /\ Disturb({r})
    /\ UNCHANGED <<disk, linked, snapshot, pending, current>>

ReadRecord(r) ==
    /\ at[r] = "record"
    /\ record(r)
    /\ Become(r, "ok")
    /\ UNCHANGED <<disk, linked, pending, shared>>

-----------------------------------------------------------------------------
(* Edit: no await, so once begun it runs to its end, on a thread of its own *)

EditBegin(e) ==
    /\ at[e] = "idle" /\ Known
    /\ Become(e, "check")
    /\ text' = [text EXCEPT ![e] = snapshot]
    /\ Disturb({e})
    /\ UNCHANGED <<disk, linked, snapshot, pending, seen, current>>

\* Mutant: the hash is not compared.
Mut_any_file(e) == TRUE
UpToDate(e) == disk = text[e]

\* The file is read and compared, and the snippet looked for, which an empty
\* file does not have.
EditCheck(e) ==
    /\ at[e] = "check"
    /\ \E found \in BOOLEAN :
        /\ found => disk \in Content
        /\ IF UpToDate(e) /\ found
           THEN Become(e, "open") /\ text' = [text EXCEPT ![e] = disk]
           ELSE Become(e, "refused") /\ UNCHANGED text
    /\ UNCHANGED <<disk, linked, snapshot, pending, seen, shared, current>>

EditRecord(e) ==
    /\ at[e] = "record"
    /\ record(e)
    /\ Become(e, "ok")
    /\ UNCHANGED <<disk, linked, pending, shared>>

-----------------------------------------------------------------------------
(* Write, and the writing in place of an Edit, a Copy or a Move *)

\* fs::write and fs::copy: the file is truncated, and created if it is gone.
OpenFile(c) ==
    /\ at[c] = "open"
    /\ Become(c, "write")
    /\ disk' = Empty
    /\ linked' = linked \cup {c}
    /\ current' = FALSE
    /\ UNCHANGED <<snapshot, text, pending, seen, shared>>

\* The file must not exist.
WriteOpen(o) ==
    /\ at[o] = "idle" /\ disk = None
    /\ Become(o, "write")
    /\ disk' = Empty
    /\ linked' = linked \cup {o}
    /\ current' = FALSE
    /\ Disturb({o})
    /\ UNCHANGED <<snapshot, text, pending, seen>>

Output(c) == IF c \in Edit THEN Produced(c) ELSE Fresh(TextOf[c])

\* The bytes reach the file the descriptor is open on.
WriteBytes(c) ==
    /\ at[c] = "write"
    /\ Become(c, IF c \in Edit THEN "record" ELSE "ok")
    /\ IF c \in linked THEN disk' \in Over(Output(c), disk) ELSE UNCHANGED disk
    /\ UNCHANGED <<linked, snapshot, text, pending, seen, shared, current>>

\* Some or none of them do; the call ends with an error.
WriteFails(c) ==
    /\ at[c] = "write"
    /\ Become(c, "refused")
    /\ IF c \in linked
       THEN disk' \in {disk, [Output(c) EXCEPT !.damaged = TRUE]}
       ELSE UNCHANGED disk
    /\ UNCHANGED <<linked, snapshot, text, pending, seen, shared, current>>

-----------------------------------------------------------------------------
(* Copy and Move to the path: only overwrite lets them replace a file *)

\* A Copy without overwrite writes in place, where it has seen no file.
PlaceBegin(o) ==
    /\ at[o] = "idle"
    /\ \E s \in {"move", "stage", "open"} : (s = "open" => disk = None) /\ Become(o, s)
    /\ Disturb({o})
    /\ UNCHANGED <<disk, linked, snapshot, text, pending, seen, current>>

\* A file in the way is replaced by a copy staged beside it, which may fail.
CopyStage(o) ==
    /\ at[o] = "stage"
    /\ \/ disk = None /\ Become(o, "open")
       \/ disk # None /\ \E s \in {"remove", "refused"} : Become(o, s)
    /\ UNCHANGED <<disk, linked, snapshot, text, pending, seen, shared, current>>

\* The old file goes before the new one comes; without an old one it fails.
CopyRemove(o) ==
    /\ at[o] = "remove"
    /\ \/ /\ disk # None /\ disk' = None
          /\ linked' = {} /\ current' = FALSE
          /\ Become(o, "rename")
       \/ Become(o, "refused") /\ UNCHANGED <<disk, linked, current>>
    /\ UNCHANGED <<snapshot, text, pending, seen, shared>>

\* rename replaces what is there.  Where it fails, a Move writes in place.
Rename(o) ==
    /\ at[o] \in {"move", "rename"}
    /\ \/ /\ disk' = Fresh(TextOf[o])
          /\ linked' = {} /\ current' = FALSE
          /\ Become(o, "ok")
       \/ /\ \/ Become(o, "refused")
             \/ at[o] = "move" /\ Become(o, "open")
          /\ UNCHANGED <<disk, linked, current>>
    /\ UNCHANGED <<snapshot, text, pending, seen, shared>>

-----------------------------------------------------------------------------
(* Delete, calls that end at once, and other programs *)

\* A Move takes the file elsewhere, with the descriptors open on it.
DeleteFile(o) ==
    /\ at[o] = "idle" /\ disk # None
    /\ Become(o, "ok")
    /\ disk' = None
    /\ linked' = {}
    /\ current' = FALSE
    /\ Disturb({o})
    /\ UNCHANGED <<snapshot, text, pending, seen>>

\* No file to read, edit, delete, copy or move, no snapshot, a file in the way,
\* or one that cannot be opened.
Refuse(c) ==
    /\ \/ at[c] = "open"
       \/ /\ at[c] = "idle"
          /\ \/ c \in Read /\ disk = None
             \/ c \in Edit /\ ~Known
             \/ c \in Other
    /\ Become(c, "refused")
    /\ UNCHANGED <<disk, linked, snapshot, text, pending, seen, shared, current>>

\* Saved in place, or by renaming another file over it.
Save(o) ==
    /\ o \in pending
    /\ pending' = pending \ {o}
    /\ disk' = Fresh(TextOf[o])
    /\ linked' \in {linked, {}}
    /\ current' = FALSE
    /\ Disturb({})
    /\ UNCHANGED <<snapshot, at, text, seen>>

-----------------------------------------------------------------------------
Init ==
    /\ disk \in {Fresh(t) : t \in Text} \cup {None}
    /\ linked = {} /\ snapshot = None
    /\ at = [c \in Call |-> "idle"]
    /\ text = [c \in Call |-> None]
    /\ pending = Outside
    /\ seen = {} /\ shared = {} /\ current = FALSE

Next ==
    \/ \E r \in Read : ReadFile(r) \/ ReadRecord(r)
    \/ \E e \in Edit : EditBegin(e) \/ EditCheck(e) \/ EditRecord(e)
    \/ \E o \in Other : WriteOpen(o) \/ DeleteFile(o)
    \/ \E o \in Other : PlaceBegin(o) \/ CopyStage(o) \/ CopyRemove(o) \/ Rename(o)
    \/ \E c \in Edit \cup Other : OpenFile(c) \/ WriteBytes(c) \/ WriteFails(c)
    \/ \E c \in Call : Refuse(c)
    \/ \E o \in Outside : Save(o)

Spec == Init /\ [][Next]_vars

-----------------------------------------------------------------------------
(* Properties *)

\* Types; a call past its first step holds a content, and an Edit that has
\* passed its check one with a text.
TypeOK ==
    /\ disk \in File \cup {None} /\ snapshot \in File \cup {None}
    /\ linked \subseteq Edit \cup Other
    /\ at \in [Call -> {"idle", "check", "stage", "remove", "rename", "move", "open",
                       "write", "record", "ok", "refused"}]
    /\ text \in [Call -> File \cup {None}]
    /\ pending \subseteq Outside
    /\ seen \subseteq File /\ shared \subseteq Call /\ current \in BOOLEAN
    /\ \A c \in Read \cup Edit : c \in InFlight => text[c] \in File
    /\ \A e \in Edit : at[e] \in {"open", "write", "record"} => text[e] \in Content
    /\ \A c \in Call : /\ at[c] \in {"open", "write"} => c \in Edit \cup Other
                       /\ at[c] = "record" => c \in Read \cup Edit
                       /\ at[c] = "check" => c \in Edit
                       /\ at[c] \in {"stage", "remove", "rename", "move"} => c \in Other

\* handle_edit: whatever other calls and programs do to the file and to the
\* store, what an Edit writes is its change of a content that a Read of this
\* session read or an Edit of it produced.
EditsWhatWasSeen ==
    \A e \in Edit : at[e] \in {"open", "write", "record"} => text[e] \in seen

\* "A chain of edits proceeds without re-reading": after a Read or an Edit that
\* no other call or program overlapped, the store holds the hash of what is in
\* the file, until someone else changes either; the next Edit cannot be stale.
SnapshotIsCurrent == current => snapshot = disk
=============================================================================

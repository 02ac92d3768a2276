----------------------------- MODULE StageHunks -----------------------------
(***************************************************************************)
(* GitStageHunks (tools-mcp-git/src/git/handlers/apply.rs).  A client has  *)
(* listed the hunks of a diff, picks some, and asks for exactly these to   *)
(* be staged (prepare_commit, stage_only) or taken back (unstage).  The    *)
(* handler runs a dozen git commands one after the other, and other        *)
(* programs save files and write the index between any two of them.        *)
(***************************************************************************)
EXTENDS Hunks

VARIABLES
    index,      \* the content of every file in the index
    work,       \* and in the working tree
    locked,     \* another program holds index.lock, or died holding it
    pc,         \* where the handler is
    req,        \* the request: what GitStageHunksRequest says
    kept,       \* what the handler remembers of the commands it ran
    result,     \* the state it answers with
    wrote,      \* its own git apply has written the index
    calm,       \* since the request began nothing else was written and nothing failed
    budget      \* what other programs may still do

repository == <<index, work, locked>>
vars == <<index, work, locked, pc, req, kept, result, wrote, calm, budget>>

Before == {"source", "clean", "mixed", "target", "unstaged", "check", "blobs"}
After == {"post_source", "post_target", "post_blobs", "full_staged", "full_unstaged"}

NothingKept == [target |-> {}, unstaged |-> {}, blobs |-> None, source_delta |-> FALSE,
                seen |-> None, staged |-> None]

reverse == req.action = "unstage"
source_staged == req.action = "unstage"
target_staged == req.action # "unstage"
prepare == req.action = "prepare_commit"

selected == req.hunks
selected_paths == Paths(selected)

\* git diff, of the index to HEAD or of the working tree to the index.
enumerate_diff(staged, scope) ==
    IF staged THEN Diff(HEAD, index, scope) ELSE Diff(index, work, scope)

Goto(next) == pc' = next /\ UNCHANGED <<req, result, wrote, calm, budget>>

End(state) == pc' = "done" /\ result' = state

\* An answer that promises nothing of the index; what the call knew is gone.
Fail(state) == End(state) /\ req' = None /\ kept' = NothingKept

Refuse == Fail("refused") /\ UNCHANGED <<wrote, calm, budget>>

-----------------------------------------------------------------------------
(* Up to the apply. *)

\* GitHunks, some time ago, and the request made of what it listed: hunk IDs
\* and the diff_id, here the diff itself.
Request(action, scope) ==
    /\ pc = "idle"
    /\ LET diff == enumerate_diff(action = "unstage", scope)
       IN  \E chosen \in SUBSET Hunks(diff) \ {{}} :
               req' = [action |-> action, scope |-> scope, diff |-> diff, hunks |-> chosen]
    /\ pc' = "source"
    /\ UNCHANGED <<repository, kept, result, wrote, calm, budget>>

\* Some of several hunks that read the same: reject_ambiguous_subset.
ambiguous ==
    LET total == body_counts(Hunks(req.diff))
        chosen == body_counts(selected)
    IN  \E k \in DOMAIN chosen : total[k] > chosen[k]

\* The diff is recomputed: its diff_id must be the one the client has.
Source ==
    /\ pc = "source"
    /\ IF enumerate_diff(source_staged, req.scope) # req.diff \/ ambiguous
       THEN Refuse
       ELSE Goto(IF prepare THEN "clean" ELSE "mixed") /\ UNCHANGED kept
    /\ UNCHANGED repository

\* prepare_commit wants an empty full staged diff.
Clean ==
    /\ pc = "clean"
    /\ IF enumerate_diff(TRUE, File) # {}
       THEN Refuse
       ELSE Goto("mixed") /\ UNCHANGED kept
    /\ UNCHANGED repository

\* A mutant: a path changed in the other direction is let through.
Mut_mixed_direction ==
    pc = "mixed" /\ Goto("target") /\ UNCHANGED <<repository, kept>>

reject_mixed_direction_files ==
    /\ pc = "mixed"
    /\ IF \E d \in enumerate_diff(~source_staged, req.scope) : d.file \in selected_paths
       THEN Refuse
       ELSE Goto("target") /\ UNCHANGED kept
    /\ UNCHANGED repository

\* The target's diff, to count against after the apply; the source was all of
\* the unstaged diff if the request names no path.
PreTarget ==
    /\ pc = "target"
    /\ kept' = [kept EXCEPT !.target = enumerate_diff(target_staged, req.scope),
                            !.unstaged = req.diff]
    /\ Goto(IF prepare /\ req.scope # File THEN "unstaged" ELSE "check")
    /\ UNCHANGED repository

PreUnstaged ==
    /\ pc = "unstaged"
    /\ kept' = [kept EXCEPT !.unstaged = enumerate_diff(FALSE, File)]
    /\ Goto("check")
    /\ UNCHANGED repository

\* git apply --check: whatever makes it fail, nothing was written.
Preflight ==
    /\ pc = "check"
    /\ IF Applies(index, selected, reverse)
       THEN Goto("blobs") /\ UNCHANGED kept
       ELSE Fail("failed") /\ UNCHANGED <<wrote, calm, budget>>
    /\ UNCHANGED repository

index_blobs_for_paths == [f \in selected_paths |-> index[f]]

PreBlobs ==
    /\ pc = "blobs"
    /\ kept' = [kept EXCEPT !.blobs = index_blobs_for_paths]
    /\ Goto("apply")
    /\ UNCHANGED repository

\* Before the apply any command may time out or fail, git apply --check included.
FailsBefore ==
    /\ pc \in Before
    /\ Fail(IF pc = "check" THEN "failed" ELSE "refused")
    /\ calm' = FALSE
    /\ UNCHANGED <<repository, wrote, budget>>

-----------------------------------------------------------------------------
(* git apply --cached, all or nothing, under index.lock. *)

Writes(hunks) ==
    /\ ~locked
    /\ Applies(index, hunks, reverse)
    /\ index' = Applied(index, hunks, reverse)
    /\ wrote' = TRUE

ApplySucceeds ==
    /\ pc = "apply"
    /\ Writes(selected)
    /\ pc' = "post_source"
    /\ UNCHANGED <<work, locked, req, kept, result, calm, budget>>

\* git refuses.  A lock that is there, or that stderr names, makes the answer
\* "failed", index_locked; a git that cannot tell, or another cause, does not.
ApplyFails ==
    /\ pc = "apply"
    /\ \/ locked /\ Fail("failed") /\ UNCHANGED calm
       \/ ~Applies(index, selected, reverse) /\ Fail("state_unknown") /\ UNCHANGED calm
       \/ \E state \in {"failed", "state_unknown"} : Fail(state) /\ calm' = FALSE
    /\ UNCHANGED <<repository, wrote, budget>>

\* The deadline: git is killed before it wrote the index, after, or between,
\* when it leaves its lock behind.
\* (Its mutant takes the deadline for a failure.)
Mut_timeout_failed ==
    /\ pc = "apply"
    /\ Writes(selected) \/ UNCHANGED <<index, wrote>>
    /\ Fail("failed")
    /\ calm' = FALSE
    /\ UNCHANGED <<work, locked, budget>>

ApplyTimesOut ==
    /\ pc = "apply"
    /\ \/ Writes(selected) /\ UNCHANGED locked
       \/ UNCHANGED <<index, locked, wrote>>
       \/ ~locked /\ locked' = TRUE /\ UNCHANGED <<index, wrote>>
    /\ Fail("state_unknown")
    /\ calm' = FALSE
    /\ UNCHANGED <<work, budget>>

\* git has read a part of the patch, and is content with it.
ApplyIsCutShort ==
    /\ pc = "apply"
    /\ \E part \in SUBSET selected : Writes(part)
    /\ Fail("state_unknown")
    /\ calm' = FALSE
    /\ UNCHANGED <<work, locked, budget>>

\* run_git_with_stdin gives up on git, before or after it has written: the
\* answer, git_apply_unavailable, has no state.
ApplyUnavailable ==
    /\ pc = "apply"
    /\ Writes(selected) \/ UNCHANGED <<index, wrote>>
    /\ Fail("unavailable")
    /\ calm' = FALSE
    /\ UNCHANGED <<work, locked, budget>>

-----------------------------------------------------------------------------
(* verify_after_apply. *)

Mismatch == Fail("state_unknown") /\ UNCHANGED <<wrote, calm, budget>>

\* verify_scoped_count_delta, the source's half; judged with the other half.
PostSource ==
    /\ pc = "post_source"
    /\ LET now == body_counts(Hunks(enumerate_diff(source_staged, req.scope)))
       IN  kept' = [kept EXCEPT !.source_delta =
                        body_counts(Hunks(req.diff)) = now (+) body_counts(selected)]
    /\ Goto("post_target")
    /\ UNCHANGED repository

PostTarget ==
    /\ pc = "post_target"
    /\ LET now == body_counts(Hunks(enumerate_diff(target_staged, req.scope)))
       IN  IF /\ kept.source_delta
              /\ now = body_counts(Hunks(kept.target)) (+) body_counts(selected)
           THEN Goto("post_blobs") /\ UNCHANGED kept
           ELSE Mismatch
    /\ UNCHANGED repository

\* expected_index_blobs_after_selected
expected ==
    [f \in selected_paths |->
        apply_selected_hunks_to_blob(Lines(kept.blobs[f]), OfFile(selected, f), reverse)]

\* A mutant: the counts of the hunks are proof enough.
Mut_counts_only ==
    /\ pc = "post_blobs"
    /\ kept' = [kept EXCEPT !.seen = index_blobs_for_paths]
    /\ IF prepare THEN Goto("full_staged")
       ELSE End("applied") /\ UNCHANGED <<req, wrote, calm, budget>>
    /\ UNCHANGED repository

verify_index_blob_delta ==
    /\ pc = "post_blobs"
    /\ IF [f \in selected_paths |-> Lines(index[f])] # expected
       THEN Mismatch
       ELSE /\ kept' = [kept EXCEPT !.seen = index_blobs_for_paths]
            /\ IF prepare
               THEN Goto("full_staged")
               ELSE End("applied") /\ UNCHANGED <<req, wrote, calm, budget>>
    /\ UNCHANGED repository

\* A mutant: the counts of the verification are proof of the commit as well.
Mut_verified_is_enough ==
    /\ pc = "full_staged"
    /\ Goto("full_unstaged") /\ kept' = [kept EXCEPT !.staged = index]
    /\ UNCHANGED repository

\* A mutant: the last look at the index is limited to the request's paths.
Mut_scoped_look ==
    /\ pc = "full_staged"
    /\ IF body_counts(Hunks(enumerate_diff(TRUE, req.scope))) # body_counts(selected)
       THEN Mismatch
       ELSE Goto("full_unstaged") /\ kept' = [kept EXCEPT !.staged = index]
    /\ UNCHANGED repository

\* full_staged_diff_matches_selected_group
FullStaged ==
    /\ pc = "full_staged"
    /\ IF body_counts(Hunks(enumerate_diff(TRUE, File))) # body_counts(selected)
       THEN Mismatch
       ELSE Goto("full_unstaged") /\ kept' = [kept EXCEPT !.staged = index]
    /\ UNCHANGED repository

\* unselected_file_inventory_counts
unselected(diff) == {d \in diff : d.file \notin selected_paths}

\* full_unstaged_diff_matches_prepare_commit_delta
FullUnstaged ==
    /\ pc = "full_unstaged"
    /\ LET now == enumerate_diff(FALSE, File)
       IN  IF /\ unselected(now) = unselected(kept.unstaged)
              /\ body_counts(Hunks(kept.unstaged))
                    = body_counts(Hunks(now)) (+) body_counts(selected)
           THEN End("applied") /\ UNCHANGED <<req, kept, wrote, calm, budget>>
           ELSE Mismatch
    /\ UNCHANGED repository

FailsAfter ==
    /\ pc \in After
    /\ Fail("state_unknown")
    /\ calm' = FALSE
    /\ UNCHANGED <<repository, wrote, budget>>

-----------------------------------------------------------------------------
(* Other programs: editors, git commands, other calls of this server.  What *)
(* they did before the listing the request was made of, Init says.          *)

Disturb ==
    /\ pc \notin {"idle", "done"}
    /\ budget > 0
    /\ budget' = budget - 1
    /\ UNCHANGED <<pc, req, kept, result, wrote>>

\* A write changes one line, a bound: a larger change is several writes.
OneLine(c, d) == c # Garbled => Cardinality((c \ d) \cup (d \ c)) = 1

Save(f, c) ==
    /\ Disturb
    /\ OneLine(work[f], c)
    /\ work' = [work EXCEPT ![f] = c]
    /\ calm' = FALSE
    /\ UNCHANGED <<index, locked>>

WriteIndex(f, c) ==
    /\ Disturb
    /\ ~locked /\ OneLine(index[f], c)
    /\ index' = [index EXCEPT ![f] = c]
    /\ calm' = FALSE
    /\ UNCHANGED <<work, locked>>

Lock == Disturb /\ ~locked /\ locked' = TRUE /\ UNCHANGED <<index, work, calm>>

Unlock == Disturb /\ locked /\ locked' = FALSE /\ UNCHANGED <<index, work, calm>>

-----------------------------------------------------------------------------
Trees == {t \in [File -> Contents] : \A f \in File : t[f] \in Content(f)}

Init ==
    /\ index \in Trees
    /\ work \in Trees
    /\ locked = FALSE
    /\ pc = "idle"
    /\ req = None
    /\ kept = NothingKept
    /\ result = "none"
    /\ wrote = FALSE
    /\ calm = TRUE
    /\ budget = Budget

Next ==
    \/ \E action \in Actions, scope \in Scopes : Request(action, scope)
    \/ Source \/ Clean \/ reject_mixed_direction_files \/ PreTarget \/ PreUnstaged
    \/ Preflight \/ PreBlobs \/ FailsBefore
    \/ ApplySucceeds \/ ApplyFails \/ ApplyTimesOut \/ ApplyIsCutShort \/ ApplyUnavailable
    \/ PostSource \/ PostTarget \/ verify_index_blob_delta \/ FullStaged \/ FullUnstaged
    \/ FailsAfter
    \/ \E f \in File : \E c \in Content(f) : Save(f, c) \/ WriteIndex(f, c)
    \/ Lock \/ Unlock

Spec == Init /\ [][Next]_vars

-----------------------------------------------------------------------------
(* Properties. *)

\* Types; a call that has written is at its verification, or over.
TypeOK ==
    /\ index \in [File -> Contents \cup {Garbled}]
    /\ work \in [File -> Contents]
    /\ pc \in {"idle", "apply", "done"} \cup Before \cup After
    /\ result \in {"none", "refused", "failed", "unavailable", "state_unknown", "applied"}
    /\ (result = "none") <=> (pc # "done")
    /\ wrote => pc \in After \cup {"done"}
    /\ budget \in 0 .. Budget

\* What the index would be if exactly the selected lines had come or gone.
Edited(tree, f) ==
    LET mine == {h \in selected : h.file = f}
        gone == UNION {h.gone : h \in mine}
        come == UNION {h.come : h \in mine}
    IN  IF reverse THEN (tree \ come) \cup gone ELSE (tree \ gone) \cup come

commit_ready == result = "applied" /\ prepare

\* The blob that the handler has read before its apply is the one whose hunks
\* the client has listed.
Listed(f) ==
    \E d \in req.diff : d.file = f /\ kept.blobs[f] = IF reverse THEN d.new ELSE d.old

\* A call that answers "applied" has seen in the index the blobs it had read
\* before its apply, changed by the lines of the selected hunks and no other,
\* whoever wrote meanwhile and wherever else the hunks would have fitted; unless
\* a blob had been rewritten before it was read, when the hunks may have gone
\* where others read the same.
AppliedIsExact ==
    result = "applied" =>
        \A f \in selected_paths : Listed(f) => kept.seen[f] = Edited(kept.blobs[f], f)

\* commit_ready: a file none of whose hunks was selected had in the index what
\* HEAD has, when the handler looked at the full index.
ReadyIsClean ==
    commit_ready => \A f \in File \ selected_paths : kept.staged[f] = HEAD[f]

\* How many of some lines read alike.
Reading(lines, text) == Cardinality({l \in lines : Text[l] = text})

\* commit_ready: in the other files the lines that differed from HEAD read, one by
\* one, like those of the selected hunks, whoever wrote the index meanwhile.  They
\* may be others that read the same: git, other programs and the last look go by
\* what lines read.
ReadyIsExact ==
    commit_ready =>
        \A f \in selected_paths :
            LET mine == {h \in selected : h.file = f}
                staged == kept.staged[f]
            IN  \A text \in {Text[l] : l \in Line} :
                    /\ Reading(staged \ HEAD[f], text) = Reading(UNION {h.come : h \in mine}, text)
                    /\ Reading(HEAD[f] \ staged, text) = Reading(UNION {h.gone : h \in mine}, text)

\* docs/GIT_HUNK_STAGING.md, REQ-9: a refusal, or a "failed", comes before any
\* write of the call's own.
FailedMeansUntouched == result \in {"refused", "failed"} => ~wrote

\* A call during which nobody else writes and no command fails never ends in
\* doubt: it is refused before it writes, finds the lock, or is verified.  (Of
\* files without a second place nearer to the line at which git looks first: an
\* instance has to be of such files, and of hunks with context.)
UndisturbedIsVerified ==
    calm => result # "state_unknown" /\ (result = "failed" => locked)
=============================================================================

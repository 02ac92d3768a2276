----------------------------- MODULE Hunks ----------------------------------
(***************************************************************************)
(* GitStageHunks (tools-mcp-git/src/git/handlers/apply.rs): a client lists *)
(* the hunks of a diff, picks some, and asks for exactly these to be       *)
(* staged (prepare_commit, stage_only) or taken back (unstage).  The       *)
(* handler runs a dozen git commands one after the other, and other        *)
(* programs save files and write the index between any two of them.        *)
(*                                                                         *)
(* A file is a set of lines out of a master text: the Anchor lines are     *)
(* always there, the others come and go.  Lines keep their order, and      *)
(* different lines may read the same, so a hunk may fit in several places. *)
(***************************************************************************)
EXTENDS Naturals, FiniteSets, Bags, SequencesExt

CONSTANTS
    Line,       \* the lines of the master text, numbered in their order
    File,       \* the files
    FileOf,     \* the file of a line
    Text,       \* what a line reads
    Anchor,     \* the lines that are always present
    HEAD,       \* the commit HEAD points to: the lines of every file
    Context,    \* the request's context: unchanged lines around a change
    Actions,    \* the actions clients ask for
    Scopes,     \* the path lists they give
    Budget,     \* bound on what other programs do
    Garbled,    \* a file that is no part of the master text
    None

Present(f) == {l \in Line : FileOf[l] = f}
Content(f) == {Present(f) \ out : out \in SUBSET (Present(f) \ Anchor)}

Contents == UNION {Content(f) : f \in File}

InOrder(c) ==
    [i \in 1 .. Cardinality(c) |-> CHOOSE l \in c : Cardinality({k \in c : k < l}) = i - 1]

\* The lines of a blob, as they read (split_blob_lines_keep_endings).
Blob == [c \in Contents |->
            LET all == InOrder(c) IN [i \in DOMAIN all |-> Text[all[i]]]]
Lines(c) == IF c = Garbled THEN <<Garbled>> ELSE Blob[c]

ASSUME GarbledAssumption == Garbled \notin Contents /\ \A l \in Line : Text[l] # Garbled
ASSUME NoneAssumption == None \notin [cursor : Nat, output : Seq({Text[l] : l \in Line})]
ASSUME LineAssumption == Line \subseteq Nat /\ IsFiniteSet(Line)
ASSUME ContextAssumption == Context \in Nat /\ Budget \in Nat
ASSUME ActionAssumption == Actions \subseteq {"prepare_commit", "stage_only", "unstage"}
ASSUME ScopeAssumption == Scopes \subseteq SUBSET File
ASSUME HeadAssumption == \A f \in File : HEAD[f] \in Content(f)
ASSUME TextAssumption ==
    \A f \in File : \A c, d \in Content(f) : Lines(c) = Lines(d) => c = d

-----------------------------------------------------------------------------
(* The hunks of a diff, as git prints them. *)

\* One hunk: the lines from the i-th to the j-th of those in either version.
Hunk(f, old, new, i, j) ==
    LET all == InOrder(old \cup new)
        Count(c, a, b) == Cardinality({k \in a .. b : all[k] \in c})
        Start(c) == Count(c, 1, i - 1) + IF Count(c, i, j) = 0 THEN 0 ELSE 1
        Sign(l) == IF l \notin new THEN "-" ELSE IF l \notin old THEN "+" ELSE " "
    IN  [file |-> f, old_start |-> Start(old), new_start |-> Start(new),
         first |-> i,
         body |-> [k \in 1 .. j - i + 1 |-> <<Sign(all[i + k - 1]), Text[all[i + k - 1]]>>],
         gone |-> {all[k] : k \in i .. j} \ new, \* not in the output of git
         come |-> {all[k] : k \in i .. j} \ old]

\* Changes at most twice the context apart share a hunk.
HunksBetween(f, old, new) ==
    LET all == InOrder(old \cup new)
        Changed(i) == all[i] \notin old \cap new
        Near(i) == \E d \in 0 .. Context : \/ i - d >= 1 /\ Changed(i - d)
                                           \/ i + d <= Len(all) /\ Changed(i + d)
        near == {i \in 1 .. Len(all) : Near(i)}
        Runs == {r \in near \X near :
                    /\ r[1] <= r[2] /\ r[1] .. r[2] \subseteq near
                    /\ r[1] - 1 \notin near /\ r[2] + 1 \notin near}
    IN  {Hunk(f, old, new, r[1], r[2]) : r \in Runs}

HunkTable == [f \in File |-> [p \in Content(f) \X Content(f) |-> HunksBetween(f, p[1], p[2])]]

GarbledHunk(f) == [file |-> f, old_start |-> 1, new_start |-> 1, first |-> 1,
                   body |-> <<>>, gone |-> {}, come |-> {}]

\* The files that differ, with the blobs of their index header: as much as the
\* diff_id depends on.
Diff(old, new, scope) ==
    {[file |-> f, old |-> old[f], new |-> new[f]] : f \in {g \in scope : old[g] # new[g]}}

Hunks(diff) ==
    UNION {IF Garbled \in {d.old, d.new} THEN {GarbledHunk(d.file)}
           ELSE HunkTable[d.file][<<d.old, d.new>>] : d \in diff}

hunk_body_key(h) == <<h.file, h.body>>

body_counts(hunks) ==
    [k \in {hunk_body_key(h) : h \in hunks} |->
        Cardinality({h \in hunks : hunk_body_key(h) = k})]

Paths(hunks) == {h.file : h \in hunks}

OfFile(hunks, f) ==
    LET mine == {h \in hunks : h.file = f}
        firsts == InOrder({h.first : h \in mine})
    IN  [i \in DOMAIN firsts |-> CHOOSE h \in mine : h.first = firsts[i]]

\* What a hunk reads before and after (hunk_source_target_lines).
Side(h, absent) ==
    LET kept == InOrder({k \in DOMAIN h.body : h.body[k][1] # absent})
    IN  [i \in DOMAIN kept |-> h.body[kept[i]][2]]
SourceLines(h, reverse) == Side(h, IF reverse THEN "-" ELSE "+")
TargetLines(h, reverse) == Side(h, IF reverse THEN "+" ELSE "-")

-----------------------------------------------------------------------------
(* Two ways to apply hunks: the handler's and git's. *)

\* apply_selected_hunks_to_blob: every hunk at the line its header names.
Splice(h, reverse, lines, done) ==
    LET start_line == IF reverse THEN h.new_start ELSE h.old_start
        start == IF start_line = 0 THEN 0 ELSE start_line - 1
        end == start + Len(SourceLines(h, reverse))
    IN  IF /\ done # None
           /\ start >= done.cursor
           /\ end <= Len(lines)
           /\ SubSeq(lines, start + 1, end) = SourceLines(h, reverse)
        THEN [cursor |-> end,
              output |-> done.output \o SubSeq(lines, done.cursor + 1, start)
                                     \o TargetLines(h, reverse)]
        ELSE None

apply_selected_hunks_to_blob(lines, hunks, reverse) ==
    LET done[n \in 0 .. Len(hunks)] ==
            IF n = 0 THEN [cursor |-> 0, output |-> <<>>]
            ELSE Splice(hunks[n], reverse, lines, done[n - 1])
        all == done[Len(hunks)]
    IN  IF all = None THEN None
        ELSE all.output \o SubSeq(lines, all.cursor + 1, Len(lines))

\* git apply --recount, with --unidiff-zero when there is no context: a hunk goes
\* to the nearest place where it fits, the later one first; a hunk of the first
\* line only at the top, one without trailing context only at the end.  Lines an
\* earlier hunk has written do not match.
Fits(image, h, source, first, p) ==
    /\ p + Len(source) <= Len(image)
    /\ \A i \in DOMAIN source : image[p + i].text = source[i] /\ ~image[p + i].new
    /\ first = 0 \/ (first = 1 /\ Context > 0) => p = 0
    /\ Context > 0 /\ Last(h.body)[1] # " " => p + Len(source) = Len(image)

GitHunk(image, h, reverse) ==
    LET source == SourceLines(h, reverse)
        target == TargetLines(h, reverse)
        first == IF reverse THEN h.new_start ELSE h.old_start
        line == IF reverse THEN h.old_start ELSE h.new_start
        wish == IF line = 0 THEN 0 ELSE line - 1
        Far(p) == IF p > wish THEN 2 * (p - wish) - 1 ELSE 2 * (wish - p)
        places == {p \in 0 .. Len(image) : Fits(image, h, source, first, p)}
        place == CHOOSE p \in places : \A q \in places : Far(p) <= Far(q)
    IN  IF places = {} THEN None
        ELSE SubSeq(image, 1, place)
             \o [i \in DOMAIN target |-> [text |-> target[i], new |-> TRUE]]
             \o SubSeq(image, place + Len(source) + 1, Len(image))

GitFile(c, hunks, reverse) ==
    LET image == [i \in DOMAIN Lines(c) |-> [text |-> Lines(c)[i], new |-> FALSE]]
    IN  FoldLeft(LAMBDA acc, h : IF acc = None THEN None ELSE GitHunk(acc, h, reverse),
                 image, hunks)

\* The content that reads so, if the master text has one.
Recognised(f, image) ==
    LET read == [i \in DOMAIN image |-> image[i].text]
        same == {c \in Content(f) : Lines(c) = read}
    IN  IF same = {} THEN Garbled ELSE CHOOSE c \in same : TRUE

Applies(tree, hunks, reverse) ==
    \A f \in Paths(hunks) : GitFile(tree[f], OfFile(hunks, f), reverse) # None

Applied(tree, hunks, reverse) ==
    [f \in File |-> IF f \in Paths(hunks)
                    THEN Recognised(f, GitFile(tree[f], OfFile(hunks, f), reverse))
                    ELSE tree[f]]
=============================================================================

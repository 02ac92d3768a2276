---------------------------- MODULE ChildProcess ----------------------------
(***************************************************************************)
(* One run of an external program: wait_with_limits                        *)
(* (tools-mcp-core/src/process.rs), which PowerShell commands go through,  *)
(* and run_git_with_stdin (tools-mcp-git/src/git/mod.rs), which feeds      *)
(* git's stdin as well and limits every wait.  A task reads each output    *)
(* pipe and another writes stdin while the handler waits for the child,    *)
(* kills it at the deadline, and collects the tasks one after the other.   *)
(*                                                                         *)
(* The child reads, writes, forks a helper that inherits some of its       *)
(* pipes, and exits, in any order and as late as it likes.  A child with a *)
(* plan is one that does its work as long as nobody blocks it, and no      *)
(* timer of the handler expires on it.  Data are counted in chunks.        *)
(***************************************************************************)
EXTENDS Naturals, FiniteSets

CONSTANTS
    Kinds,      \* the runners: "plain" or "git"
    Input,      \* chunks git may be given on stdin
    PipeSize,   \* chunks a pipe holds
    Limit,      \* chunks kept of an output stream: the byte limits
    MaxOutput,  \* bound on what is written to an output stream
    Plans       \* the orders in which children with a plan use their streams

Stream == {"stdout", "stderr"}
Pipe == Stream \cup {"stdin"}

ASSUME SizeAssumption == /\ PipeSize \in Nat \ {0}
                         /\ MaxOutput \in Nat
                         /\ Input \subseteq Nat
                         /\ Limit \in [Stream -> Nat]

VARIABLES
    kind,       \* which runner
    input,      \* chunks to deliver to stdin
    plan,       \* the child's plan, or none
    child,      \* running, exited, reaped by the handler
    status,     \* how it exited
    helper,     \* the pipes a process forked by the child still holds
    forked,     \* it has forked
    sent, read, \* chunks written to stdin, and read from it
    written,    \* chunks written to an output pipe
    taken,      \* chunks its task has read
    got,        \* and kept
    truncated,  \* it has dropped some
    task,       \* the state of the capture tasks
    writer,     \* and of the stdin task
    signalled,  \* the child has been sent the kill signal
    timed_out,
    pc,         \* where the handler is
    result

childVars == <<child, status, helper, forked, signalled>>
inVars == <<sent, read, writer>>
outVars == <<written, taken, got, truncated, task>>
setup == <<kind, input, plan>>
vars == <<setup, childVars, inVars, outVars, timed_out, pc, result>>

NoPlan == <<>>
patient == plan # NoPlan

-----------------------------------------------------------------------------
(* The child and its helper. *)

\* A stream the child has done with.
Served(p) == IF p = "stdin" THEN read = input ELSE written[p] = MaxOutput

\* What comes before it in the plan is done with.
Due(p) == \A i, j \in DOMAIN plan : plan[j] = p /\ i < j => Served(plan[i])

Read ==
    /\ sent > read
    /\ read' = read + 1
    /\ UNCHANGED <<sent, writer>>

Write(s) ==
    /\ written[s] < MaxOutput
    /\ written[s] - taken[s] < PipeSize
    /\ written' = [written EXCEPT ![s] = @ + 1]
    /\ UNCHANGED <<taken, got, truncated, task>>

ChildReads ==
    /\ child = "running" /\ Due("stdin")
    /\ Read
    /\ UNCHANGED <<setup, childVars, outVars, timed_out, pc, result>>

ChildWrites(s) ==
    /\ child = "running" /\ Due(s)
    /\ Write(s)
    /\ UNCHANGED <<setup, childVars, inVars, timed_out, pc, result>>

Fork(pipes) ==
    /\ child = "running" /\ ~patient /\ ~forked
    /\ forked' = TRUE /\ helper' = pipes
    /\ UNCHANGED <<setup, child, status, signalled, inVars, outVars, timed_out, pc, result>>

Exit(how) ==
    /\ child = "running"
    /\ patient => how = "success" /\ \A p \in Pipe : Served(p)
    /\ child' = "exited" /\ status' = how
    /\ UNCHANGED <<setup, helper, forked, signalled, inVars, outVars, timed_out, pc, result>>

\* The signal ends the child, not what it has forked.
DieOfSignal ==
    /\ child = "running" /\ signalled
    /\ child' = "exited" /\ status' = "killed"
    /\ UNCHANGED <<setup, helper, forked, signalled, inVars, outVars, timed_out, pc, result>>

HelperWrites(s) ==
    /\ s \in helper
    /\ Write(s)
    /\ UNCHANGED <<setup, childVars, inVars, timed_out, pc, result>>

HelperReads ==
    /\ "stdin" \in helper
    /\ Read
    /\ UNCHANGED <<setup, childVars, outVars, timed_out, pc, result>>

HelperEnds ==
    /\ helper # {}
    /\ helper' = {}
    /\ UNCHANGED <<setup, child, status, forked, signalled, inVars, outVars, timed_out, pc, result>>

ChildStep == ChildReads \/ (\E s \in Stream : ChildWrites(s)) \/ Exit("success")

-----------------------------------------------------------------------------
(* The tasks. *)

Held(p) == child = "running" \/ p \in helper

\* read_to_end_limited: up to the limit what is read is kept, afterwards the pipe
\* is drained all the same.  A mutant stops at the limit.
Mut_stops_at_limit(s) ==
    /\ task[s] = "reading" /\ written[s] > taken[s]
    /\ taken[s] < Limit[s]
    /\ taken' = [taken EXCEPT ![s] = @ + 1]
    /\ got' = [got EXCEPT ![s] = @ + 1]
    /\ UNCHANGED <<setup, childVars, inVars, written, truncated, task, timed_out, pc, result>>

Capture(s) ==
    /\ task[s] = "reading" /\ written[s] > taken[s]
    /\ taken' = [taken EXCEPT ![s] = @ + 1]
    /\ IF got[s] < Limit[s]
       THEN got' = [got EXCEPT ![s] = @ + 1] /\ UNCHANGED truncated
       ELSE truncated' = [truncated EXCEPT ![s] = TRUE] /\ UNCHANGED got
    /\ UNCHANGED <<setup, childVars, inVars, written, task, timed_out, pc, result>>

\* The end of the pipe: empty, and nobody holds its other end.  A mutant asks
\* for the child alone.
Mut_child_gone(s) ==
    /\ task[s] = "reading" /\ child # "running"
    /\ task' = [task EXCEPT ![s] = "finished"]
    /\ UNCHANGED <<setup, childVars, inVars, written, taken, got, truncated, timed_out, pc, result>>

CaptureEnds(s) ==
    /\ task[s] = "reading" /\ written[s] = taken[s] /\ ~Held(s)
    /\ task' = [task EXCEPT ![s] = "finished"]
    /\ UNCHANGED <<setup, childVars, inVars, written, taken, got, truncated, timed_out, pc, result>>

\* write_git_stdin_to.
WriteInput ==
    /\ writer = "writing" /\ sent < input /\ sent - read < PipeSize /\ Held("stdin")
    /\ sent' = sent + 1
    /\ UNCHANGED <<setup, childVars, read, writer, outVars, timed_out, pc, result>>

InputEnds ==
    /\ writer = "writing"
    /\ \/ sent = input /\ writer' = "delivered"
       \/ sent < input /\ ~Held("stdin") /\ writer' = "broken"
    /\ UNCHANGED <<setup, childVars, sent, read, outVars, timed_out, pc, result>>

-----------------------------------------------------------------------------
(* The handler. *)

Finish(how) ==
    /\ pc' = "done" /\ result' = how

Reap ==
    /\ child = "exited"
    /\ child' = "reaped"
    /\ pc' = "stdout"
    /\ UNCHANGED <<setup, status, helper, forked, signalled, inVars, outVars, timed_out, result>>

ChildEnds == pc = "wait" /\ Reap

\* The deadline: the child is killed.  git's runner gives up at once if that
\* fails, the other waits all the same.
Deadline ==
    /\ pc = "wait" /\ ~patient
    /\ timed_out' = TRUE
    /\ \/ signalled' = TRUE /\ pc' = "kill" /\ UNCHANGED result
       \/ kind = "git" /\ Finish("error") /\ UNCHANGED signalled
       \/ kind = "plain" /\ pc' = "kill" /\ UNCHANGED <<signalled, result>>
    /\ UNCHANGED <<setup, child, status, helper, forked, inVars, outVars>>

KilledChildEnds == pc = "kill" /\ Reap

\* The grace period of wait_after_timeout_kill.  git's runner awaits the killed
\* child before it starts its own, which therefore never expires.
KillGraceExpires ==
    /\ pc = "kill" /\ kind = "plain"
    /\ Finish("error")
    /\ UNCHANGED <<setup, childVars, inVars, outVars, timed_out>>

After(s) == IF s = "stdout" THEN "stderr" ELSE IF kind = "git" THEN "stdin" ELSE "done"

\* collect_capture, collect_capture_with_grace
Collect(s) ==
    /\ pc = s /\ task[s] = "finished"
    /\ pc' = After(s)
    /\ result' = IF After(s) = "done" THEN "ok" ELSE result
    /\ UNCHANGED <<setup, childVars, inVars, outVars, timed_out>>

CaptureGraceExpires(s) ==
    /\ pc = s /\ task[s] = "reading" /\ kind = "git" /\ ~patient
    /\ task' = [task EXCEPT ![s] = "aborted"]
    /\ Finish("error")
    /\ UNCHANGED <<setup, childVars, inVars, written, taken, got, truncated, timed_out>>

\* collect_stdin_with_grace: an unfinished writer is aborted, the call goes on.
\* One mutant leaves the writer alone, one does not wait for it.
Mut_leave_writer ==
    /\ pc = "stdin" /\ ~patient
    /\ Finish("ok")
    /\ UNCHANGED <<setup, childVars, inVars, outVars, timed_out>>

Mut_no_wait ==
    /\ pc = "stdin"
    /\ writer' = IF writer = "writing" THEN "aborted" ELSE writer
    /\ Finish("ok")
    /\ UNCHANGED <<setup, childVars, sent, read, outVars, timed_out>>

CollectInput ==
    /\ pc = "stdin"
    /\ \/ writer # "writing" /\ UNCHANGED writer
       \/ writer = "writing" /\ ~patient /\ writer' = "aborted"
    /\ Finish("ok")
    /\ UNCHANGED <<setup, childVars, sent, read, outVars, timed_out>>

-----------------------------------------------------------------------------
Init ==
    /\ kind \in Kinds
    /\ plan \in Plans \cup {NoPlan}
    /\ input \in IF kind = "git" THEN Input \cup {0} ELSE {0}
    /\ child = "running" /\ status = "none" /\ helper = {} /\ forked = FALSE
    /\ sent = 0 /\ read = 0
    /\ writer = IF input = 0 THEN "none" ELSE "writing"
    /\ written = [s \in Stream |-> 0] /\ taken = [s \in Stream |-> 0]
    /\ got = [s \in Stream |-> 0] /\ truncated = [s \in Stream |-> FALSE]
    /\ task = [s \in Stream |-> "reading"]
    /\ signalled = FALSE /\ timed_out = FALSE
    /\ pc = "wait" /\ result = "none"

Server ==
    \/ WriteInput \/ InputEnds
    \/ \E s \in Stream : Capture(s) \/ CaptureEnds(s)
    \/ ChildEnds \/ Deadline \/ KilledChildEnds \/ KillGraceExpires
    \/ \E s \in Stream : Collect(s) \/ CaptureGraceExpires(s)
    \/ CollectInput

World ==
    \/ ChildReads \/ (\E s \in Stream : ChildWrites(s))
    \/ \E pipes \in SUBSET Pipe : Fork(pipes)
    \/ \E how \in {"success", "failure"} : Exit(how)
    \/ DieOfSignal
    \/ (\E s \in Stream : HelperWrites(s)) \/ HelperReads \/ HelperEnds

Next == Server \/ World

Spec == Init /\ [][Next]_vars

\* Tasks run, timers expire, and the system ends what it has been told to kill.
\* Only a child with a plan goes on with its work.
Fairness ==
    /\ WF_vars(WriteInput) /\ WF_vars(InputEnds)
    /\ \A s \in Stream : WF_vars(Capture(s)) /\ WF_vars(CaptureEnds(s))
    /\ WF_vars(ChildEnds) /\ WF_vars(Deadline) /\ WF_vars(KilledChildEnds)
    /\ WF_vars(KillGraceExpires)
    /\ \A s \in Stream : WF_vars(Collect(s)) /\ WF_vars(CaptureGraceExpires(s))
    /\ WF_vars(CollectInput)
    /\ WF_vars(DieOfSignal)
    /\ WF_vars(patient /\ ChildStep)

FairSpec == Spec /\ Fairness

-----------------------------------------------------------------------------
(* Properties. *)

Counts ==
    /\ sent \in Nat /\ read \in Nat /\ read =< sent /\ sent =< input
    /\ written \in [Stream -> Nat] /\ taken \in [Stream -> Nat] /\ got \in [Stream -> Nat]
    /\ \A s \in Stream : taken[s] =< written[s] /\ written[s] =< MaxOutput /\ got[s] =< Limit[s]

TypeOK ==
    /\ Counts
    /\ kind \in Kinds /\ input \in Input \cup {0} /\ plan \in Plans \cup {NoPlan}
    /\ child \in {"running", "exited", "reaped"}
    /\ status \in {"none", "success", "failure", "killed"}
    /\ helper \subseteq Pipe
    /\ forked \in BOOLEAN /\ signalled \in BOOLEAN /\ timed_out \in BOOLEAN
    /\ truncated \in [Stream -> BOOLEAN]
    /\ task \in [Stream -> {"reading", "finished", "aborted"}]
    /\ writer \in {"none", "writing", "delivered", "broken", "aborted"}
    /\ pc \in {"wait", "kill", "done"} \cup Pipe
    /\ result \in {"none", "ok", "error"}

\* A call that returns a result returns the output as far as the limits allow,
\* all of it that the child and whatever it has forked will ever write, and says
\* truncated exactly of a stream that went on (ProcessResult, GitExecResult).
CaptureIsExact ==
    result = "ok" =>
        \A s \in Stream :
            /\ got[s] = IF written[s] < Limit[s] THEN written[s] ELSE Limit[s]
            /\ truncated[s] <=> written[s] > Limit[s]

\* A call that returns a result leaves no child, no zombie and no task behind.
NothingLeftBehind ==
    result = "ok" =>
        /\ child = "reaped"
        /\ \A s \in Stream : task[s] = "finished" /\ s \notin helper
        /\ writer # "writing"

\* A child that does its work is neither blocked nor killed: its input is
\* delivered, its output captured, its success reported, in whatever order it
\* uses its pipes and however small these are.
PlansAreServed ==
    patient /\ pc = "done" =>
        /\ result = "ok" /\ status = "success" /\ ~timed_out
        /\ writer \in {"none", "delivered"}

\* Every call ends, whatever the child does; one of wait_with_limits only unless
\* a process the child has forked holds an output pipe for ever.
EveryCallEnds ==
    \/ <>(pc = "done")
    \/ kind = "plain" /\ <>[](helper \cap Stream # {})
=============================================================================

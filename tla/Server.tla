-------------------------------- MODULE Server --------------------------------
(***************************************************************************)
(* The JSON-RPC loop of the server binary (tools-mcp-server/src/main.rs),  *)
(* its dispatcher (mcp_server.rs) and its registry of cancellable calls    *)
(* (composition.rs).                                                       *)
(*                                                                         *)
(* One task reads stdin.  It answers malformed input and handles           *)
(* notifications itself, and spawns a task for every request, which runs   *)
(* the tool and writes the response to the stdout all tasks share.  The    *)
(* loop ends at end of input, at a shutdown request, or when a write has   *)
(* failed; what was spawned is then joined, or aborted.                    *)
(*                                                                         *)
(* stdin is the choice, at every read, of the message found there.  A      *)
(* message without effect (a response, an unknown notification) is left    *)
(* out.  A frame is written in two parts, its first write and its last.    *)
(***************************************************************************)
EXTENDS Naturals, Sequences, FiniteSets, Functions

CONSTANTS
    Call,       \* tools/call requests sent on their own: cancellable
    Refused,    \* the calls that reach no tool: bad parameters, unknown name
    Other,      \* any other single request
    Batch,      \* batches: dispatched item by item, without cancellation
    Exit,       \* the messages of Other and Batch with a shutdown request
    Mute,       \* batches nothing in which is to be answered
    Malformed,  \* not JSON-RPC: answered with an error, reading goes on
    Broken,     \* framing lost: answered with an error, the server stops
    Id,         \* JSON-RPC ids
    IdOf,       \* the id of each call
    None

Request == Call \cup Other \cup Batch
Message == Request \cup Malformed \cup Broken

ASSUME ServerAssumption ==
    /\ Refused \subseteq Call
    /\ Exit \subseteq Other \cup Batch /\ Mute \subseteq Batch \ Exit
    /\ Call \cap (Other \cup Batch) = {} /\ Other \cap Batch = {}
    /\ Request \cap (Malformed \cup Broken) = {} /\ Malformed \cap Broken = {}
    /\ IdOf \in [Call -> Id]
    /\ None \notin Message

\* MCP: a client never uses an id twice in a session.
ASSUME UniqueIds == \A c, d \in Call : IdOf[c] = IdOf[d] => c = d

VARIABLES
    \* the reading task
    main,           \* its control point
    bad,            \* the malformed message it is answering
    abortPending,   \* abort_pending_tasks
    joined,         \* the tasks join_next has returned
    \* the spawned tasks
    task,           \* control point of each request's task
    aborted,        \* abort_all has reached the task
    token,          \* the call's CancellationToken is cancelled
    \* shared
    inflight,       \* InflightRegistry
    control,        \* first message in the control channel: no other is read
    abortRequested, \* abort_requested
    writer,         \* who holds the lock of stdout
    \* the client
    stdout,         \* the parts of frames it has received
    closed,         \* it has closed its end of stdout
    asked           \* history: the calls of tools that ran when it cancelled them

reader == <<main, bad, abortPending, joined>>
output == <<writer, stdout>>
vars == <<main, bad, abortPending, joined, task, aborted, token, inflight,
          control, abortRequested, writer, stdout, closed, asked>>

-----------------------------------------------------------------------------
(* Tasks *)

Live == {"running", "ready", "head", "tail", "sent", "failed"}
Ended == {"ended", "panicked", "dropped"}

Become(r, s) == task' = [task EXCEPT ![r] = s]

\* Mutants: registration forgotten; the guard of a dropped task does nothing.
Mut_no_register(r) == inflight
Mut_keep_dropped(r) ==
    IF r \in Call /\ ~aborted[r] THEN [inflight EXCEPT ![IdOf[r]] = None]
    ELSE inflight
\* InflightRegistry::register, InflightDropGuard::drop
registered(r) ==
    IF r \in Call THEN [inflight EXCEPT ![IdOf[r]] = r] ELSE inflight
released(r) ==
    IF r \in Call THEN [inflight EXCEPT ![IdOf[r]] = None] ELSE inflight

\* InflightRegistry::cancel
cancel(i) ==
    /\ token' = IF inflight[i] = None THEN token
                ELSE [token EXCEPT ![inflight[i]] = TRUE]
    /\ asked' = asked \cup {c \in Call \ Refused :
                              IdOf[c] = i /\ task[c] = "running"}

\* Mutant: the response of a cancelled call is sent all the same.
Mut_always_answers(r) == r \notin Mute
\* dispatch_jsonrpc_request and dispatch_jsonrpc_batch: whether the finished
\* request is answered.  call_with_cancellation looks at the token last; a call
\* that reaches no tool is answered whatever its token says.
Answers(r) == r \notin Mute /\ ~(r \in Call \ Refused /\ token[r])

Finish(r) ==
    /\ task[r] = "running"
    /\ Become(r, IF Answers(r) THEN "ready" ELSE "ended")
    /\ inflight' = IF Answers(r) THEN inflight ELSE released(r)
    /\ UNCHANGED <<reader, output, aborted, token, control, abortRequested,
                   closed, asked>>

\* The handler panics: the task unwinds and sends nothing.
Panic(r) ==
    /\ task[r] = "running"
    /\ Become(r, "panicked")
    /\ inflight' = released(r)
    /\ UNCHANGED <<reader, output, aborted, token, control, abortRequested,
                   closed, asked>>

\* A notifications/cancelled inside a batch.
CancelInBatch(r, i) ==
    /\ r \in Batch /\ task[r] = "running"
    /\ cancel(i)
    /\ UNCHANGED <<reader, output, task, aborted, inflight, control,
                   abortRequested, closed>>

\* Mutant: the lock is not waited for.
Mut_writer_free == TRUE
WriterFree == writer = None

LockWriter(r) ==
    /\ task[r] = "ready" /\ WriterFree
    /\ writer' = r
    /\ Become(r, "head")
    /\ UNCHANGED <<reader, aborted, token, inflight, control, abortRequested,
                   stdout, closed, asked>>

Put(m, part) == stdout' = IF closed THEN stdout ELSE Append(stdout, <<m, part>>)

WriteHead(r) ==
    /\ task[r] = "head"
    /\ Put(r, "head")
    /\ Become(r, "tail")
    /\ UNCHANGED <<reader, aborted, token, inflight, control, abortRequested,
                   writer, closed, asked>>

WriteTail(r) ==
    /\ task[r] = "tail" /\ ~closed
    /\ Put(r, "tail")
    /\ writer' = None
    /\ Become(r, "sent")
    /\ UNCHANGED <<reader, aborted, token, inflight, control, abortRequested,
                   closed, asked>>

WriteFails(r) ==
    /\ task[r] \in {"head", "tail"} /\ closed
    /\ writer' = None
    /\ Become(r, "failed")
    /\ UNCHANGED <<reader, aborted, token, inflight, control, abortRequested,
                   stdout, closed, asked>>

\* Mutant: nothing is sent.
Mut_no_signal(c) == control
\* control_tx.send: only the first message will ever be received.
Send(c) == IF control = "none" THEN c ELSE control

\* The task returns after a failed write, or after a successful one.
ReportFailure(r) ==
    /\ task[r] = "failed"
    /\ abortRequested' = TRUE
    /\ control' = Send("abort")
    /\ inflight' = released(r)
    /\ Become(r, "ended")
    /\ UNCHANGED <<reader, output, aborted, token, closed, asked>>

Complete(r) ==
    /\ task[r] = "sent"
    /\ control' = IF r \in Exit THEN Send("shutdown") ELSE control
    /\ inflight' = released(r)
    /\ Become(r, "ended")
    /\ UNCHANGED <<reader, output, aborted, token, abortRequested, closed, asked>>

\* The runtime drops an aborted task at an await.  Until it meets one the task
\* goes on, so its other steps stay possible.
Drop(r) ==
    /\ aborted[r] /\ task[r] \in {"running", "ready", "head", "tail"}
    /\ Become(r, "dropped")
    /\ inflight' = released(r)
    /\ writer' = IF writer = r THEN None ELSE writer
    /\ UNCHANGED <<reader, aborted, token, control, abortRequested, stdout,
                   closed, asked>>

-----------------------------------------------------------------------------
(* The read loop: a control message is taken before any input (biased).    *)

Reading == main = "read" /\ control = "none"

TakeControl ==
    /\ main = "read" /\ control # "none"
    /\ abortPending' = (control = "abort")
    /\ main' = "leave"
    /\ UNCHANGED <<bad, joined, task, aborted, token, inflight, control,
                   abortRequested, output, closed, asked>>

\* Mutant: the loop goes on until the shutdown has been answered.
Mut_keep_reading(r) == FALSE
\* request_requests_shutdown, batch_requests_shutdown
should_stop_reading(r) == r \in Exit

ReadRequest(r) ==
    /\ Reading
    /\ task[r] = "unread"
    /\ inflight' = registered(r)
    /\ Become(r, "running")
    /\ main' = IF should_stop_reading(r) THEN "leave" ELSE "read"
    /\ UNCHANGED <<bad, abortPending, joined, aborted, token, control,
                   abortRequested, output, closed, asked>>

ReadCancel(i) ==
    /\ Reading
    /\ cancel(i)
    /\ UNCHANGED <<reader, task, aborted, inflight, control, abortRequested,
                   output, closed>>

ReadEof ==
    /\ Reading
    /\ main' = "leave"
    /\ UNCHANGED <<bad, abortPending, joined, task, aborted, token, inflight,
                   control, abortRequested, output, closed, asked>>

\* Each malformed message is sent once: its answers can be told apart.
ReadMalformed(m) ==
    /\ Reading
    /\ \A n \in 1..Len(stdout) : stdout[n][1] # m
    /\ bad' = m
    /\ main' = "lock"
    /\ UNCHANGED <<abortPending, joined, task, aborted, token, inflight, control,
                   abortRequested, output, closed, asked>>

MainLocks ==
    /\ main = "lock" /\ WriterFree
    /\ writer' = bad
    /\ main' = "head"
    /\ UNCHANGED <<bad, abortPending, joined, task, aborted, token, inflight,
                   control, abortRequested, stdout, closed, asked>>

MainWritesHead ==
    /\ main = "head"
    /\ Put(bad, "head")
    /\ main' = "tail"
    /\ UNCHANGED <<bad, abortPending, joined, task, aborted, token, inflight,
                   control, abortRequested, writer, closed, asked>>

\* After an error of the framing nothing more can be read.
MainWritesTail ==
    /\ main = "tail" /\ ~closed
    /\ Put(bad, "tail")
    /\ writer' = None
    /\ bad' = None
    /\ abortPending' = (bad \in Broken)
    /\ main' = IF bad \in Broken THEN "leave" ELSE "read"
    /\ UNCHANGED <<joined, task, aborted, token, inflight, control,
                   abortRequested, closed, asked>>

MainWriteFails ==
    /\ main \in {"head", "tail"} /\ closed
    /\ writer' = None
    /\ bad' = None
    /\ abortPending' = TRUE
    /\ main' = "leave"
    /\ UNCHANGED <<joined, task, aborted, token, inflight, control,
                   abortRequested, stdout, closed, asked>>

-----------------------------------------------------------------------------
(* After the loop.  Tasks that ended before are in the model joined here,  *)
(* not at the top of the loop: neither changes anything but the set.       *)

\* Mutant: whatever ends the loop, what runs is aborted.
Mut_abort_always(flag) ==
    [r \in Request |-> aborted[r] \/ (task[r] # "unread" /\ r \notin joined)]
\* JoinSet::abort_all
abort_all(flag) ==
    [r \in Request |-> aborted[r] \/ (flag /\ task[r] # "unread" /\ r \notin joined)]

LeaveLoop ==
    /\ main = "leave"
    /\ aborted' = abort_all(abortPending \/ abortRequested)
    /\ main' = "join"
    /\ UNCHANGED <<bad, abortPending, joined, task, token, inflight, control,
                   abortRequested, output, closed, asked>>

\* JoinSet::join_next
Joinable(r) == task[r] \in Ended /\ r \notin joined

Join(r) ==
    /\ main = "join" /\ Joinable(r)
    /\ joined' = joined \cup {r}
    /\ aborted' = abort_all(abortRequested)
    /\ UNCHANGED <<main, bad, abortPending, task, token, inflight, control,
                   abortRequested, output, closed, asked>>

\* Mutant: what was aborted is not waited for.
Mut_leave_aborted == \A r \in Request : task[r] # "unread" => r \in joined \/ aborted[r]
AllJoined == \A r \in Request : task[r] # "unread" => r \in joined

ExitProcess ==
    /\ main = "join" /\ AllJoined
    /\ main' = "exited"
    /\ UNCHANGED <<bad, abortPending, joined, task, aborted, token, inflight,
                   control, abortRequested, output, closed, asked>>

\* Environment: the client goes away, and every later write fails.
CloseStdout ==
    /\ ~closed
    /\ closed' = TRUE
    /\ UNCHANGED <<reader, task, aborted, token, inflight, control,
                   abortRequested, output, asked>>

-----------------------------------------------------------------------------

Init ==
    /\ main = "read" /\ bad = None /\ abortPending = FALSE /\ joined = {}
    /\ task = [r \in Request |-> "unread"]
    /\ aborted = [r \in Request |-> FALSE]
    /\ token = [c \in Call |-> FALSE]
    /\ inflight = [i \in Id |-> None]
    /\ control = "none" /\ abortRequested = FALSE
    /\ writer = None /\ stdout = <<>> /\ closed = FALSE
    /\ asked = {}

TaskStep(r) ==
    \/ Finish(r)
    \/ LockWriter(r)
    \/ WriteHead(r)
    \/ WriteTail(r)
    \/ WriteFails(r)
    \/ ReportFailure(r)
    \/ Complete(r)
    \/ Drop(r)

\* What the reading task does without waiting for input.
MainStep ==
    \/ TakeControl
    \/ MainLocks
    \/ MainWritesHead
    \/ MainWritesTail
    \/ MainWriteFails
    \/ LeaveLoop
    \/ \E r \in Request : Join(r)
    \/ ExitProcess

Terminated == main = "exited" /\ UNCHANGED vars

Next ==
    \/ /\ main # "exited"
       /\ \/ \E r \in Request : \/ TaskStep(r)
                                \/ Panic(r)
                                \/ ReadRequest(r)
                                \/ \E i \in Id : CancelInBatch(r, i)
          \/ MainStep
          \/ \E i \in Id : ReadCancel(i)
          \/ \E m \in Malformed \cup Broken : ReadMalformed(m)
          \/ ReadEof
          \/ CloseStdout
    \/ Terminated

Spec == Init /\ [][Next]_vars

\* The runtime polls every task that can go on, and tools end: each has a
\* time limit of its own.  Nothing makes the client send or close anything.
FairSpec == /\ Spec
            /\ WF_vars(MainStep)
            /\ \A r \in Request : WF_vars(main # "exited" /\ TaskStep(r))

-----------------------------------------------------------------------------
(* Properties *)

TypeOK ==
    /\ main \in {"read", "lock", "head", "tail", "leave", "join", "exited"}
    /\ IF main \in {"lock", "head", "tail"} THEN bad \in Malformed \cup Broken
       ELSE bad = None
    /\ abortPending \in BOOLEAN
    /\ joined \subseteq {r \in Request : task[r] \in Ended}
    /\ task \in [Request -> {"unread"} \cup Live \cup Ended]
    /\ aborted \in [Request -> BOOLEAN]
    /\ token \in [Call -> BOOLEAN]
    /\ inflight \in [Id -> Call \cup {None}]
    /\ control \in {"none", "shutdown", "abort"}
    /\ abortRequested \in BOOLEAN
    /\ writer \in Message \cup {None}
    /\ stdout \in Seq(Message \X {"head", "tail"})
    /\ closed \in BOOLEAN
    /\ asked \subseteq Call \ Refused

\* Who holds the lock of stdout is between the two writes of a frame, and
\* nobody else is.
WriterExclusive ==
    /\ \A r \in Request : task[r] \in {"head", "tail"} <=> (writer = r)
    /\ writer \in Request \cup {bad, None}
    /\ main \in {"head", "tail"} <=> (bad # None /\ writer = bad)

Undisturbed == \A r \in Request : ~aborted[r]
Whole(s) ==
    /\ \A n \in 1..Len(s) :
          IF s[n][2] = "head"
          THEN n = Len(s) \/ s[n + 1] = <<s[n][1], "tail">>
          ELSE n > 1 /\ s[n - 1] = <<s[n][1], "head">>
    /\ IsInjective(s)

\* Frames reach the client one after the other, each whole and none twice, as
\* long as no task has been aborted in the middle of one.
FramesWhole ==
    Undisturbed => Whole(stdout)

\* Why they do: a frame left open is that of the holder of the lock, and nothing
\* malformed is answered twice.
OpenFrame ==
    Undisturbed /\ ~closed =>
        IF \/ \E r \in Request : task[r] = "tail"
           \/ main = "tail"
        THEN Len(stdout) > 0 /\ stdout[Len(stdout)] = <<writer, "head">>
        ELSE Len(stdout) > 0 => stdout[Len(stdout)][2] = "tail"
BadUnwritten ==
    main \in {"lock", "head"} => \A n \in 1..Len(stdout) : stdout[n][1] # bad

\* The registry holds exactly the calls that have not ended: a cancellation
\* finds every call it may come for, and no token outlives its call, not even
\* that of a call that was aborted (InflightDropGuard).
RegistryExact ==
    \A c \in Call : (inflight[IdOf[c]] = c) <=> task[c] \in Live

\* A call whose cancellation was handled before its tool returned is never
\* answered (cancellation_notification_suppresses_response_after_tool_completes).
CancelledIsSilent ==
    \A c \in asked : \A n \in 1..Len(stdout) : stdout[n][1] # c

\* Why it is: such a call has lost its token, and a task has written nothing
\* before it reaches the stage of writing.
Unwritten == {"unread", "running", "ready", "head"}
AskedIsCancelled ==
    \A c \in asked : token[c] /\ task[c] \in {"running"} \cup Ended
NothingWrittenYet ==
    \A r \in Request : task[r] \in Unwritten =>
        \A n \in 1..Len(stdout) : stdout[n][1] # r

\* The server drains what it has accepted: unless something had to be aborted,
\* it exits only after every request read was answered, was cancelled, or
\* failed to produce an answer (docs/GIT_HUNK_STAGING.md, shutdown).
Aborting == abortPending \/ abortRequested
Delivered(r) == \E n \in 1..Len(stdout) : stdout[n] = <<r, "tail">>
Unanswerable(r) == r \in Mute \/ (r \in Call \ Refused /\ token[r])
GracefulDrain ==
    main = "exited" /\ ~Aborting =>
        \A r \in Request : \/ task[r] \in {"unread", "panicked"}
                           \/ Delivered(r) \/ Unanswerable(r)

\* Why it does: a task ends with its response delivered, or else says so, and
\* the server exits with the last one.
DrainInv ==
    /\ \A r \in Request :
          /\ task[r] = "sent" => Delivered(r)
          /\ task[r] = "ended" =>
                Delivered(r) \/ Unanswerable(r) \/ abortRequested
          /\ aborted[r] \/ task[r] = "dropped" =>
                Aborting /\ main \in {"join", "exited"}
    /\ main = "exited" => AllJoined

ServerInv ==
    /\ TypeOK /\ WriterExclusive
    /\ RegistryExact /\ AskedIsCancelled
    /\ NothingWrittenYet /\ BadUnwritten /\ CancelledIsSilent
    /\ FramesWhole /\ OpenFrame
    /\ DrainInv

\* A shutdown request is the last request that is accepted.
ShutdownStopsReading ==
    [][(\E r \in Exit : task[r] # "unread") =>
          \A r \in Request : task[r] = "unread" => task'[r] = "unread"]_vars

\* What the client sees of it.  A request is open until its response is whole; a
\* call is revoked when it is cancelled before its tool has returned.
phase == CASE main \in {"read", "lock", "head", "tail"} -> "accepting"
           [] main \in {"leave", "join"} -> "draining"
           [] main = "exited" -> "over"
StateOf(r) ==
    IF Delivered(r) THEN "answered" ELSE
    CASE task[r] = "unread" -> "unread"
      [] task[r] \in Live -> IF r \in asked THEN "revoked" ELSE "open"
      [] task[r] = "ended" -> IF r \in Mute \cup asked THEN "silent" ELSE "lost"
      [] task[r] = "panicked" -> "broken"
      [] task[r] = "dropped" -> "lost"

Seen == INSTANCE Session WITH
    Revocable <- Call \ Refused,
    aborting <- Aborting,
    state <- [r \in Request |-> StateOf(r)]

\* The server is such a session, whatever is sent, cancelled or closed, and
\* whatever fails: no response is lost but by a server that aborts, which has
\* ceased to accept, and it exits with nothing open.
ImplementsSession == Seen!Spec

\* Every request that was accepted ends, and with the last one the server that
\* has stopped reading.  When the client no longer takes responses the server
\* ends too, even if nothing ever arrives on stdin again.
EveryTaskEnds ==
    /\ \A r \in Request : task[r] = "running" ~> task[r] \in Ended
    /\ main = "leave" ~> main = "exited"
    /\ abortRequested ~> main = "exited"
=============================================================================

------------------------- MODULE ChildProcessProofs -------------------------
(***************************************************************************)
(* What holds of a run of a child process for every size of the pipes, of  *)
(* the limits, of the input and of the output, and for every plan.         *)
(*                                                                         *)
(* CaptureIsExact speaks of the end of a call.  The invariant says it of   *)
(* every moment, of what a task has taken so far (Captures), and adds what *)
(* a finished task knows of the far end of its pipe (Ends) and what the    *)
(* place of the handler says about the tasks before it (Order).            *)
(***************************************************************************)
EXTENDS ChildProcess, TLAPS

-----------------------------------------------------------------------------
(* What a task has kept is what it has taken, up to the limit. *)
Captures ==
    \A s \in Stream :
        /\ got[s] = IF taken[s] < Limit[s] THEN taken[s] ELSE Limit[s]
        /\ truncated[s] <=> taken[s] > Limit[s]

(* A task that has finished has left nothing and nobody behind. *)
Ends ==
    \A s \in Stream :
        task[s] = "finished" =>
            taken[s] = written[s] /\ child # "running" /\ s \notin helper

(* The handler passes its stations in order. *)
Order ==
    /\ pc \in Pipe \/ result = "ok" => child = "reaped"
    /\ pc \in {"stderr", "stdin"} \/ result = "ok" => task["stdout"] = "finished"
    /\ pc = "stdin" \/ result = "ok" => task["stderr"] = "finished"
    /\ result = "none" <=> pc # "done"
    /\ result = "ok" => writer # "writing"
    /\ pc = "stdin" => kind = "git"
    /\ writer # "none" => kind = "git"

(* A child with a plan is neither disturbed nor cut short. *)
Undisturbed ==
    patient =>
        /\ helper = {} /\ ~signalled /\ ~timed_out
        /\ child # "running" => status = "success" /\ read = input
        /\ writer \notin {"broken", "aborted"}
        /\ pc # "kill" /\ result # "error"

ChildInv == TypeOK /\ Captures /\ Ends /\ Order /\ Undisturbed

-----------------------------------------------------------------------------
(* The first states satisfy the invariant. *)
LEMMA InitChildInv == Init => ChildInv
<1> SUFFICES ASSUME Init PROVE ChildInv
    OBVIOUS
<1>0. Counts
    BY SizeAssumption DEF Init, Counts, Stream
<1>1. TypeOK
    BY <1>0 DEF Init, TypeOK, Stream, Pipe
<1>2. Captures
    BY SizeAssumption DEF Init, Captures, Stream
<1>3. Ends /\ Order /\ Undisturbed
    BY DEF Init, Ends, Order, Undisturbed, Stream, Pipe, patient
<1> QED BY <1>1, <1>2, <1>3 DEF ChildInv

(* What is read has been written, and is no more than may be. *)
LEMMA CountsStep == ChildInv /\ [Next]_vars => Counts'
<1> SUFFICES ASSUME ChildInv, [Next]_vars PROVE Counts'
    OBVIOUS
<1> USE SizeAssumption DEF ChildInv, TypeOK, Counts, Stream, Pipe, setup, childVars, inVars, outVars
<1>1. CASE WriteInput
    BY <1>1 DEF WriteInput
<1>2. CASE InputEnds
    BY <1>2 DEF InputEnds
<1>3. ASSUME NEW s \in Stream, Capture(s) PROVE Counts'
    BY <1>3 DEF Capture
<1>4. ASSUME NEW s \in Stream, CaptureEnds(s) PROVE Counts'
    BY <1>4 DEF CaptureEnds
<1>5. CASE ChildEnds \/ KilledChildEnds
    BY <1>5 DEF ChildEnds, KilledChildEnds, Reap
<1>6. CASE Deadline
    BY <1>6 DEF Deadline, Finish
<1>7. CASE KillGraceExpires
    BY <1>7 DEF KillGraceExpires, Finish
<1>8. ASSUME NEW s \in Stream, Collect(s) PROVE Counts'
    BY <1>8 DEF Collect, After
<1>9. ASSUME NEW s \in Stream, CaptureGraceExpires(s) PROVE Counts'
    BY <1>9 DEF CaptureGraceExpires, Finish
<1>10. CASE CollectInput
    BY <1>10 DEF CollectInput, Finish
<1>11. CASE ChildReads \/ HelperReads
    BY <1>11 DEF ChildReads, HelperReads, Read
<1>12. ASSUME NEW s \in Stream, ChildWrites(s) \/ HelperWrites(s) PROVE Counts'
    BY <1>12 DEF ChildWrites, HelperWrites, Write
<1>13. ASSUME NEW pipes \in SUBSET Pipe, Fork(pipes) PROVE Counts'
    BY <1>13 DEF Fork
<1>14. ASSUME NEW how \in {"success", "failure"}, Exit(how) PROVE Counts'
    BY <1>14 DEF Exit
<1>15. CASE DieOfSignal \/ HelperEnds
    BY <1>15 DEF DieOfSignal, HelperEnds
<1>16. CASE UNCHANGED vars
    BY <1>16 DEF vars
<1> HIDE DEF ChildInv, TypeOK, Counts, Stream, Pipe, setup, childVars, inVars, outVars
<1> QED BY <1>1, <1>2, <1>3, <1>4, <1>5, <1>6, <1>7, <1>8, <1>9, <1>10, <1>11,
           <1>12, <1>13, <1>14, <1>15, <1>16 DEF Next, Server, World

(* The types. *)
LEMMA TypeStep == ChildInv /\ [Next]_vars => TypeOK'
<1> SUFFICES ASSUME ChildInv, [Next]_vars PROVE TypeOK'
    OBVIOUS
<1>0. Counts' /\ TypeOK
    BY CountsStep DEF ChildInv
<1> USE <1>0 DEF TypeOK, setup, childVars, inVars, outVars
<1>1. CASE WriteInput
    BY <1>1 DEF WriteInput
<1>2. CASE InputEnds
    BY <1>2 DEF InputEnds
<1>3. ASSUME NEW s \in Stream, Capture(s) PROVE TypeOK'
    <2>1. truncated' \in [Stream -> BOOLEAN]
        BY <1>3 DEF Capture
    <2> QED BY <1>3, <2>1 DEF Capture
<1>4. ASSUME NEW s \in Stream, CaptureEnds(s) PROVE TypeOK'
    BY <1>4 DEF CaptureEnds
<1>5. CASE ChildEnds \/ KilledChildEnds
    <2>1. pc' \in {"wait", "kill", "done"} \cup Pipe
        BY <1>5 DEF ChildEnds, KilledChildEnds, Reap, Pipe, Stream
    <2> QED BY <1>5, <2>1 DEF ChildEnds, KilledChildEnds, Reap
<1>6. CASE Deadline
    <2>1. signalled' \in BOOLEAN /\ timed_out' \in BOOLEAN
        BY <1>6 DEF Deadline
    <2>2. pc' \in {"wait", "kill", "done"} \cup Pipe /\ result' \in {"none", "ok", "error"}
        BY <1>6 DEF Deadline, Finish
    <2> QED BY <1>6, <2>1, <2>2 DEF Deadline
<1>7. CASE KillGraceExpires
    BY <1>7 DEF KillGraceExpires, Finish
<1>8. ASSUME NEW s \in Stream, Collect(s) PROVE TypeOK'
    <2>1. After(s) \in {"wait", "kill", "done"} \cup Pipe
        BY DEF After, Pipe, Stream
    <2> QED BY <1>8, <2>1 DEF Collect
<1>9. ASSUME NEW s \in Stream, CaptureGraceExpires(s) PROVE TypeOK'
    BY <1>9 DEF CaptureGraceExpires, Finish
<1>10. CASE CollectInput
    BY <1>10 DEF CollectInput, Finish
<1>11. CASE ChildReads \/ HelperReads
    BY <1>11 DEF ChildReads, HelperReads, Read
<1>12. ASSUME NEW s \in Stream, ChildWrites(s) \/ HelperWrites(s) PROVE TypeOK'
    BY <1>12 DEF ChildWrites, HelperWrites, Write
<1>13. ASSUME NEW pipes \in SUBSET Pipe, Fork(pipes) PROVE TypeOK'
    BY <1>13 DEF Fork
<1>14. ASSUME NEW how \in {"success", "failure"}, Exit(how) PROVE TypeOK'
    BY <1>14 DEF Exit
<1>15. CASE DieOfSignal \/ HelperEnds
    BY <1>15 DEF DieOfSignal, HelperEnds
<1>16. CASE UNCHANGED vars
    BY <1>16 DEF vars
<1> HIDE DEF TypeOK, setup, childVars, inVars, outVars
<1> QED BY <1>1, <1>2, <1>3, <1>4, <1>5, <1>6, <1>7, <1>8, <1>9, <1>10, <1>11,
           <1>12, <1>13, <1>14, <1>15, <1>16 DEF Next, Server, World

(* What is kept of an output. *)
LEMMA CapturesStep == ChildInv /\ [Next]_vars => Captures'
<1> SUFFICES ASSUME ChildInv, [Next]_vars PROVE Captures'
    OBVIOUS
<1> USE SizeAssumption DEF ChildInv, TypeOK, Counts, Captures, Stream, Pipe, setup, childVars, inVars, outVars
<1>1. CASE WriteInput
    BY <1>1 DEF WriteInput
<1>2. CASE InputEnds
    BY <1>2 DEF InputEnds
<1>3. ASSUME NEW s \in Stream, Capture(s) PROVE Captures'
    BY <1>3 DEF Capture
<1>4. ASSUME NEW s \in Stream, CaptureEnds(s) PROVE Captures'
    BY <1>4 DEF CaptureEnds
<1>5. CASE ChildEnds \/ KilledChildEnds
    BY <1>5 DEF ChildEnds, KilledChildEnds, Reap
<1>6. CASE Deadline
    BY <1>6 DEF Deadline, Finish
<1>7. CASE KillGraceExpires
    BY <1>7 DEF KillGraceExpires, Finish
<1>8. ASSUME NEW s \in Stream, Collect(s) PROVE Captures'
    BY <1>8 DEF Collect, After
<1>9. ASSUME NEW s \in Stream, CaptureGraceExpires(s) PROVE Captures'
    BY <1>9 DEF CaptureGraceExpires, Finish
<1>10. CASE CollectInput
    BY <1>10 DEF CollectInput, Finish
<1>11. CASE ChildReads \/ HelperReads
    BY <1>11 DEF ChildReads, HelperReads, Read
<1>12. ASSUME NEW s \in Stream, ChildWrites(s) \/ HelperWrites(s) PROVE Captures'
    BY <1>12 DEF ChildWrites, HelperWrites, Write
<1>13. ASSUME NEW pipes \in SUBSET Pipe, Fork(pipes) PROVE Captures'
    BY <1>13 DEF Fork
<1>14. ASSUME NEW how \in {"success", "failure"}, Exit(how) PROVE Captures'
    BY <1>14 DEF Exit
<1>15. CASE DieOfSignal \/ HelperEnds
    BY <1>15 DEF DieOfSignal, HelperEnds
<1>16. CASE UNCHANGED vars
    BY <1>16 DEF vars
<1> HIDE DEF ChildInv, TypeOK, Counts, Captures, Stream, Pipe, setup, childVars, inVars, outVars
<1> QED BY <1>1, <1>2, <1>3, <1>4, <1>5, <1>6, <1>7, <1>8, <1>9, <1>10, <1>11,
           <1>12, <1>13, <1>14, <1>15, <1>16 DEF Next, Server, World

(* What a finished task knows. *)
LEMMA EndsStep == ChildInv /\ [Next]_vars => Ends'
<1> SUFFICES ASSUME ChildInv, [Next]_vars PROVE Ends'
    OBVIOUS
<1> USE SizeAssumption DEF ChildInv, TypeOK, Counts, Ends, Stream, Pipe, setup, childVars, inVars, outVars
<1>1. CASE WriteInput
    BY <1>1 DEF WriteInput
<1>2. CASE InputEnds
    BY <1>2 DEF InputEnds
<1>3. ASSUME NEW s \in Stream, Capture(s) PROVE Ends'
    BY <1>3 DEF Capture
<1>4. ASSUME NEW s \in Stream, CaptureEnds(s) PROVE Ends'
    BY <1>4 DEF CaptureEnds, Held
<1>5. CASE ChildEnds \/ KilledChildEnds
    BY <1>5 DEF ChildEnds, KilledChildEnds, Reap
<1>6. CASE Deadline
    BY <1>6 DEF Deadline, Finish
<1>7. CASE KillGraceExpires
    BY <1>7 DEF KillGraceExpires, Finish
<1>8. ASSUME NEW s \in Stream, Collect(s) PROVE Ends'
    BY <1>8 DEF Collect, After
<1>9. ASSUME NEW s \in Stream, CaptureGraceExpires(s) PROVE Ends'
    BY <1>9 DEF CaptureGraceExpires, Finish
<1>10. CASE CollectInput
    BY <1>10 DEF CollectInput, Finish
<1>11. CASE ChildReads \/ HelperReads
    BY <1>11 DEF ChildReads, HelperReads, Read
<1>12. ASSUME NEW s \in Stream, ChildWrites(s) \/ HelperWrites(s) PROVE Ends'
    BY <1>12 DEF ChildWrites, HelperWrites, Write
<1>13. ASSUME NEW pipes \in SUBSET Pipe, Fork(pipes) PROVE Ends'
    BY <1>13 DEF Fork
<1>14. ASSUME NEW how \in {"success", "failure"}, Exit(how) PROVE Ends'
    BY <1>14 DEF Exit
<1>15. CASE DieOfSignal \/ HelperEnds
    BY <1>15 DEF DieOfSignal, HelperEnds
<1>16. CASE UNCHANGED vars
    BY <1>16 DEF vars
<1> HIDE DEF ChildInv, TypeOK, Counts, Ends, Stream, Pipe, setup, childVars, inVars, outVars
<1> QED BY <1>1, <1>2, <1>3, <1>4, <1>5, <1>6, <1>7, <1>8, <1>9, <1>10, <1>11,
           <1>12, <1>13, <1>14, <1>15, <1>16 DEF Next, Server, World

(* Where the handler is. *)
LEMMA OrderStep == ChildInv /\ [Next]_vars => Order'
<1> SUFFICES ASSUME ChildInv, [Next]_vars PROVE Order'
    OBVIOUS
<1> USE SizeAssumption DEF ChildInv, TypeOK, Counts, Order, Stream, Pipe, setup, childVars, inVars, outVars
<1>1. CASE WriteInput
    BY <1>1 DEF WriteInput
<1>2. CASE InputEnds
    BY <1>2 DEF InputEnds
<1>3. ASSUME NEW s \in Stream, Capture(s) PROVE Order'
    BY <1>3 DEF Capture
<1>4. ASSUME NEW s \in Stream, CaptureEnds(s) PROVE Order'
    BY <1>4 DEF CaptureEnds
<1>5. CASE ChildEnds \/ KilledChildEnds
    BY <1>5 DEF ChildEnds, KilledChildEnds, Reap
<1>6. CASE Deadline
    BY <1>6 DEF Deadline, Finish
<1>7. CASE KillGraceExpires
    BY <1>7 DEF KillGraceExpires, Finish
<1>8. ASSUME NEW s \in Stream, Collect(s) PROVE Order'
    BY <1>8 DEF Collect, After
<1>9. ASSUME NEW s \in Stream, CaptureGraceExpires(s) PROVE Order'
    BY <1>9 DEF CaptureGraceExpires, Finish
<1>10. CASE CollectInput
    BY <1>10 DEF CollectInput, Finish
<1>11. CASE ChildReads \/ HelperReads
    BY <1>11 DEF ChildReads, HelperReads, Read
<1>12. ASSUME NEW s \in Stream, ChildWrites(s) \/ HelperWrites(s) PROVE Order'
    BY <1>12 DEF ChildWrites, HelperWrites, Write
<1>13. ASSUME NEW pipes \in SUBSET Pipe, Fork(pipes) PROVE Order'
    BY <1>13 DEF Fork
<1>14. ASSUME NEW how \in {"success", "failure"}, Exit(how) PROVE Order'
    BY <1>14 DEF Exit
<1>15. CASE DieOfSignal \/ HelperEnds
    BY <1>15 DEF DieOfSignal, HelperEnds
<1>16. CASE UNCHANGED vars
    BY <1>16 DEF vars
<1> HIDE DEF ChildInv, TypeOK, Counts, Order, Stream, Pipe, setup, childVars, inVars, outVars
<1> QED BY <1>1, <1>2, <1>3, <1>4, <1>5, <1>6, <1>7, <1>8, <1>9, <1>10, <1>11,
           <1>12, <1>13, <1>14, <1>15, <1>16 DEF Next, Server, World

(* A child with a plan. *)
LEMMA UndisturbedStep == ChildInv /\ [Next]_vars => Undisturbed'
<1> SUFFICES ASSUME ChildInv, [Next]_vars PROVE Undisturbed'
    OBVIOUS
<1> USE SizeAssumption DEF ChildInv, TypeOK, Counts, Order, Undisturbed, patient, Stream, Pipe, setup, childVars, inVars, outVars
<1>1. CASE WriteInput
    BY <1>1 DEF WriteInput
<1>2. CASE InputEnds
    BY <1>2 DEF InputEnds, Held
<1>3. ASSUME NEW s \in Stream, Capture(s) PROVE Undisturbed'
    BY <1>3 DEF Capture
<1>4. ASSUME NEW s \in Stream, CaptureEnds(s) PROVE Undisturbed'
    BY <1>4 DEF CaptureEnds
<1>5. CASE ChildEnds \/ KilledChildEnds
    BY <1>5 DEF ChildEnds, KilledChildEnds, Reap
<1>6. CASE Deadline
    BY <1>6 DEF Deadline, Finish
<1>7. CASE KillGraceExpires
    BY <1>7 DEF KillGraceExpires, Finish
<1>8. ASSUME NEW s \in Stream, Collect(s) PROVE Undisturbed'
    BY <1>8 DEF Collect, After
<1>9. ASSUME NEW s \in Stream, CaptureGraceExpires(s) PROVE Undisturbed'
    BY <1>9 DEF CaptureGraceExpires, Finish
<1>10. CASE CollectInput
    BY <1>10 DEF CollectInput, Finish
<1>11. CASE ChildReads \/ HelperReads
    BY <1>11 DEF ChildReads, HelperReads, Read
<1>12. ASSUME NEW s \in Stream, ChildWrites(s) \/ HelperWrites(s) PROVE Undisturbed'
    BY <1>12 DEF ChildWrites, HelperWrites, Write
<1>13. ASSUME NEW pipes \in SUBSET Pipe, Fork(pipes) PROVE Undisturbed'
    BY <1>13 DEF Fork
<1>14. ASSUME NEW how \in {"success", "failure"}, Exit(how) PROVE Undisturbed'
    BY <1>14 DEF Exit, Served
<1>15. CASE DieOfSignal \/ HelperEnds
    BY <1>15 DEF DieOfSignal, HelperEnds
<1>16. CASE UNCHANGED vars
    BY <1>16 DEF vars
<1> HIDE DEF ChildInv, TypeOK, Counts, Order, Undisturbed, patient, Stream, Pipe, setup, childVars, inVars, outVars
<1> QED BY <1>1, <1>2, <1>3, <1>4, <1>5, <1>6, <1>7, <1>8, <1>9, <1>10, <1>11,
           <1>12, <1>13, <1>14, <1>15, <1>16 DEF Next, Server, World

-----------------------------------------------------------------------------
(* The invariant, and what follows of a call that has returned. *)
THEOREM ChildInvariant == Spec => []ChildInv
<1>1. ChildInv /\ [Next]_vars => ChildInv'
    BY CountsStep, TypeStep, CapturesStep, EndsStep, OrderStep, UndisturbedStep DEF ChildInv
<1> QED BY InitChildInv, <1>1, PTL DEF Spec

(* The variables keep their types, and the counts of a pipe their order. *)
THEOREM ChildTypeOK == Spec => []TypeOK
<1>1. ChildInv => TypeOK
    BY DEF ChildInv
<1> QED BY ChildInvariant, <1>1, PTL

(* A result has the output within the limits, and says truncated exactly when
   there was more: both tasks have seen the end of their pipe. *)
THEOREM OutputIsExact == Spec => []CaptureIsExact
<1>1. ChildInv => CaptureIsExact
    BY DEF ChildInv, Captures, Ends, Order, CaptureIsExact, Stream
<1> QED BY ChildInvariant, <1>1, PTL

(* A result leaves no child, no task and no pipe behind. *)
THEOREM ResultLeavesNothing == Spec => []NothingLeftBehind
<1>1. ChildInv => NothingLeftBehind
    BY DEF ChildInv, Ends, Order, NothingLeftBehind, Stream
<1> QED BY ChildInvariant, <1>1, PTL

(* The call of a child that does its work ends with its success and its input
   delivered, however small the pipes and whatever its order. *)
THEOREM PlansSucceed == Spec => []PlansAreServed
<1>1. ChildInv => PlansAreServed
    BY DEF ChildInv, TypeOK, Order, Undisturbed, PlansAreServed
<1> QED BY ChildInvariant, <1>1, PTL
=============================================================================

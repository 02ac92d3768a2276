----------------------------- MODULE ServerProofs -----------------------------
(* Theorems about Server, for any messages and ids. *)
EXTENDS Server, TLAPS

\* Init has the types.
LEMMA TypingInit == Init => TypeOK
<1>1. <<>> \in Seq(Message \X {"head", "tail"})
  OBVIOUS
<1>2. QED
  BY <1>1, ServerAssumption DEF Init, TypeOK, Live, Ended

\* Every action keeps the types.
LEMMA TypingStep ==
    TypeOK /\ [Next]_vars => TypeOK'
<1> SUFFICES ASSUME TypeOK, [Next]_vars
             PROVE  TypeOK'
  OBVIOUS
<1> USE ServerAssumption DEF reader, output, Request, Message, TypeOK, Live,
        Ended
<1>1. CASE TakeControl
  BY <1>1 DEF TakeControl
<1>2. CASE MainLocks
  BY <1>2 DEF MainLocks
<1>3. CASE MainWritesHead
  BY <1>3 DEF MainWritesHead, Put
<1>4. CASE MainWritesTail
  BY <1>4 DEF MainWritesTail, Put
<1>5. CASE MainWriteFails
  BY <1>5 DEF MainWriteFails
<1>6. CASE LeaveLoop
  BY <1>6 DEF LeaveLoop, abort_all
<1>7. CASE ExitProcess
  BY <1>7 DEF ExitProcess
<1>8. CASE ReadEof
  BY <1>8 DEF ReadEof, Reading
<1>9. CASE CloseStdout
  BY <1>9 DEF CloseStdout
<1>10. ASSUME NEW r \in Request, Finish(r)
      PROVE  TypeOK'
  BY <1>10 DEF Finish, Become, Answers, released
<1>11. ASSUME NEW r \in Request, LockWriter(r)
      PROVE  TypeOK'
  BY <1>11 DEF LockWriter, Become
<1>12. ASSUME NEW r \in Request, WriteHead(r)
      PROVE  TypeOK'
  BY <1>12 DEF WriteHead, Become, Put
<1>13. ASSUME NEW r \in Request, WriteTail(r)
      PROVE  TypeOK'
  BY <1>13 DEF WriteTail, Become, Put
<1>14. ASSUME NEW r \in Request, WriteFails(r)
      PROVE  TypeOK'
  BY <1>14 DEF WriteFails, Become
<1>15. ASSUME NEW r \in Request, ReportFailure(r)
      PROVE  TypeOK'
  BY <1>15 DEF ReportFailure, Become, released, Send
<1>16. ASSUME NEW r \in Request, Complete(r)
      PROVE  TypeOK'
  BY <1>16 DEF Complete, Become, released, Send
<1>17. ASSUME NEW r \in Request, Drop(r)
      PROVE  TypeOK'
  BY <1>17 DEF Drop, Become, released
<1>18. ASSUME NEW r \in Request, Panic(r)
      PROVE  TypeOK'
  BY <1>18 DEF Panic, Become, released
<1>19. ASSUME NEW r \in Request, ReadRequest(r)
      PROVE  TypeOK'
  BY <1>19 DEF ReadRequest, Become, registered, Reading
<1>20. ASSUME NEW r \in Request, Join(r)
      PROVE  TypeOK'
  BY <1>20 DEF Join, abort_all, Joinable
<1>21. ASSUME NEW r \in Request, NEW i \in Id, CancelInBatch(r, i)
      PROVE  TypeOK'
  BY <1>21 DEF CancelInBatch, cancel
<1>22. ASSUME NEW i \in Id, ReadCancel(i)
      PROVE  TypeOK'
  BY <1>22 DEF ReadCancel, cancel
<1>23. ASSUME NEW m \in Malformed \cup Broken, ReadMalformed(m)
      PROVE  TypeOK'
  BY <1>23 DEF ReadMalformed
<1>24. CASE UNCHANGED vars
  BY <1>24 DEF vars
<1>25. QED
  BY <1>1, <1>2, <1>3, <1>4, <1>5, <1>6, <1>7, <1>8, <1>9, <1>10,
     <1>11, <1>12, <1>13, <1>14, <1>15, <1>16, <1>17, <1>18, <1>19, <1>20,
     <1>21, <1>22, <1>23, <1>24
     DEF Next, TaskStep, MainStep, Terminated

\* Ids are unique, so registering or releasing one call leaves the others.
LEMMA RegistryStep ==
    TypeOK /\ RegistryExact /\ [Next]_vars => RegistryExact'
<1> SUFFICES ASSUME TypeOK, RegistryExact, [Next]_vars
             PROVE  RegistryExact'
  OBVIOUS
<1> USE ServerAssumption, UniqueIds DEF reader, output, Request, Message,
        TypeOK, RegistryExact, Live, Ended
<1>1. CASE TakeControl
  BY <1>1 DEF TakeControl
<1>2. CASE MainLocks
  BY <1>2 DEF MainLocks
<1>3. CASE MainWritesHead
  BY <1>3 DEF MainWritesHead, Put
<1>4. CASE MainWritesTail
  BY <1>4 DEF MainWritesTail, Put
<1>5. CASE MainWriteFails
  BY <1>5 DEF MainWriteFails
<1>6. CASE LeaveLoop
  BY <1>6 DEF LeaveLoop, abort_all
<1>7. CASE ExitProcess
  BY <1>7 DEF ExitProcess
<1>8. CASE ReadEof
  BY <1>8 DEF ReadEof, Reading
<1>9. CASE CloseStdout
  BY <1>9 DEF CloseStdout
<1>10. ASSUME NEW r \in Request, Finish(r)
      PROVE  RegistryExact'
  BY <1>10 DEF Finish, Become, Answers, released
<1>11. ASSUME NEW r \in Request, LockWriter(r)
      PROVE  RegistryExact'
  BY <1>11 DEF LockWriter, Become
<1>12. ASSUME NEW r \in Request, WriteHead(r)
      PROVE  RegistryExact'
  BY <1>12 DEF WriteHead, Become, Put
<1>13. ASSUME NEW r \in Request, WriteTail(r)
      PROVE  RegistryExact'
  BY <1>13 DEF WriteTail, Become, Put
<1>14. ASSUME NEW r \in Request, WriteFails(r)
      PROVE  RegistryExact'
  BY <1>14 DEF WriteFails, Become
<1>15. ASSUME NEW r \in Request, ReportFailure(r)
      PROVE  RegistryExact'
  BY <1>15 DEF ReportFailure, Become, released, Send
<1>16. ASSUME NEW r \in Request, Complete(r)
      PROVE  RegistryExact'
  BY <1>16 DEF Complete, Become, released, Send
<1>17. ASSUME NEW r \in Request, Drop(r)
      PROVE  RegistryExact'
  BY <1>17 DEF Drop, Become, released
<1>18. ASSUME NEW r \in Request, Panic(r)
      PROVE  RegistryExact'
  BY <1>18 DEF Panic, Become, released
<1>19. ASSUME NEW r \in Request, ReadRequest(r)
      PROVE  RegistryExact'
  BY <1>19 DEF ReadRequest, Become, registered, Reading
<1>20. ASSUME NEW r \in Request, Join(r)
      PROVE  RegistryExact'
  BY <1>20 DEF Join, abort_all, Joinable
<1>21. ASSUME NEW r \in Request, NEW i \in Id, CancelInBatch(r, i)
      PROVE  RegistryExact'
  BY <1>21 DEF CancelInBatch, cancel
<1>22. ASSUME NEW i \in Id, ReadCancel(i)
      PROVE  RegistryExact'
  BY <1>22 DEF ReadCancel, cancel
<1>23. ASSUME NEW m \in Malformed \cup Broken, ReadMalformed(m)
      PROVE  RegistryExact'
  BY <1>23 DEF ReadMalformed
<1>24. CASE UNCHANGED vars
  BY <1>24 DEF vars
<1>25. QED
  BY <1>1, <1>2, <1>3, <1>4, <1>5, <1>6, <1>7, <1>8, <1>9, <1>10,
     <1>11, <1>12, <1>13, <1>14, <1>15, <1>16, <1>17, <1>18, <1>19, <1>20,
     <1>21, <1>22, <1>23, <1>24
     DEF Next, TaskStep, MainStep, Terminated

\* The registry leads the cancellation to the token of the call.
LEMMA AskedStep ==
    TypeOK /\ RegistryExact /\ AskedIsCancelled /\ [Next]_vars => AskedIsCancelled'
<1> SUFFICES ASSUME TypeOK, RegistryExact, AskedIsCancelled, [Next]_vars
             PROVE  AskedIsCancelled'
  OBVIOUS
<1> USE ServerAssumption, UniqueIds DEF reader, output, Request, Message,
        TypeOK, RegistryExact, AskedIsCancelled, Live, Ended
<1>1. CASE TakeControl
  BY <1>1 DEF TakeControl
<1>2. CASE MainLocks
  BY <1>2 DEF MainLocks
<1>3. CASE MainWritesHead
  BY <1>3 DEF MainWritesHead, Put
<1>4. CASE MainWritesTail
  BY <1>4 DEF MainWritesTail, Put
<1>5. CASE MainWriteFails
  BY <1>5 DEF MainWriteFails
<1>6. CASE LeaveLoop
  BY <1>6 DEF LeaveLoop, abort_all
<1>7. CASE ExitProcess
  BY <1>7 DEF ExitProcess
<1>8. CASE ReadEof
  BY <1>8 DEF ReadEof, Reading
<1>9. CASE CloseStdout
  BY <1>9 DEF CloseStdout
<1>10. ASSUME NEW r \in Request, Finish(r)
      PROVE  AskedIsCancelled'
  BY <1>10 DEF Finish, Become, Answers, released
<1>11. ASSUME NEW r \in Request, LockWriter(r)
      PROVE  AskedIsCancelled'
  BY <1>11 DEF LockWriter, Become
<1>12. ASSUME NEW r \in Request, WriteHead(r)
      PROVE  AskedIsCancelled'
  BY <1>12 DEF WriteHead, Become, Put
<1>13. ASSUME NEW r \in Request, WriteTail(r)
      PROVE  AskedIsCancelled'
  BY <1>13 DEF WriteTail, Become, Put
<1>14. ASSUME NEW r \in Request, WriteFails(r)
      PROVE  AskedIsCancelled'
  BY <1>14 DEF WriteFails, Become
<1>15. ASSUME NEW r \in Request, ReportFailure(r)
      PROVE  AskedIsCancelled'
  BY <1>15 DEF ReportFailure, Become, released, Send
<1>16. ASSUME NEW r \in Request, Complete(r)
      PROVE  AskedIsCancelled'
  BY <1>16 DEF Complete, Become, released, Send
<1>17. ASSUME NEW r \in Request, Drop(r)
      PROVE  AskedIsCancelled'
  BY <1>17 DEF Drop, Become, released
<1>18. ASSUME NEW r \in Request, Panic(r)
      PROVE  AskedIsCancelled'
  BY <1>18 DEF Panic, Become, released
<1>19. ASSUME NEW r \in Request, ReadRequest(r)
      PROVE  AskedIsCancelled'
  BY <1>19 DEF ReadRequest, Become, registered, Reading
<1>20. ASSUME NEW r \in Request, Join(r)
      PROVE  AskedIsCancelled'
  BY <1>20 DEF Join, abort_all, Joinable
<1>21. ASSUME NEW r \in Request, NEW i \in Id, CancelInBatch(r, i)
      PROVE  AskedIsCancelled'
  BY <1>21 DEF CancelInBatch, cancel
<1>22. ASSUME NEW i \in Id, ReadCancel(i)
      PROVE  AskedIsCancelled'
  BY <1>22 DEF ReadCancel, cancel
<1>23. ASSUME NEW m \in Malformed \cup Broken, ReadMalformed(m)
      PROVE  AskedIsCancelled'
  BY <1>23 DEF ReadMalformed
<1>24. CASE UNCHANGED vars
  BY <1>24 DEF vars
<1>25. QED
  BY <1>1, <1>2, <1>3, <1>4, <1>5, <1>6, <1>7, <1>8, <1>9, <1>10,
     <1>11, <1>12, <1>13, <1>14, <1>15, <1>16, <1>17, <1>18, <1>19, <1>20,
     <1>21, <1>22, <1>23, <1>24
     DEF Next, TaskStep, MainStep, Terminated

\* A task writes after it has the lock, and nobody writes in its name.
LEMMA UnwrittenStep ==
    TypeOK /\ NothingWrittenYet /\ [Next]_vars => NothingWrittenYet'
<1> SUFFICES ASSUME TypeOK, NothingWrittenYet, [Next]_vars
             PROVE  NothingWrittenYet'
  OBVIOUS
<1> USE ServerAssumption DEF reader, output, Request, Message, TypeOK,
        NothingWrittenYet, Unwritten, Live, Ended
<1>1. CASE TakeControl
  BY <1>1 DEF TakeControl
<1>2. CASE MainLocks
  BY <1>2 DEF MainLocks
<1>3. CASE MainWritesHead
  BY <1>3 DEF MainWritesHead, Put
<1>4. CASE MainWritesTail
  BY <1>4 DEF MainWritesTail, Put
<1>5. CASE MainWriteFails
  BY <1>5 DEF MainWriteFails
<1>6. CASE LeaveLoop
  BY <1>6 DEF LeaveLoop, abort_all
<1>7. CASE ExitProcess
  BY <1>7 DEF ExitProcess
<1>8. CASE ReadEof
  BY <1>8 DEF ReadEof, Reading
<1>9. CASE CloseStdout
  BY <1>9 DEF CloseStdout
<1>10. ASSUME NEW r \in Request, Finish(r)
      PROVE  NothingWrittenYet'
  BY <1>10 DEF Finish, Become, Answers, released
<1>11. ASSUME NEW r \in Request, LockWriter(r)
      PROVE  NothingWrittenYet'
  BY <1>11 DEF LockWriter, Become
<1>12. ASSUME NEW r \in Request, WriteHead(r)
      PROVE  NothingWrittenYet'
  BY <1>12 DEF WriteHead, Become, Put
<1>13. ASSUME NEW r \in Request, WriteTail(r)
      PROVE  NothingWrittenYet'
  BY <1>13 DEF WriteTail, Become, Put
<1>14. ASSUME NEW r \in Request, WriteFails(r)
      PROVE  NothingWrittenYet'
  BY <1>14 DEF WriteFails, Become
<1>15. ASSUME NEW r \in Request, ReportFailure(r)
      PROVE  NothingWrittenYet'
  BY <1>15 DEF ReportFailure, Become, released, Send
<1>16. ASSUME NEW r \in Request, Complete(r)
      PROVE  NothingWrittenYet'
  BY <1>16 DEF Complete, Become, released, Send
<1>17. ASSUME NEW r \in Request, Drop(r)
      PROVE  NothingWrittenYet'
  BY <1>17 DEF Drop, Become, released
<1>18. ASSUME NEW r \in Request, Panic(r)
      PROVE  NothingWrittenYet'
  BY <1>18 DEF Panic, Become, released
<1>19. ASSUME NEW r \in Request, ReadRequest(r)
      PROVE  NothingWrittenYet'
  BY <1>19 DEF ReadRequest, Become, registered, Reading
<1>20. ASSUME NEW r \in Request, Join(r)
      PROVE  NothingWrittenYet'
  BY <1>20 DEF Join, abort_all, Joinable
<1>21. ASSUME NEW r \in Request, NEW i \in Id, CancelInBatch(r, i)
      PROVE  NothingWrittenYet'
  BY <1>21 DEF CancelInBatch, cancel
<1>22. ASSUME NEW i \in Id, ReadCancel(i)
      PROVE  NothingWrittenYet'
  BY <1>22 DEF ReadCancel, cancel
<1>23. ASSUME NEW m \in Malformed \cup Broken, ReadMalformed(m)
      PROVE  NothingWrittenYet'
  BY <1>23 DEF ReadMalformed
<1>24. CASE UNCHANGED vars
  BY <1>24 DEF vars
<1>25. QED
  BY <1>1, <1>2, <1>3, <1>4, <1>5, <1>6, <1>7, <1>8, <1>9, <1>10,
     <1>11, <1>12, <1>13, <1>14, <1>15, <1>16, <1>17, <1>18, <1>19, <1>20,
     <1>21, <1>22, <1>23, <1>24
     DEF Next, TaskStep, MainStep, Terminated

\* A cancelled call never reaches the lock.
LEMMA SilentStep ==
    TypeOK /\ AskedIsCancelled /\ NothingWrittenYet /\ CancelledIsSilent
       /\ [Next]_vars => CancelledIsSilent'
<1> SUFFICES ASSUME TypeOK, AskedIsCancelled, NothingWrittenYet,
                    CancelledIsSilent, [Next]_vars
             PROVE  CancelledIsSilent'
  OBVIOUS
<1> USE ServerAssumption DEF reader, output, Request, Message, TypeOK,
        AskedIsCancelled, NothingWrittenYet, CancelledIsSilent, Unwritten,
        Live, Ended
<1>1. CASE TakeControl
  BY <1>1 DEF TakeControl
<1>2. CASE MainLocks
  BY <1>2 DEF MainLocks
<1>3. CASE MainWritesHead
  BY <1>3 DEF MainWritesHead, Put
<1>4. CASE MainWritesTail
  BY <1>4 DEF MainWritesTail, Put
<1>5. CASE MainWriteFails
  BY <1>5 DEF MainWriteFails
<1>6. CASE LeaveLoop
  BY <1>6 DEF LeaveLoop, abort_all
<1>7. CASE ExitProcess
  BY <1>7 DEF ExitProcess
<1>8. CASE ReadEof
  BY <1>8 DEF ReadEof, Reading
<1>9. CASE CloseStdout
  BY <1>9 DEF CloseStdout
<1>10. ASSUME NEW r \in Request, Finish(r)
      PROVE  CancelledIsSilent'
  BY <1>10 DEF Finish, Become, Answers, released
<1>11. ASSUME NEW r \in Request, LockWriter(r)
      PROVE  CancelledIsSilent'
  BY <1>11 DEF LockWriter, Become
<1>12. ASSUME NEW r \in Request, WriteHead(r)
      PROVE  CancelledIsSilent'
  BY <1>12 DEF WriteHead, Become, Put
<1>13. ASSUME NEW r \in Request, WriteTail(r)
      PROVE  CancelledIsSilent'
  BY <1>13 DEF WriteTail, Become, Put
<1>14. ASSUME NEW r \in Request, WriteFails(r)
      PROVE  CancelledIsSilent'
  BY <1>14 DEF WriteFails, Become
<1>15. ASSUME NEW r \in Request, ReportFailure(r)
      PROVE  CancelledIsSilent'
  BY <1>15 DEF ReportFailure, Become, released, Send
<1>16. ASSUME NEW r \in Request, Complete(r)
      PROVE  CancelledIsSilent'
  BY <1>16 DEF Complete, Become, released, Send
<1>17. ASSUME NEW r \in Request, Drop(r)
      PROVE  CancelledIsSilent'
  BY <1>17 DEF Drop, Become, released
<1>18. ASSUME NEW r \in Request, Panic(r)
      PROVE  CancelledIsSilent'
  BY <1>18 DEF Panic, Become, released
<1>19. ASSUME NEW r \in Request, ReadRequest(r)
      PROVE  CancelledIsSilent'
  BY <1>19 DEF ReadRequest, Become, registered, Reading
<1>20. ASSUME NEW r \in Request, Join(r)
      PROVE  CancelledIsSilent'
  BY <1>20 DEF Join, abort_all, Joinable
<1>21. ASSUME NEW r \in Request, NEW i \in Id, CancelInBatch(r, i)
      PROVE  CancelledIsSilent'
  BY <1>21 DEF CancelInBatch, cancel
<1>22. ASSUME NEW i \in Id, ReadCancel(i)
      PROVE  CancelledIsSilent'
  BY <1>22 DEF ReadCancel, cancel
<1>23. ASSUME NEW m \in Malformed \cup Broken, ReadMalformed(m)
      PROVE  CancelledIsSilent'
  BY <1>23 DEF ReadMalformed
<1>24. CASE UNCHANGED vars
  BY <1>24 DEF vars
<1>25. QED
  BY <1>1, <1>2, <1>3, <1>4, <1>5, <1>6, <1>7, <1>8, <1>9, <1>10,
     <1>11, <1>12, <1>13, <1>14, <1>15, <1>16, <1>17, <1>18, <1>19, <1>20,
     <1>21, <1>22, <1>23, <1>24
     DEF Next, TaskStep, MainStep, Terminated

\* The lock of stdout excludes tasks and reader from each other.
LEMMA WriterStep ==
    TypeOK /\ WriterExclusive /\ [Next]_vars => WriterExclusive'
<1> SUFFICES ASSUME TypeOK, WriterExclusive, [Next]_vars
             PROVE  WriterExclusive'
  OBVIOUS
<1> USE ServerAssumption DEF reader, output, Request, Message, TypeOK,
        WriterExclusive, Live, Ended, Undisturbed
<1>1. CASE TakeControl
  BY <1>1 DEF TakeControl
<1>2. CASE MainLocks
  BY <1>2 DEF MainLocks, WriterFree
<1>3. CASE MainWritesHead
  BY <1>3 DEF MainWritesHead, Put
<1>4. CASE MainWritesTail
  BY <1>4 DEF MainWritesTail, Put
<1>5. CASE MainWriteFails
  BY <1>5 DEF MainWriteFails
<1>6. CASE LeaveLoop
  BY <1>6 DEF LeaveLoop, abort_all
<1>7. CASE ExitProcess
  BY <1>7 DEF ExitProcess
<1>8. CASE ReadEof
  BY <1>8 DEF ReadEof, Reading
<1>9. CASE CloseStdout
  BY <1>9 DEF CloseStdout
<1>10. ASSUME NEW r \in Request, Finish(r)
      PROVE  WriterExclusive'
  BY <1>10 DEF Finish, Become, Answers, released
<1>11. ASSUME NEW r \in Request, LockWriter(r)
      PROVE  WriterExclusive'
  BY <1>11 DEF LockWriter, Become, WriterFree
<1>12. ASSUME NEW r \in Request, WriteHead(r)
      PROVE  WriterExclusive'
  BY <1>12 DEF WriteHead, Become, Put
<1>13. ASSUME NEW r \in Request, WriteTail(r)
      PROVE  WriterExclusive'
  BY <1>13 DEF WriteTail, Become, Put
<1>14. ASSUME NEW r \in Request, WriteFails(r)
      PROVE  WriterExclusive'
  BY <1>14 DEF WriteFails, Become
<1>15. ASSUME NEW r \in Request, ReportFailure(r)
      PROVE  WriterExclusive'
  BY <1>15 DEF ReportFailure, Become, released, Send
<1>16. ASSUME NEW r \in Request, Complete(r)
      PROVE  WriterExclusive'
  BY <1>16 DEF Complete, Become, released, Send
<1>17. ASSUME NEW r \in Request, Drop(r)
      PROVE  WriterExclusive'
  BY <1>17 DEF Drop, Become, released
<1>18. ASSUME NEW r \in Request, Panic(r)
      PROVE  WriterExclusive'
  BY <1>18 DEF Panic, Become, released
<1>19. ASSUME NEW r \in Request, ReadRequest(r)
      PROVE  WriterExclusive'
  BY <1>19 DEF ReadRequest, Become, registered, Reading
<1>20. ASSUME NEW r \in Request, Join(r)
      PROVE  WriterExclusive'
  BY <1>20 DEF Join, abort_all, Joinable
<1>21. ASSUME NEW r \in Request, NEW i \in Id, CancelInBatch(r, i)
      PROVE  WriterExclusive'
  BY <1>21 DEF CancelInBatch, cancel
<1>22. ASSUME NEW i \in Id, ReadCancel(i)
      PROVE  WriterExclusive'
  BY <1>22 DEF ReadCancel, cancel
<1>23. ASSUME NEW m \in Malformed \cup Broken, ReadMalformed(m)
      PROVE  WriterExclusive'
  BY <1>23 DEF ReadMalformed, Reading
<1>24. CASE UNCHANGED vars
  BY <1>24 DEF vars
<1>25. QED
  BY <1>1, <1>2, <1>3, <1>4, <1>5, <1>6, <1>7, <1>8, <1>9, <1>10,
     <1>11, <1>12, <1>13, <1>14, <1>15, <1>16, <1>17, <1>18, <1>19, <1>20,
     <1>21, <1>22, <1>23, <1>24
     DEF Next, TaskStep, MainStep, Terminated

\* A malformed message is answered once.
LEMMA BadStep ==
    TypeOK /\ WriterExclusive /\ BadUnwritten /\ [Next]_vars => BadUnwritten'
<1> SUFFICES ASSUME TypeOK, WriterExclusive, BadUnwritten, [Next]_vars
             PROVE  BadUnwritten'
  OBVIOUS
<1> USE ServerAssumption DEF reader, output, Request, Message, TypeOK,
        WriterExclusive, BadUnwritten, Live, Ended
<1>1. CASE TakeControl
  BY <1>1 DEF TakeControl
<1>2. CASE MainLocks
  BY <1>2 DEF MainLocks
<1>3. CASE MainWritesHead
  BY <1>3 DEF MainWritesHead, Put
<1>4. CASE MainWritesTail
  BY <1>4 DEF MainWritesTail, Put
<1>5. CASE MainWriteFails
  BY <1>5 DEF MainWriteFails
<1>6. CASE LeaveLoop
  BY <1>6 DEF LeaveLoop, abort_all
<1>7. CASE ExitProcess
  BY <1>7 DEF ExitProcess
<1>8. CASE ReadEof
  BY <1>8 DEF ReadEof, Reading
<1>9. CASE CloseStdout
  BY <1>9 DEF CloseStdout
<1>10. ASSUME NEW r \in Request, Finish(r)
      PROVE  BadUnwritten'
  BY <1>10 DEF Finish, Become, Answers, released
<1>11. ASSUME NEW r \in Request, LockWriter(r)
      PROVE  BadUnwritten'
  BY <1>11 DEF LockWriter, Become
<1>12. ASSUME NEW r \in Request, WriteHead(r)
      PROVE  BadUnwritten'
  BY <1>12 DEF WriteHead, Become, Put
<1>13. ASSUME NEW r \in Request, WriteTail(r)
      PROVE  BadUnwritten'
  BY <1>13 DEF WriteTail, Become, Put
<1>14. ASSUME NEW r \in Request, WriteFails(r)
      PROVE  BadUnwritten'
  BY <1>14 DEF WriteFails, Become
<1>15. ASSUME NEW r \in Request, ReportFailure(r)
      PROVE  BadUnwritten'
  BY <1>15 DEF ReportFailure, Become, released, Send
<1>16. ASSUME NEW r \in Request, Complete(r)
      PROVE  BadUnwritten'
  BY <1>16 DEF Complete, Become, released, Send
<1>17. ASSUME NEW r \in Request, Drop(r)
      PROVE  BadUnwritten'
  BY <1>17 DEF Drop, Become, released
<1>18. ASSUME NEW r \in Request, Panic(r)
      PROVE  BadUnwritten'
  BY <1>18 DEF Panic, Become, released
<1>19. ASSUME NEW r \in Request, ReadRequest(r)
      PROVE  BadUnwritten'
  BY <1>19 DEF ReadRequest, Become, registered, Reading
<1>20. ASSUME NEW r \in Request, Join(r)
      PROVE  BadUnwritten'
  BY <1>20 DEF Join, abort_all, Joinable
<1>21. ASSUME NEW r \in Request, NEW i \in Id, CancelInBatch(r, i)
      PROVE  BadUnwritten'
  BY <1>21 DEF CancelInBatch, cancel
<1>22. ASSUME NEW i \in Id, ReadCancel(i)
      PROVE  BadUnwritten'
  BY <1>22 DEF ReadCancel, cancel
<1>23. ASSUME NEW m \in Malformed \cup Broken, ReadMalformed(m)
      PROVE  BadUnwritten'
  BY <1>23 DEF ReadMalformed, Reading
<1>24. CASE UNCHANGED vars
  BY <1>24 DEF vars
<1>25. QED
  BY <1>1, <1>2, <1>3, <1>4, <1>5, <1>6, <1>7, <1>8, <1>9, <1>10,
     <1>11, <1>12, <1>13, <1>14, <1>15, <1>16, <1>17, <1>18, <1>19, <1>20,
     <1>21, <1>22, <1>23, <1>24
     DEF Next, TaskStep, MainStep, Terminated


\* What appending one part does to a stream of whole frames.
LEMMA AppendHead ==
    ASSUME NEW s \in Seq(Message \X {"head", "tail"}), Whole(s),
           Len(s) > 0 => s[Len(s)][2] = "tail",
           NEW m \in Message, \A n \in 1..Len(s) : s[n][1] # m
    PROVE  Whole(Append(s, <<m, "head">>))
<1> DEFINE a == Append(s, <<m, "head">>)
<1>1. /\ Len(s) \in Nat /\ Len(a) = Len(s) + 1 /\ a[Len(a)] = <<m, "head">>
      /\ \A n \in 1..Len(s) : a[n] = s[n]
  OBVIOUS
<1>2. DOMAIN a = 1..Len(a) /\ DOMAIN s = 1..Len(s)
  <2>1. a \in Seq(Message \X {"head", "tail"})
    OBVIOUS
  <2>2. QED
    BY <2>1
<1>3. \A n \in 1..Len(a) : n \in 1..Len(s) \/ n = Len(a)
  BY <1>1
<1> HIDE DEF a
<1>4. ASSUME NEW n \in 1..Len(a)
      PROVE  IF a[n][2] = "head"
             THEN n = Len(a) \/ a[n + 1] = <<a[n][1], "tail">>
             ELSE n > 1 /\ a[n - 1] = <<a[n][1], "head">>
  <2>1. CASE n \in 1..Len(s)
    <3>1. a[n] = s[n]
      BY <2>1, <1>1
    <3>2. CASE s[n][2] = "head"
      <4>1. n # Len(s)
        BY <2>1, <3>2
      <4>2. n + 1 \in 1..Len(s)
        BY <2>1, <4>1, <1>1
      <4>3. a[n + 1] = s[n + 1] /\ s[n + 1] = <<s[n][1], "tail">>
        BY <2>1, <3>2, <4>1, <4>2, <1>1 DEF Whole
      <4>4. QED
        BY <3>1, <3>2, <4>3
    <3>3. CASE s[n][2] # "head"
      <4>1. n > 1 /\ s[n - 1] = <<s[n][1], "head">>
        BY <2>1, <3>3 DEF Whole
      <4>2. n - 1 \in 1..Len(s)
        BY <2>1, <4>1, <1>1
      <4>3. a[n - 1] = s[n - 1]
        BY <4>2, <1>1
      <4>4. QED
        BY <3>1, <3>3, <4>1, <4>3
    <3>4. QED
      BY <3>2, <3>3
  <2>2. CASE n = Len(a)
    BY <2>2, <1>1
  <2>3. QED
    BY <2>1, <2>2, <1>3
<1>5. IsInjective(a)
  <2>1. \A i, j \in 1..Len(s) : s[i] = s[j] => i = j
    BY <1>2 DEF Whole, IsInjective
  <2>2. \A i \in 1..Len(s) : a[i] # a[Len(a)]
    BY <1>1
  <2>3. \A i, j \in 1..Len(a) : a[i] = a[j] => i = j
    BY <1>1, <1>3, <2>1, <2>2
  <2>4. QED
    BY <1>2, <2>3 DEF IsInjective
<1>6. QED
  BY <1>4, <1>5 DEF Whole, a

\* The second part closes the frame of the first.
LEMMA AppendTail ==
    ASSUME NEW s \in Seq(Message \X {"head", "tail"}), Whole(s),
           Len(s) > 0, NEW m \in Message, s[Len(s)] = <<m, "head">>
    PROVE  Whole(Append(s, <<m, "tail">>))
<1> DEFINE a == Append(s, <<m, "tail">>)
<1>1. /\ Len(s) \in Nat /\ Len(a) = Len(s) + 1 /\ a[Len(a)] = <<m, "tail">>
      /\ \A n \in 1..Len(s) : a[n] = s[n]
  OBVIOUS
<1>2. DOMAIN a = 1..Len(a) /\ DOMAIN s = 1..Len(s)
  <2>1. a \in Seq(Message \X {"head", "tail"})
    OBVIOUS
  <2>2. QED
    BY <2>1
<1>3. \A n \in 1..Len(a) : n \in 1..Len(s) \/ n = Len(a)
  BY <1>1
<1>4. Len(s) \in 1..Len(s) /\ Len(a) - 1 = Len(s)
  BY <1>1
<1> HIDE DEF a
<1>5. ASSUME NEW n \in 1..Len(a)
      PROVE  IF a[n][2] = "head"
             THEN n = Len(a) \/ a[n + 1] = <<a[n][1], "tail">>
             ELSE n > 1 /\ a[n - 1] = <<a[n][1], "head">>
  <2>1. CASE n \in 1..Len(s)
    <3>1. a[n] = s[n]
      BY <2>1, <1>1
    <3>2. CASE n = Len(s)
      BY <3>1, <3>2, <1>1
    <3>3. CASE n # Len(s) /\ s[n][2] = "head"
      <4>1. n + 1 \in 1..Len(s)
        BY <2>1, <3>3, <1>1
      <4>2. a[n + 1] = s[n + 1] /\ s[n + 1] = <<s[n][1], "tail">>
        BY <2>1, <3>3, <4>1, <1>1 DEF Whole
      <4>3. QED
        BY <3>1, <3>3, <4>2
    <3>4. CASE n # Len(s) /\ s[n][2] # "head"
      <4>1. n > 1 /\ s[n - 1] = <<s[n][1], "head">>
        BY <2>1, <3>4 DEF Whole
      <4>2. n - 1 \in 1..Len(s)
        BY <2>1, <4>1, <1>1
      <4>3. a[n - 1] = s[n - 1]
        BY <4>2, <1>1
      <4>4. QED
        BY <3>1, <3>4, <4>1, <4>3
    <3>5. QED
      BY <3>2, <3>3, <3>4
  <2>2. CASE n = Len(a)
    <3>1. a[n - 1] = <<m, "head">> /\ a[n] = <<m, "tail">> /\ n > 1
      BY <2>2, <1>1, <1>4
    <3>2. QED
      BY <3>1
  <2>3. QED
    BY <2>1, <2>2, <1>3
<1>6. IsInjective(a)
  <2>1. \A i, j \in 1..Len(s) : s[i] = s[j] => i = j
    BY <1>2 DEF Whole, IsInjective
  <2>2. ASSUME NEW i \in 1..Len(s), a[i] = a[Len(a)]
        PROVE  FALSE
    <3>1. s[i] = <<m, "tail">>
      BY <2>2, <1>1
    <3>2. i > 1 /\ s[i - 1] = <<m, "head">>
      BY <3>1 DEF Whole
    <3>3. i - 1 \in 1..Len(s) /\ i - 1 # Len(s)
      BY <3>2, <1>1
    <3>4. QED
      BY <3>2, <3>3, <1>4, <2>1
  <2>3. \A i, j \in 1..Len(a) : a[i] = a[j] => i = j
    BY <1>1, <1>3, <2>1, <2>2
  <2>4. QED
    BY <1>2, <2>3 DEF IsInjective
<1>7. QED
  BY <1>5, <1>6 DEF Whole, a

\* Whoever writes a part continues the stream where the last one stopped.
LEMMA FrameStep ==
    TypeOK /\ WriterExclusive /\ NothingWrittenYet /\ BadUnwritten
       /\ FramesWhole /\ OpenFrame /\ [Next]_vars => (FramesWhole /\ OpenFrame)'
<1> SUFFICES ASSUME TypeOK, WriterExclusive, NothingWrittenYet, BadUnwritten,
                    FramesWhole, OpenFrame, [Next]_vars
             PROVE  (FramesWhole /\ OpenFrame)'
  OBVIOUS
<1> USE ServerAssumption DEF reader, output, Request, Message, TypeOK,
        WriterExclusive, FramesWhole, OpenFrame, Live, Ended, Undisturbed
<1>1. CASE TakeControl
  BY <1>1 DEF TakeControl
<1>2. CASE MainLocks
  <2>1. main # "tail" /\ \A q \in Request : task[q] # "tail"
    BY <1>2 DEF MainLocks, WriterFree
  <2>2. main' # "tail" /\ \A q \in Request : task'[q] # "tail"
    BY <2>1, <1>2 DEF MainLocks
  <2>3. UNCHANGED <<stdout, aborted, closed>>
    BY <1>2 DEF MainLocks
  <2>4. QED
    BY <2>1, <2>2, <2>3
<1>3. CASE MainWritesHead
  <2>1. /\ writer = bad /\ bad \in Message
        /\ \A n \in 1..Len(stdout) : stdout[n][1] # bad
        /\ main # "tail" /\ \A q \in Request : task[q] # "tail"
    BY <1>3 DEF MainWritesHead, BadUnwritten
  <2>2. /\ UNCHANGED <<aborted, closed, writer>>
        /\ main' = "tail" \/ \E q \in Request : task'[q] = "tail"
    BY <1>3 DEF MainWritesHead, Put
  <2>3. SUFFICES ASSUME Undisturbed
                 PROVE  (FramesWhole /\ OpenFrame)'
    BY <2>2
  <2>4. CASE closed
    BY <2>2, <2>3, <2>4, <1>3 DEF MainWritesHead, Put
  <2>5. CASE ~closed
    <3>1. stdout' = Append(stdout, <<bad, "head">>)
      BY <2>5, <1>3 DEF MainWritesHead, Put
    <3>2. Whole(stdout) /\ (Len(stdout) > 0 => stdout[Len(stdout)][2] = "tail")
      BY <2>1, <2>3, <2>5
    <3>3. Whole(stdout')
      BY <2>1, <3>1, <3>2, AppendHead
    <3>4. Len(stdout') > 0 /\ stdout'[Len(stdout')] = <<writer, "head">>
      BY <2>1, <3>1
    <3>5. QED
      BY <2>2, <3>3, <3>4
  <2>6. QED
    BY <2>4, <2>5
<1>4. CASE MainWritesTail
  <2>1. /\ writer = bad /\ bad \in Message /\ ~closed
        /\ main = "tail" \/ \E q \in Request : task[q] = "tail"
    BY <1>4 DEF MainWritesTail
  <2>2. /\ UNCHANGED <<aborted, closed>>
        /\ main' # "tail" /\ \A q \in Request : task'[q] # "tail"
    BY <1>4 DEF MainWritesTail, Put
  <2>3. SUFFICES ASSUME Undisturbed
                 PROVE  (FramesWhole /\ OpenFrame)'
    BY <2>2
  <2>4. stdout' = Append(stdout, <<bad, "tail">>)
    BY <2>1, <1>4 DEF MainWritesTail, Put
  <2>5. Whole(stdout) /\ Len(stdout) > 0 /\ stdout[Len(stdout)] = <<bad, "head">>
    BY <2>1, <2>3
  <2>6. Whole(stdout')
    BY <2>1, <2>4, <2>5, AppendTail
  <2>7. stdout'[Len(stdout')][2] = "tail"
    BY <2>4
  <2>8. QED
    BY <2>2, <2>6, <2>7
<1>5. CASE MainWriteFails
  BY <1>5 DEF MainWriteFails
<1>6. CASE LeaveLoop
  BY <1>6 DEF LeaveLoop, abort_all
<1>7. CASE ExitProcess
  BY <1>7 DEF ExitProcess
<1>8. CASE ReadEof
  BY <1>8 DEF ReadEof, Reading
<1>9. CASE CloseStdout
  BY <1>9 DEF CloseStdout
<1>10. ASSUME NEW r \in Request, Finish(r)
      PROVE  (FramesWhole /\ OpenFrame)'
  BY <1>10 DEF Finish, Become, Answers, released
<1>11. ASSUME NEW r \in Request, LockWriter(r)
      PROVE  (FramesWhole /\ OpenFrame)'
  <2>1. main # "tail" /\ \A q \in Request : task[q] # "tail"
    BY <1>11 DEF LockWriter, WriterFree
  <2>2. main' # "tail" /\ \A q \in Request : task'[q] # "tail"
    BY <2>1, <1>11 DEF LockWriter, Become
  <2>3. UNCHANGED <<stdout, aborted, closed>>
    BY <1>11 DEF LockWriter, Become
  <2>4. QED
    BY <2>1, <2>2, <2>3
<1>12. ASSUME NEW r \in Request, WriteHead(r)
      PROVE  (FramesWhole /\ OpenFrame)'
  <2>1. /\ writer = r /\ r \in Message
        /\ \A n \in 1..Len(stdout) : stdout[n][1] # r
        /\ main # "tail" /\ \A q \in Request : task[q] # "tail"
    BY <1>12 DEF WriteHead, NothingWrittenYet, Unwritten
  <2>2. /\ UNCHANGED <<aborted, closed, writer>>
        /\ main' = "tail" \/ \E q \in Request : task'[q] = "tail"
    BY <1>12 DEF WriteHead, Become, Put
  <2>3. SUFFICES ASSUME Undisturbed
                 PROVE  (FramesWhole /\ OpenFrame)'
    BY <2>2
  <2>4. CASE closed
    BY <2>2, <2>3, <2>4, <1>12 DEF WriteHead, Become, Put
  <2>5. CASE ~closed
    <3>1. stdout' = Append(stdout, <<r, "head">>)
      BY <2>5, <1>12 DEF WriteHead, Become, Put
    <3>2. Whole(stdout) /\ (Len(stdout) > 0 => stdout[Len(stdout)][2] = "tail")
      BY <2>1, <2>3, <2>5
    <3>3. Whole(stdout')
      BY <2>1, <3>1, <3>2, AppendHead
    <3>4. Len(stdout') > 0 /\ stdout'[Len(stdout')] = <<writer, "head">>
      BY <2>1, <3>1
    <3>5. QED
      BY <2>2, <3>3, <3>4
  <2>6. QED
    BY <2>4, <2>5
<1>13. ASSUME NEW r \in Request, WriteTail(r)
      PROVE  (FramesWhole /\ OpenFrame)'
  <2>1. /\ writer = r /\ r \in Message /\ ~closed
        /\ main = "tail" \/ \E q \in Request : task[q] = "tail"
    BY <1>13 DEF WriteTail
  <2>2. /\ UNCHANGED <<aborted, closed>>
        /\ main' # "tail" /\ \A q \in Request : task'[q] # "tail"
    BY <1>13 DEF WriteTail, Become, Put
  <2>3. SUFFICES ASSUME Undisturbed
                 PROVE  (FramesWhole /\ OpenFrame)'
    BY <2>2
  <2>4. stdout' = Append(stdout, <<r, "tail">>)
    BY <2>1, <1>13 DEF WriteTail, Become, Put
  <2>5. Whole(stdout) /\ Len(stdout) > 0 /\ stdout[Len(stdout)] = <<r, "head">>
    BY <2>1, <2>3
  <2>6. Whole(stdout')
    BY <2>1, <2>4, <2>5, AppendTail
  <2>7. stdout'[Len(stdout')][2] = "tail"
    BY <2>4
  <2>8. QED
    BY <2>2, <2>6, <2>7
<1>14. ASSUME NEW r \in Request, WriteFails(r)
      PROVE  (FramesWhole /\ OpenFrame)'
  BY <1>14 DEF WriteFails, Become
<1>15. ASSUME NEW r \in Request, ReportFailure(r)
      PROVE  (FramesWhole /\ OpenFrame)'
  BY <1>15 DEF ReportFailure, Become, released, Send
<1>16. ASSUME NEW r \in Request, Complete(r)
      PROVE  (FramesWhole /\ OpenFrame)'
  BY <1>16 DEF Complete, Become, released, Send
<1>17. ASSUME NEW r \in Request, Drop(r)
      PROVE  (FramesWhole /\ OpenFrame)'
  BY <1>17 DEF Drop, Become, released
<1>18. ASSUME NEW r \in Request, Panic(r)
      PROVE  (FramesWhole /\ OpenFrame)'
  BY <1>18 DEF Panic, Become, released
<1>19. ASSUME NEW r \in Request, ReadRequest(r)
      PROVE  (FramesWhole /\ OpenFrame)'
  BY <1>19 DEF ReadRequest, Become, registered, Reading
<1>20. ASSUME NEW r \in Request, Join(r)
      PROVE  (FramesWhole /\ OpenFrame)'
  BY <1>20 DEF Join, abort_all, Joinable
<1>21. ASSUME NEW r \in Request, NEW i \in Id, CancelInBatch(r, i)
      PROVE  (FramesWhole /\ OpenFrame)'
  BY <1>21 DEF CancelInBatch, cancel
<1>22. ASSUME NEW i \in Id, ReadCancel(i)
      PROVE  (FramesWhole /\ OpenFrame)'
  BY <1>22 DEF ReadCancel, cancel
<1>23. ASSUME NEW m \in Malformed \cup Broken, ReadMalformed(m)
      PROVE  (FramesWhole /\ OpenFrame)'
  BY <1>23 DEF ReadMalformed, Reading
<1>24. CASE UNCHANGED vars
  BY <1>24 DEF vars
<1>25. QED
  BY <1>1, <1>2, <1>3, <1>4, <1>5, <1>6, <1>7, <1>8, <1>9, <1>10,
     <1>11, <1>12, <1>13, <1>14, <1>15, <1>16, <1>17, <1>18, <1>19, <1>20,
     <1>21, <1>22, <1>23, <1>24
     DEF Next, TaskStep, MainStep, Terminated

\* What has been delivered stays delivered.
LEMMA PutKeeps ==
    ASSUME TypeOK, NEW m, NEW part, Put(m, part)
    PROVE  \A q : Delivered(q) => Delivered(q)'
<1> SUFFICES ASSUME NEW q, Delivered(q)
             PROVE  Delivered(q)'
  OBVIOUS
<1>1. PICK n \in 1..Len(stdout) : stdout[n] = <<q, "tail">>
  BY DEF Delivered
<1>2. n \in 1..Len(stdout') /\ stdout'[n] = stdout[n]
  BY DEF Put, TypeOK
<1>3. QED
  BY <1>1, <1>2 DEF Delivered

\* A task that ends without answering has a reason the server knows of.
LEMMA DrainStep ==
    TypeOK /\ DrainInv /\ [Next]_vars => DrainInv'
<1> SUFFICES ASSUME TypeOK, DrainInv, [Next]_vars
             PROVE  DrainInv'
  OBVIOUS
<1> USE ServerAssumption DEF reader, output, Request, Message, TypeOK,
        DrainInv, Aborting, Delivered, Unanswerable, AllJoined, Live, Ended
<1>1. CASE TakeControl
  BY <1>1 DEF TakeControl
<1>2. CASE MainLocks
  BY <1>2 DEF MainLocks
<1>3. CASE MainWritesHead
  <2> HIDE DEF Delivered
  <2>1. \A q : Delivered(q) => Delivered(q)'
    BY <1>3, PutKeeps DEF MainWritesHead
  <2>2. QED
    BY <2>1, <1>3 DEF MainWritesHead
<1>4. CASE MainWritesTail
  <2> HIDE DEF Delivered
  <2>1. \A q : Delivered(q) => Delivered(q)'
    BY <1>4, PutKeeps DEF MainWritesTail
  <2>2. QED
    BY <2>1, <1>4 DEF MainWritesTail
<1>5. CASE MainWriteFails
  BY <1>5 DEF MainWriteFails
<1>6. CASE LeaveLoop
  BY <1>6 DEF LeaveLoop, abort_all
<1>7. CASE ExitProcess
  BY <1>7 DEF ExitProcess
<1>8. CASE ReadEof
  BY <1>8 DEF ReadEof, Reading
<1>9. CASE CloseStdout
  BY <1>9 DEF CloseStdout
<1>10. ASSUME NEW r \in Request, Finish(r)
      PROVE  DrainInv'
  <2>1. CASE Answers(r)
    BY <2>1, <1>10 DEF Finish, Become
  <2>2. CASE ~Answers(r)
    <3>1. Unanswerable(r)
      BY <2>2 DEF Answers
    <3>2. UNCHANGED <<stdout, token, aborted, main, joined, abortPending,
                      abortRequested>>
      BY <1>10 DEF Finish
    <3>3. task' = [task EXCEPT ![r] = "ended"]
      BY <2>2, <1>10 DEF Finish, Become
    <3>4. task[r] = "running"
      BY <1>10 DEF Finish
    <3>5. task'[r] = "ended" /\ \A q \in Request \ {r} : task'[q] = task[q]
      BY <3>3
    <3>6. QED
      BY <3>1, <3>2, <3>3, <3>4, <3>5
  <2>3. QED
    BY <2>1, <2>2
<1>11. ASSUME NEW r \in Request, LockWriter(r)
      PROVE  DrainInv'
  BY <1>11 DEF LockWriter, Become
<1>12. ASSUME NEW r \in Request, WriteHead(r)
      PROVE  DrainInv'
  <2> HIDE DEF Delivered
  <2>1. \A q : Delivered(q) => Delivered(q)'
    BY <1>12, PutKeeps DEF WriteHead
  <2>2. QED
    BY <2>1, <1>12 DEF WriteHead, Become
<1>13. ASSUME NEW r \in Request, WriteTail(r)
      PROVE  DrainInv'
  <2>1. Delivered(r)'
    <3>1. stdout' = Append(stdout, <<r, "tail">>)
      BY <1>13 DEF WriteTail, Put
    <3>2. Len(stdout') \in 1..Len(stdout') /\ stdout'[Len(stdout')] = <<r, "tail">>
      BY <3>1
    <3>3. QED
      BY <3>2
  <2> HIDE DEF Delivered
  <2>2. \A q : Delivered(q) => Delivered(q)'
    BY <1>13, PutKeeps DEF WriteTail
  <2>3. QED
    BY <2>1, <2>2, <1>13 DEF WriteTail, Become
<1>14. ASSUME NEW r \in Request, WriteFails(r)
      PROVE  DrainInv'
  BY <1>14 DEF WriteFails, Become
<1>15. ASSUME NEW r \in Request, ReportFailure(r)
      PROVE  DrainInv'
  BY <1>15 DEF ReportFailure, Become, released, Send
<1>16. ASSUME NEW r \in Request, Complete(r)
      PROVE  DrainInv'
  BY <1>16 DEF Complete, Become, released, Send
<1>17. ASSUME NEW r \in Request, Drop(r)
      PROVE  DrainInv'
  BY <1>17 DEF Drop, Become, released
<1>18. ASSUME NEW r \in Request, Panic(r)
      PROVE  DrainInv'
  BY <1>18 DEF Panic, Become, released
<1>19. ASSUME NEW r \in Request, ReadRequest(r)
      PROVE  DrainInv'
  BY <1>19 DEF ReadRequest, Become, registered, Reading
<1>20. ASSUME NEW r \in Request, Join(r)
      PROVE  DrainInv'
  BY <1>20 DEF Join, abort_all, Joinable
<1>21. ASSUME NEW r \in Request, NEW i \in Id, CancelInBatch(r, i)
      PROVE  DrainInv'
  BY <1>21 DEF CancelInBatch, cancel
<1>22. ASSUME NEW i \in Id, ReadCancel(i)
      PROVE  DrainInv'
  BY <1>22, ZenonT(60) DEF ReadCancel, cancel
<1>23. ASSUME NEW m \in Malformed \cup Broken, ReadMalformed(m)
      PROVE  DrainInv'
  BY <1>23 DEF ReadMalformed, Reading
<1>24. CASE UNCHANGED vars
  BY <1>24 DEF vars
<1>25. QED
  BY <1>1, <1>2, <1>3, <1>4, <1>5, <1>6, <1>7, <1>8, <1>9, <1>10,
     <1>11, <1>12, <1>13, <1>14, <1>15, <1>16, <1>17, <1>18, <1>19, <1>20,
     <1>21, <1>22, <1>23, <1>24
     DEF Next, TaskStep, MainStep, Terminated

-----------------------------------------------------------------------------

\* The invariant holds initially.
LEMMA InvInit == Init => ServerInv
<1> SUFFICES ASSUME Init
             PROVE  ServerInv
  OBVIOUS
<1> USE ServerAssumption DEF Init, Request, Message
<1>1. TypeOK
  BY TypingInit
<1>2. WriterExclusive /\ RegistryExact /\ AskedIsCancelled
  BY DEF WriterExclusive, RegistryExact, AskedIsCancelled, Live
<1>3. NothingWrittenYet /\ BadUnwritten /\ CancelledIsSilent /\ OpenFrame /\ DrainInv
  BY DEF NothingWrittenYet, BadUnwritten, CancelledIsSilent, OpenFrame, DrainInv
<1>4. FramesWhole
  BY DEF FramesWhole, Whole, IsInjective
<1>5. QED
  BY <1>1, <1>2, <1>3, <1>4 DEF ServerInv

\* The invariant behind the server's guarantees is inductive.
THEOREM ServerInvariant == Spec => []ServerInv
<1>1. ServerInv /\ [Next]_vars => ServerInv'
  BY TypingStep, RegistryStep, AskedStep, UnwrittenStep, SilentStep, WriterStep,
     BadStep, FrameStep, DrainStep DEF ServerInv
<1>2. QED
  BY InvInit, <1>1, PTL DEF Spec

\* Every variable of the loop and its tasks keeps its type.
THEOREM TypeCorrect == Spec => []TypeOK
<1>1. ServerInv => TypeOK
  BY DEF ServerInv
<1>2. QED
  BY <1>1, ServerInvariant, PTL

\* Whatever the number of concurrent requests, the client can always take the
\* responses apart: frames are whole and none is sent twice.
THEOREM FramesWholeHolds == Spec => []FramesWhole
<1>1. ServerInv => FramesWhole
  BY DEF ServerInv
<1>2. QED
  BY <1>1, ServerInvariant, PTL

\* The registry of cancellable calls neither misses a running call nor keeps
\* one that has ended, as long as the client's ids are unique.
THEOREM RegistryExactHolds == Spec => []RegistryExact
<1>1. ServerInv => RegistryExact
  BY DEF ServerInv
<1>2. QED
  BY <1>1, ServerInvariant, PTL

\* A call cancelled while its tool ran gets no response.
THEOREM CancelledIsSilentHolds == Spec => []CancelledIsSilent
<1>1. ServerInv => CancelledIsSilent
  BY DEF ServerInv
<1>2. QED
  BY <1>1, ServerInvariant, PTL

\* A server that was not made to abort has answered what it accepted when it
\* exits.
THEOREM GracefulDrainHolds == Spec => []GracefulDrain
<1>1. ServerInv => GracefulDrain
  <2> SUFFICES ASSUME ServerInv, main = "exited", ~Aborting,
                      NEW r \in Request, task[r] \notin {"unread", "panicked"}
               PROVE  Delivered(r) \/ Unanswerable(r)
    BY DEF GracefulDrain
  <2>1. r \in joined
    BY DEF ServerInv, DrainInv, AllJoined
  <2>2. task[r] \in Ended
    BY <2>1 DEF ServerInv, TypeOK
  <2>3. task[r] = "ended"
    BY <2>2 DEF Ended, ServerInv, DrainInv
  <2>4. QED
    BY <2>3 DEF ServerInv, DrainInv, Aborting
<1>2. QED
  BY <1>1, ServerInvariant, PTL

\* Once a request that asks for the end has been taken on, the loop is over.
LoopIsOver == main \in {"leave", "join", "exited"}
StopInv == (\E r \in Exit : task[r] # "unread") => LoopIsOver

\* A step keeps it, takes no further request once it holds of a request for
\* the end, and never returns to the loop.
LEMMA StopStep ==
    ASSUME TypeOK, StopInv, [Next]_vars
    PROVE  /\ StopInv'
           /\ LoopIsOver => \A r \in Request : task[r] = "unread" => task'[r] = "unread"
<1> DEFINE Goal == /\ StopInv'
                   /\ LoopIsOver => \A r \in Request :
                                       task[r] = "unread" => task'[r] = "unread"
           Kept == /\ \A r \in Request : task[r] = "unread" <=> task'[r] = "unread"
                   /\ LoopIsOver => LoopIsOver'
<1>1. Kept => Goal
  BY ServerAssumption DEF StopInv, LoopIsOver, Request
<1> USE DEF LoopIsOver
<1>2. CASE MainStep \/ ReadEof \/ CloseStdout \/ UNCHANGED vars
  <2>1. task' = task
    BY <1>2 DEF MainStep, TakeControl, MainLocks, MainWritesHead, MainWritesTail,
                MainWriteFails, LeaveLoop, Join, ExitProcess, ReadEof, CloseStdout,
                vars
  <2>2. LoopIsOver => LoopIsOver'
    BY <1>2 DEF MainStep, TakeControl, MainLocks, MainWritesHead, MainWritesTail,
                MainWriteFails, LeaveLoop, Join, ExitProcess, ReadEof, Reading,
                CloseStdout, reader, vars
  <2>3. QED
    BY <1>1, <2>1, <2>2
<1>3. CASE \E i \in Id : ReadCancel(i)
  BY <1>1, <1>3 DEF ReadCancel, reader
<1>4. CASE \E m \in Malformed \cup Broken : ReadMalformed(m)
  BY <1>1, <1>4 DEF ReadMalformed, Reading
<1>5. ASSUME NEW r \in Request, TaskStep(r) \/ Panic(r)
      PROVE  Goal
  <2>1. /\ main' = main
        /\ task[r] # "unread"
        /\ \E s \in Live \cup Ended : Become(r, s)
    BY <1>5 DEF TaskStep, Finish, LockWriter, WriteHead, WriteTail, WriteFails,
                ReportFailure, Complete, Drop, Panic, reader, Live, Ended
  <2>2. Kept
    BY <2>1 DEF Become, TypeOK, Live, Ended
  <2>3. QED
    BY <1>1, <2>2
<1>6. ASSUME NEW r \in Request, NEW i \in Id, CancelInBatch(r, i)
      PROVE  Goal
  BY <1>1, <1>6 DEF CancelInBatch, reader
<1>7. ASSUME NEW r \in Request, ReadRequest(r)
      PROVE  Goal
  <2>1. main = "read" /\ ~LoopIsOver
    BY <1>7 DEF ReadRequest, Reading
  <2>2. \A x \in Exit : task[x] = "unread"
    BY <2>1 DEF StopInv
  <2>3. main' = IF r \in Exit THEN "leave" ELSE "read"
    BY <1>7 DEF ReadRequest, should_stop_reading
  <2>4. \A x \in Exit : x # r => task'[x] = "unread"
    BY <1>7, <2>2 DEF ReadRequest, Become, TypeOK, Request
  <2>5. QED
    BY <2>1, <2>3, <2>4 DEF StopInv
<1>8. QED
  BY <1>2, <1>3, <1>4, <1>5, <1>6, <1>7 DEF Next, Terminated

\* A shutdown request, alone or in a batch, is the last that is accepted.
THEOREM ShutdownStopsReadingHolds == Spec => ShutdownStopsReading
<1>1. Init => StopInv
  BY ServerAssumption DEF Init, StopInv, Request
<1>2. TypeOK /\ StopInv /\ [Next]_vars => StopInv'
  BY StopStep
<1>3. TypeOK /\ StopInv /\ [Next]_vars =>
        [(\E r \in Exit : task[r] # "unread") =>
            \A r \in Request : task[r] = "unread" => task'[r] = "unread"]_vars
  BY StopStep DEF StopInv
<1>4. QED
  BY <1>1, <1>2, <1>3, TypeCorrect, PTL DEF Spec, ShutdownStopsReading

-----------------------------------------------------------------------------
(* What the client sees *)

\* A frame is delivered by its last write, to a client that still reads.
LEMMA PutTells ==
    ASSUME TypeOK, NEW m, NEW part, Put(m, part)
    PROVE  \A q : Delivered(q)' <=> Delivered(q) \/ (~closed /\ <<m, part>> = <<q, "tail">>)
<1> DEFINE seq == stdout
           seq2 == stdout'
<1>1. seq \in Seq(Message \X {"head", "tail"}) /\ Len(seq) \in Nat
  BY DEF TypeOK
<1>2. CASE closed
  <2>1. stdout' = stdout
    BY <1>2 DEF Put
  <2> QED
    BY <1>2, <2>1 DEF Delivered
<1>3. CASE ~closed
  <2>1. seq2 = Append(seq, <<m, part>>)
    BY <1>3 DEF Put
  <2>2. /\ Len(seq2) = Len(seq) + 1 /\ seq2[Len(seq) + 1] = <<m, part>>
        /\ \A n \in 1 .. Len(seq) : seq2[n] = seq[n]
    BY <1>1, <2>1
  <2>3. \A n : n \in 1 .. Len(seq2) <=> n \in 1 .. Len(seq) \/ n = Len(seq) + 1
    BY <1>1, <2>2
  <2>4. \A q : (\E n \in 1 .. Len(seq2) : seq2[n] = <<q, "tail">>)
                 <=> (\E n \in 1 .. Len(seq) : seq[n] = <<q, "tail">>)
                     \/ <<m, part>> = <<q, "tail">>
    <3> HIDE DEF seq, seq2
    <3> QED
      BY <2>2, <2>3, Zenon
  <2> QED
    BY <1>3, <2>4 DEF Delivered
<1> QED
  BY <1>2, <1>3

\* A token is found under the id of its call, and is cancelled while the tool runs only
\* if the client asked for it.
TokensKnown ==
    /\ \A i \in Id : inflight[i] # None => IdOf[inflight[i]] = i
    /\ \A c \in Call : token[c] => task[c] # "unread"
    /\ \A c \in Call \ Refused : task[c] = "running" /\ token[c] => c \in asked

\* What an invariant of the server adds for the client: the loop accepts nothing when
\* a failure has been reported; a token is that of its id, and is cancelled while the
\* tool runs if the client asked for it; what was delivered is over.
SessionInv ==
    /\ main \in {"read", "lock", "head", "tail"} => ~abortPending
    /\ abortRequested => control # "none"
    /\ TokensKnown
    /\ \A r \in Request : Delivered(r) => task[r] \in {"sent", "ended"}
    /\ \A r \in Mute : task[r] \in {"unread", "running"} \cup Ended

\* Nothing has been sent, cancelled or registered when the server starts.
LEMMA SessionInit == Init => SessionInv
BY ServerAssumption DEF Request, Init, SessionInv, TokensKnown, Delivered

\* How a request looks, by what its task is at.
LEMMA Looks ==
    ASSUME NEW q, ~Delivered(q)
    PROVE  /\ task[q] = "unread" => StateOf(q) = "unread"
           /\ task[q] \in Live => StateOf(q) = IF q \in asked THEN "revoked" ELSE "open"
           /\ task[q] = "ended" => StateOf(q) = IF q \in Mute \cup asked THEN "silent" ELSE "lost"
           /\ task[q] = "panicked" => StateOf(q) = "broken"
           /\ task[q] = "dropped" => StateOf(q) = "lost"
BY DEF StateOf, Live

\* What nothing has happened to looks as before.
LEMMA LooksTheSame ==
    ASSUME TypeOK, NEW q \in Request, task'[q] = task[q],
           Delivered(q)' <=> Delivered(q), q \in asked' <=> q \in asked
    PROVE  StateOf(q)' = StateOf(q)
<1>1. task[q] \in {"unread"} \cup Live \cup Ended
  BY DEF TypeOK
<1> QED
  BY <1>1 DEF StateOf, Live, Ended

\* The loop stops when a failure has been reported.
LEMMA LoopStep ==
    ASSUME TypeOK, [Next]_vars,
           main \in {"read", "lock", "head", "tail"} => ~abortPending,
           abortRequested => control # "none"
    PROVE  /\ main' \in {"read", "lock", "head", "tail"} => ~abortPending'
           /\ abortRequested' => control' # "none"
<1> DEFINE Goal == /\ main' \in {"read", "lock", "head", "tail"} => ~abortPending'
                   /\ abortRequested' => control' # "none"
<1>1. CASE MainStep \/ ReadEof \/ CloseStdout \/ UNCHANGED vars
  BY <1>1 DEF MainStep, TakeControl, MainLocks, MainWritesHead, MainWritesTail,
     MainWriteFails, LeaveLoop, Join, ExitProcess, ReadEof, Reading, CloseStdout,
     reader, vars, TypeOK
<1>2. ASSUME NEW r \in Request, TaskStep(r) \/ Panic(r) \/ ReadRequest(r)
      PROVE  Goal
  BY <1>2 DEF TaskStep, Finish, LockWriter, WriteHead, WriteTail, WriteFails,
     ReportFailure, Complete, Drop, Panic, ReadRequest, Reading, Send, reader
<1>3. ASSUME NEW i \in Id, NEW r, CancelInBatch(r, i) \/ ReadCancel(i)
      PROVE  Goal
  BY <1>3 DEF CancelInBatch, ReadCancel, reader
<1>4. ASSUME NEW m, ReadMalformed(m)
      PROVE  Goal
  BY <1>4 DEF ReadMalformed, Reading
<1> QED
  BY <1>1, <1>2, <1>3, <1>4 DEF Next, Terminated

\* Every step keeps them so.
LEMMA TokenStep ==
    ASSUME TypeOK, RegistryExact, TokensKnown, [Next]_vars
    PROVE  TokensKnown'
<1> USE ServerAssumption DEF Request
<1>1. CASE MainStep \/ ReadEof \/ CloseStdout \/ UNCHANGED vars
  <2>1. UNCHANGED <<task, inflight, token, asked>>
    BY <1>1 DEF MainStep, TakeControl, MainLocks, MainWritesHead, MainWritesTail,
       MainWriteFails, LeaveLoop, Join, ExitProcess, ReadEof, CloseStdout, vars
  <2> QED
    BY <2>1 DEF TokensKnown
<1>2. ASSUME NEW m, ReadMalformed(m)
      PROVE  TokensKnown'
  BY <1>2 DEF ReadMalformed, TokensKnown
<1>3. ASSUME NEW r \in Request, TaskStep(r) \/ Panic(r)
      PROVE  TokensKnown'
  <2>1. /\ task[r] # "unread" /\ UNCHANGED <<token, asked>>
        /\ inflight' = inflight \/ inflight' = released(r)
        /\ \E s \in (Live \cup Ended) \ {"running"} : Become(r, s)
    BY <1>3 DEF TaskStep, Finish, LockWriter, WriteHead, WriteTail, WriteFails,
       ReportFailure, Complete, Drop, Panic, Live, Ended
  <2>2. \A c \in Request : /\ task[c] # "unread" => task'[c] # "unread"
                           /\ task'[c] = "running" => task[c] = "running"
    BY <2>1 DEF Become, TypeOK, Live, Ended
  <2>3. \A i \in Id : inflight'[i] # None => inflight'[i] = inflight[i]
    BY <2>1 DEF released, TypeOK
  <2> QED
    BY <2>1, <2>2, <2>3 DEF TokensKnown
<1>4. ASSUME NEW r \in Request, ReadRequest(r)
      PROVE  TokensKnown'
  <2>1. /\ task[r] = "unread" /\ UNCHANGED <<token, asked>>
        /\ inflight' = registered(r) /\ Become(r, "running")
    BY <1>4 DEF ReadRequest
  <2>2. \A i \in Id : inflight'[i] # None =>
           inflight'[i] = inflight[i] \/ (inflight'[i] = r /\ r \in Call /\ IdOf[r] = i)
    BY <2>1 DEF registered, TypeOK
  <2>3. \A c \in Request : task'[c] = IF c = r THEN "running" ELSE task[c]
    BY <2>1 DEF Become, TypeOK
  <2>4. \A i \in Id : inflight'[i] # None => IdOf[inflight'[i]] = i
    BY <2>2 DEF TokensKnown
  <2>5. \A c \in Call : token'[c] => task'[c] # "unread"
    BY <2>1, <2>3 DEF TokensKnown
  <2>6. \A c \in Call \ Refused : task'[c] = "running" /\ token'[c] => c \in asked'
    BY <2>1, <2>3 DEF TokensKnown
  <2> QED
    BY <2>4, <2>5, <2>6 DEF TokensKnown
<1>5. ASSUME NEW i \in Id, NEW r, CancelInBatch(r, i) \/ ReadCancel(i)
      PROVE  TokensKnown'
  <2>1. cancel(i) /\ UNCHANGED <<task, inflight>>
    BY <1>5 DEF CancelInBatch, ReadCancel
  <2>2. \A c \in Call : token'[c] => token[c] \/ inflight[i] = c
    BY <2>1 DEF cancel, TypeOK
  <2>3. \A c \in Call : inflight[i] = c => IdOf[c] = i /\ task[c] \in Live
    <3>1. \A c \in Call : c # None
      BY DEF Message
    <3> QED
      BY <3>1 DEF TokensKnown, RegistryExact
  <2>4. asked' = asked \cup {c \in Call \ Refused : IdOf[c] = i /\ task[c] = "running"}
    BY <2>1 DEF cancel
  <2>5. \A c \in Call : token'[c] => task'[c] # "unread"
    BY <2>1, <2>2, <2>3 DEF TokensKnown, Live
  <2>6. \A c \in Call \ Refused : task'[c] = "running" /\ token'[c] => c \in asked'
    BY <2>1, <2>2, <2>3, <2>4 DEF TokensKnown
  <2> QED
    BY <2>1, <2>5, <2>6 DEF TokensKnown
<1> QED
  BY <1>1, <1>2, <1>3, <1>4, <1>5 DEF Next, Terminated

\* What the writes and the ends of tasks leave.
LEMMA AnswersStep ==
    ASSUME ServerInv, SessionInv, [Next]_vars
    PROVE  /\ \A r \in Request : Delivered(r)' => task'[r] \in {"sent", "ended"}
           /\ \A r \in Mute : task'[r] \in {"unread", "running"} \cup Ended
<1> DEFINE Goal == /\ \A r \in Request : Delivered(r)' => task'[r] \in {"sent", "ended"}
                   /\ \A r \in Mute : task'[r] \in {"unread", "running"} \cup Ended
<1> USE ServerAssumption DEF ServerInv, Request
<1>1. ASSUME UNCHANGED task, \A q \in Request : Delivered(q)' => Delivered(q)
      PROVE  Goal
  BY <1>1 DEF SessionInv
<1>2. CASE \/ TakeControl \/ MainLocks \/ MainWriteFails \/ LeaveLoop
           \/ (\E r \in Request : Join(r)) \/ ExitProcess \/ ReadEof \/ CloseStdout
           \/ (\E m \in Malformed \cup Broken : ReadMalformed(m)) \/ UNCHANGED vars
           \/ (\E i \in Id : ReadCancel(i))
           \/ (\E r \in Request, i \in Id : CancelInBatch(r, i))
  <2>1. UNCHANGED task /\ UNCHANGED stdout
    BY <1>2 DEF TakeControl, MainLocks, MainWriteFails, LeaveLoop, Join, ExitProcess,
       ReadEof, CloseStdout, ReadMalformed, ReadCancel, CancelInBatch, output, vars
  <2>2. \A q \in Request : Delivered(q)' => Delivered(q)
    BY <2>1 DEF Delivered
  <2> QED
    BY <1>1, <2>1, <2>2
<1>3. CASE MainWritesHead \/ MainWritesTail
  <2>1. UNCHANGED task /\ bad \notin Request /\ (Put(bad, "head") \/ Put(bad, "tail"))
    BY <1>3 DEF MainWritesHead, MainWritesTail, TypeOK
  <2>2. \A q \in Request : Delivered(q)' => Delivered(q)
    BY <2>1, PutTells
  <2> QED
    BY <1>1, <2>1, <2>2
<1>4. ASSUME NEW r \in Request, ReadRequest(r) \/ Panic(r) \/ Finish(r) \/ LockWriter(r)
                                \/ WriteFails(r) \/ ReportFailure(r) \/ Drop(r) \/ Complete(r)
      PROVE  Goal
  <2>1. UNCHANGED stdout
    BY <1>4 DEF ReadRequest, Panic, Finish, LockWriter, WriteFails, ReportFailure, Drop,
       Complete, output
  <2>2. \A q \in Request : Delivered(q)' => Delivered(q)
    BY <2>1 DEF Delivered
  <2>3. /\ \E s \in Live \cup Ended : Become(r, s)
        /\ task[r] # "ended" /\ (task[r] = "sent" => Become(r, "ended"))
        /\ r \in Mute /\ task[r] \in {"unread", "running"}
             => \E s \in {"running"} \cup Ended : Become(r, s)
    BY <1>4 DEF ReadRequest, Panic, Finish, LockWriter, WriteFails, ReportFailure, Drop,
       Complete, Answers, Live, Ended
  <2>4. \A q \in Request : q # r => task'[q] = task[q]
    BY <2>3 DEF Become, TypeOK
  <2>5. task[r] = "sent" => task'[r] = "ended"
    BY <2>3 DEF Become, TypeOK
  <2>6. r \in Mute /\ task[r] \in {"unread", "running"} => task'[r] \in {"running"} \cup Ended
    BY <2>3 DEF Become, TypeOK
  <2>7. r \in Mute => task[r] \in {"unread", "running"}
    BY <1>4 DEF SessionInv, ReadRequest, Panic, Finish, LockWriter, WriteFails,
       ReportFailure, Drop, Complete, Ended
  <2>8. \A q \in Request : Delivered(q)' => task'[q] \in {"sent", "ended"}
    BY <2>2, <2>3, <2>4, <2>5 DEF SessionInv
  <2>9. \A q \in Mute : task'[q] \in {"unread", "running"} \cup Ended
    BY <2>4, <2>6, <2>7 DEF SessionInv
  <2> QED
    BY <2>8, <2>9
<1>5. ASSUME NEW r \in Request, WriteHead(r) \/ WriteTail(r)
      PROVE  Goal
  <2>1. /\ task[r] \in {"head", "tail"}
        /\ \/ Put(r, "head") /\ Become(r, "tail")
           \/ Put(r, "tail") /\ Become(r, "sent")
    BY <1>5 DEF WriteHead, WriteTail
  <2>2. \A q \in Request : Delivered(q)' =>
           Delivered(q) \/ (q = r /\ Put(r, "tail") /\ Become(r, "sent"))
    BY <2>1, PutTells
  <2>3. \A q \in Request : q # r => task'[q] = task[q]
    BY <2>1 DEF Become, TypeOK
  <2>4. ~Delivered(r) /\ r \notin Mute
    BY <2>1 DEF SessionInv, Ended
  <2>5. Become(r, "sent") => task'[r] = "sent"
    BY DEF Become, TypeOK
  <2>6. \A q \in Request : Delivered(q)' => task'[q] \in {"sent", "ended"}
    BY <2>2, <2>3, <2>4, <2>5 DEF SessionInv
  <2>7. \A q \in Mute : task'[q] \in {"unread", "running"} \cup Ended
    BY <2>3, <2>4 DEF SessionInv
  <2> QED
    BY <2>6, <2>7
<1> QED
  BY <1>2, <1>3, <1>4, <1>5 DEF Next, TaskStep, MainStep, Terminated

\* Every step keeps what the client relies on.
LEMMA SessionStep == ServerInv /\ SessionInv /\ [Next]_vars => SessionInv'
BY LoopStep, TokenStep, AnswersStep DEF ServerInv, SessionInv

\* A step that leaves every request, the phase and the aborting as they look.
LEMMA SeenSame ==
    ASSUME phase' = phase, Aborting' = Aborting, \A q \in Request : StateOf(q)' = StateOf(q)
    PROVE  UNCHANGED Seen!vars
BY DEF Seen!vars

\* A step of the client's session that is about one request.
LEMMA SeenBecomes ==
    ASSUME NEW r \in Request, NEW s, StateOf(r)' = s,
           \A q \in Request \ {r} : StateOf(q)' = StateOf(q)
    PROVE  Seen!Become(r, s)
BY DEF Seen!Become

\* The reading task reads on, stops, or waits for the tasks.
LEMMA ReaderSeen ==
    ASSUME ServerInv, SessionInv,
           \/ MainStep \/ ReadEof \/ CloseStdout
           \/ \E m \in Malformed \cup Broken : ReadMalformed(m)
           \/ UNCHANGED vars
    PROVE  Seen!Stop \/ Seen!Close \/ UNCHANGED Seen!vars
<1> USE ServerAssumption DEF ServerInv
<1>1. UNCHANGED <<task, asked, abortRequested>>
  BY DEF MainStep, TakeControl, MainLocks, MainWritesHead, MainWritesTail, MainWriteFails,
     LeaveLoop, Join, ExitProcess, ReadEof, CloseStdout, ReadMalformed, vars
<1>2. \A q \in Request : Delivered(q)' <=> Delivered(q)
  <2>1. CASE MainWritesHead \/ MainWritesTail
    <3>1. bad \notin Request /\ (Put(bad, "head") \/ Put(bad, "tail"))
      BY <2>1 DEF MainWritesHead, MainWritesTail, TypeOK, Request
    <3> QED
      BY <3>1, PutTells
  <2>2. CASE UNCHANGED stdout
    BY <2>2 DEF Delivered
  <2> QED
    BY <2>1, <2>2 DEF MainStep, TakeControl, MainLocks, MainWriteFails, LeaveLoop, Join,
       ExitProcess, ReadEof, CloseStdout, ReadMalformed, output, vars
<1>3. \A q \in Request : StateOf(q)' = StateOf(q)
  BY <1>1, <1>2, LooksTheSame
<1>4. [r \in Request |-> StateOf(r)]' = [r \in Request |-> StateOf(r)]
  BY <1>3
<1>5. CASE UNCHANGED <<main, abortPending>>
  BY <1>1, <1>3, <1>5, SeenSame DEF phase, Aborting
<1>6. CASE \/ LeaveLoop \/ (\E r \in Request : Join(r)) \/ MainLocks \/ MainWritesHead
           \/ CloseStdout \/ (\E m \in Malformed \cup Broken : ReadMalformed(m))
           \/ UNCHANGED vars
  <2>1. UNCHANGED abortPending
    BY <1>6 DEF LeaveLoop, Join, MainLocks, MainWritesHead, CloseStdout, ReadMalformed,
       reader, vars
  <2>2. phase' = phase
    BY <1>6 DEF LeaveLoop, Join, MainLocks, MainWritesHead, CloseStdout, ReadMalformed,
       Reading, reader, vars, phase
  <2> QED
    BY <1>1, <1>3, <2>1, <2>2, SeenSame DEF Aborting
<1>7. CASE TakeControl \/ ReadEof \/ MainWriteFails
  <2>1. /\ main \in {"read", "head", "tail"} /\ main' = "leave"
        /\ abortPending' = abortPending \/ abortPending' = TRUE
    BY <1>7 DEF TakeControl, ReadEof, Reading, MainWriteFails, SessionInv, TypeOK
  <2>2. phase = "accepting" /\ phase' = "draining"
    BY <2>1 DEF phase
  <2>3. Aborting' \in {Aborting, TRUE}
    <3>1. CASE abortPending' = abortPending
      BY <1>1, <3>1 DEF Aborting
    <3>2. CASE abortPending' = TRUE
      <4>1. Aborting' = TRUE
        BY <3>2 DEF Aborting
      <4> QED
        BY <4>1
    <3> QED
      BY <2>1, <3>1, <3>2
  <2> QED
    BY <1>4, <2>2, <2>3 DEF Seen!Stop
<1>8. CASE MainWritesTail
  <2>1. /\ main = "tail" /\ ~abortPending
        /\ \/ main' = "read" /\ ~abortPending'
           \/ main' = "leave" /\ abortPending'
    BY <1>8 DEF MainWritesTail, SessionInv, TypeOK
  <2>2. CASE main' = "read"
    <3>1. phase' = phase /\ Aborting' = Aborting
      BY <1>1, <2>1, <2>2 DEF phase, Aborting, TypeOK
    <3> QED
      BY <1>3, <3>1, SeenSame
  <2>3. CASE main' = "leave"
    <3>1. phase = "accepting" /\ phase' = "draining" /\ Aborting' \in {Aborting, TRUE}
      BY <2>1, <2>3 DEF phase, Aborting, TypeOK
    <3> QED
      BY <1>4, <3>1 DEF Seen!Stop
  <2> QED
    BY <2>1, <2>2, <2>3
<1>9. CASE ExitProcess
  <2>1. phase = "draining" /\ phase' = "over" /\ Aborting' = Aborting
    BY <1>1, <1>9 DEF ExitProcess, phase, Aborting
  <2>2. ASSUME NEW r \in Request PROVE StateOf(r) \notin {"open", "revoked"}
    <3>1. task[r] \in {"unread"} \cup Ended
      BY <1>9 DEF ExitProcess, AllJoined, TypeOK
    <3> QED
      BY <3>1 DEF StateOf, Ended, Live
  <2>3. \A r \in Request : [q \in Request |-> StateOf(q)][r] \notin Seen!Open
    BY <2>2 DEF Seen!Open
  <2> QED
    BY <1>4, <2>1, <2>3 DEF Seen!Close
<1> QED
  BY <1>6, <1>7, <1>8, <1>9 DEF MainStep

\* A request is accepted, is answered, stays silent, breaks or is lost.
LEMMA RequestSeen ==
    ASSUME ServerInv, SessionInv, main # "exited", NEW r \in Request,
           TaskStep(r) \/ Panic(r) \/ ReadRequest(r)
    PROVE  Seen!Next \/ UNCHANGED Seen!vars
<1> DEFINE state == [q \in Request |-> StateOf(q)]
<1> USE ServerAssumption DEF ServerInv, Request
<1>1. /\ \E s \in Live \cup Ended : Become(r, s)
      /\ UNCHANGED <<abortPending, asked>>
  BY DEF TaskStep, Finish, LockWriter, WriteHead, WriteTail, WriteFails, ReportFailure,
     Complete, Drop, Panic, ReadRequest, Live, Ended, reader
<1>2. \A q \in Request \ {r} : task'[q] = task[q]
  BY <1>1 DEF Become, TypeOK
<1>3. \A q \in Request \ {r} : Delivered(q)' <=> Delivered(q)
  <2>1. CASE Put(r, "head") \/ Put(r, "tail")
    BY <2>1, PutTells
  <2>2. CASE UNCHANGED stdout
    BY <2>2 DEF Delivered
  <2> QED
    BY <2>1, <2>2 DEF TaskStep, Finish, LockWriter, WriteHead, WriteTail, WriteFails,
       ReportFailure, Complete, Drop, Panic, ReadRequest, output
<1>4. \A q \in Request \ {r} : StateOf(q)' = StateOf(q)
  BY <1>1, <1>2, <1>3, LooksTheSame
<1>5. \A s : StateOf(r)' = s => Seen!Become(r, s)
  BY <1>4, SeenBecomes
<1>6. state[r] = StateOf(r)
  OBVIOUS
<1>7. \A s \in Live \cup Ended : Become(r, s) => task'[r] = s
  BY DEF Become, TypeOK
<1>8. task[r] \in Live /\ task[r] # "sent" =>
         /\ ~Delivered(r)
         /\ StateOf(r) = IF r \in asked THEN "revoked" ELSE "open"
         /\ r \in asked => task[r] = "running"
  BY Looks DEF SessionInv, AskedIsCancelled, Live, Ended
<1>9. CASE LockWriter(r) \/ WriteHead(r) \/ WriteFails(r) \/ (Finish(r) /\ Answers(r))
  <2>1. /\ task[r] \in Live \ {"sent"} /\ task'[r] \in Live /\ UNCHANGED <<main, abortRequested>>
        /\ Put(r, "head") \/ UNCHANGED stdout
    BY <1>7, <1>9 DEF LockWriter, WriteHead, WriteFails, Finish, Live, reader, output
  <2>2. ~Delivered(r)'
    <3>1. CASE Put(r, "head")
      BY <1>8, <2>1, <3>1, PutTells
    <3>2. CASE UNCHANGED stdout
      BY <1>8, <2>1, <3>2 DEF Delivered
    <3> QED
      BY <2>1, <3>1, <3>2
  <2>3. StateOf(r)' = IF r \in asked THEN "revoked" ELSE "open"
    BY <1>1, <2>1, <2>2 DEF StateOf, Live
  <2>4. \A q \in Request : StateOf(q)' = StateOf(q)
    BY <1>4, <1>8, <2>1, <2>3
  <2> QED
    BY <1>1, <2>1, <2>4, SeenSame DEF phase, Aborting
<1>10. CASE Finish(r) /\ ~Answers(r)
  <2>1. task[r] = "running" /\ task'[r] = "ended" /\ UNCHANGED <<main, abortRequested, stdout>>
    BY <1>7, <1>10 DEF Finish, Ended, reader, output
  <2>2. r \in Mute \/ r \in asked
    BY <1>10, <2>1 DEF Answers, SessionInv, TokensKnown
  <2>3. ~Delivered(r)'
    BY <1>8, <2>1 DEF Delivered, Live
  <2>4. StateOf(r)' = "silent"
    BY <1>1, <2>1, <2>2, <2>3 DEF StateOf, Live
  <2>5. Seen!Silence(r)
    BY <1>1, <1>5, <1>6, <1>8, <2>1, <2>2, <2>4 DEF Seen!Silence, phase, Aborting, Live
  <2> QED
    BY <2>5 DEF Seen!Next
<1>11. CASE WriteTail(r)
  <2>1. /\ task[r] = "tail" /\ ~closed /\ Put(r, "tail")
        /\ UNCHANGED <<main, abortRequested>>
    BY <1>11 DEF WriteTail, reader
  <2>2. StateOf(r)' = "answered"
    BY <2>1, PutTells DEF StateOf
  <2>3. StateOf(r) = "open" /\ r \notin Mute
    BY <1>8, <2>1 DEF Live, SessionInv, Ended
  <2>4. Seen!Answer(r)
    BY <1>1, <1>5, <1>6, <2>1, <2>2, <2>3 DEF Seen!Answer, phase, Aborting
  <2> QED
    BY <2>4 DEF Seen!Next
<1>12. CASE Complete(r)
  <2>1. task[r] = "sent" /\ UNCHANGED <<main, abortRequested, stdout>>
    BY <1>12 DEF Complete, reader, output
  <2>2. Delivered(r) /\ Delivered(r)'
    BY <2>1 DEF DrainInv, Delivered
  <2>3. StateOf(r)' = StateOf(r)
    BY <2>2 DEF StateOf
  <2>4. \A q \in Request : StateOf(q)' = StateOf(q)
    BY <1>4, <2>3
  <2> QED
    BY <1>1, <2>1, <2>4, SeenSame DEF phase, Aborting
<1>13. CASE ReportFailure(r)
  <2>1. /\ task[r] = "failed" /\ task'[r] = "ended" /\ abortRequested' = TRUE
        /\ UNCHANGED <<main, stdout>>
    BY <1>7, <1>13 DEF ReportFailure, Ended, reader, output
  <2>2. r \notin Mute \cup asked
    BY <1>8, <2>1 DEF Live, SessionInv, Ended
  <2>3. ~Delivered(r)'
    BY <1>8, <2>1 DEF Delivered, Live
  <2>4. StateOf(r)' = "lost"
    BY <1>1, <2>1, <2>2, <2>3 DEF StateOf, Live
  <2>5. Aborting' = TRUE /\ phase' = phase
    BY <2>1 DEF Aborting, phase
  <2>6. Seen!Lose(r)
    BY <1>5, <1>6, <1>8, <2>1, <2>4, <2>5 DEF Seen!Lose, Seen!Open, Live
  <2> QED
    BY <2>6 DEF Seen!Next
<1>14. CASE Drop(r)
  <2>1. /\ aborted[r] /\ task[r] \in {"running", "ready", "head", "tail"}
        /\ task'[r] = "dropped" /\ UNCHANGED <<main, abortRequested, stdout>>
    BY <1>7, <1>14 DEF Drop, Ended, reader
  <2>2. ~Delivered(r)'
    BY <1>8, <2>1 DEF Delivered, Live
  <2>3. StateOf(r)' = "lost"
    BY <2>1, <2>2 DEF StateOf, Live
  <2>4. Aborting' = TRUE /\ phase' = phase
    BY <1>1, <2>1 DEF DrainInv, Aborting, phase, TypeOK
  <2>5. Seen!Lose(r)
    BY <1>5, <1>6, <1>8, <2>1, <2>3, <2>4 DEF Seen!Lose, Seen!Open, Live
  <2> QED
    BY <2>5 DEF Seen!Next
<1>15. CASE Panic(r)
  <2>1. task[r] = "running" /\ task'[r] = "panicked" /\ UNCHANGED <<main, abortRequested, stdout>>
    BY <1>7, <1>15 DEF Panic, Ended, reader, output
  <2>2. ~Delivered(r)'
    BY <1>8, <2>1 DEF Delivered, Live
  <2>3. StateOf(r)' = "broken"
    BY <2>1, <2>2 DEF StateOf, Live
  <2>4. Seen!Break(r)
    BY <1>1, <1>5, <1>6, <1>8, <2>1, <2>3 DEF Seen!Break, Seen!Open, phase, Aborting, Live
  <2> QED
    BY <2>4 DEF Seen!Next
<1>16. CASE ReadRequest(r)
  <2>1. /\ main = "read" /\ control = "none" /\ task[r] = "unread" /\ task'[r] = "running"
        /\ main' = IF r \in Exit THEN "leave" ELSE "read"
        /\ UNCHANGED <<abortRequested, stdout>>
    BY <1>7, <1>16 DEF ReadRequest, Reading, should_stop_reading, Live, output
  <2>2. ~Delivered(r) /\ ~Delivered(r)'
    BY <2>1 DEF Delivered, SessionInv
  <2>3. r \notin asked
    BY <2>1 DEF AskedIsCancelled, Ended
  <2>4. StateOf(r) = "unread" /\ StateOf(r)' = "open"
    BY <1>1, <2>1, <2>2, <2>3 DEF StateOf, Live
  <2>5. Aborting = FALSE /\ Aborting' = FALSE
    BY <1>1, <2>1 DEF Aborting, SessionInv, TypeOK
  <2>6. phase = "accepting" /\ phase' = IF r \in Exit THEN "draining" ELSE "accepting"
    BY <2>1 DEF phase
  <2>7. Seen!Accept(r)
    BY <1>5, <1>6, <2>4, <2>5, <2>6 DEF Seen!Accept
  <2> QED
    BY <2>7 DEF Seen!Next
<1> QED
  BY <1>9, <1>10, <1>11, <1>12, <1>13, <1>14, <1>15, <1>16 DEF TaskStep

\* A cancellation revokes the one call that has its id, if its tool still runs.
LEMMA CancelSeen ==
    ASSUME ServerInv, SessionInv, main # "exited", NEW i \in Id, NEW r,
           CancelInBatch(r, i) \/ ReadCancel(i)
    PROVE  Seen!Next \/ UNCHANGED Seen!vars
<1> DEFINE state == [q \in Request |-> StateOf(q)]
<1> USE ServerAssumption DEF ServerInv
<1>1. /\ UNCHANGED <<task, stdout, main, abortPending, abortRequested>>
      /\ asked' = asked \cup {c \in Call \ Refused : IdOf[c] = i /\ task[c] = "running"}
  BY DEF CancelInBatch, ReadCancel, cancel, reader, output
<1>2. phase' = phase /\ Aborting' = Aborting /\ phase # "over"
  BY <1>1 DEF phase, Aborting, TypeOK
<1>3. \A q \in Request : Delivered(q)' <=> Delivered(q)
  BY <1>1 DEF Delivered
<1>4. CASE asked' = asked
  <2>1. \A q \in Request : StateOf(q)' = StateOf(q)
    BY <1>1, <1>3, <1>4, LooksTheSame
  <2> QED
    BY <1>2, <2>1, SeenSame
<1>5. CASE asked' # asked
  <2>1. PICK c \in Call \ Refused : IdOf[c] = i /\ task[c] = "running" /\ c \notin asked
    BY <1>1, <1>5
  <2>2. asked' = asked \cup {c}
    BY <1>1, <2>1, UniqueIds
  <2>3. c \in Request /\ ~Delivered(c)
    BY <2>1 DEF Request, SessionInv
  <2>4. StateOf(c) = "open" /\ StateOf(c)' = "revoked"
    BY <1>1, <1>3, <2>1, <2>2, <2>3 DEF StateOf, Live
  <2>5. \A q \in Request \ {c} : StateOf(q)' = StateOf(q)
    BY <1>1, <1>3, <2>2, LooksTheSame
  <2>6. Seen!Become(c, "revoked")
    BY <2>3, <2>4, <2>5, SeenBecomes
  <2>7. state[c] = StateOf(c)
    BY <2>3
  <2>8. Seen!Revoke(c)
    BY <1>2, <2>1, <2>4, <2>6, <2>7 DEF Seen!Revoke
  <2> QED
    BY <2>3, <2>8 DEF Seen!Next
<1> QED
  BY <1>4, <1>5

\* The server is a session: a client sees of it what Session allows, whatever is sent,
\* cancelled or closed, and whatever fails.
THEOREM ServerIsASession == Spec => ImplementsSession
<1>1. Init => Seen!Init
  <2> SUFFICES ASSUME Init PROVE Seen!Init
    OBVIOUS
  <2>1. phase = "accepting" /\ Aborting = FALSE
    BY DEF Init, phase, Aborting
  <2>2. \A r \in Request : StateOf(r) = "unread"
    BY Looks DEF Init, Delivered
  <2> QED
    BY <2>1, <2>2 DEF Seen!Init
<1>2. ServerInv /\ SessionInv /\ [Next]_vars => [Seen!Next]_(Seen!vars)
  <2> SUFFICES ASSUME ServerInv, SessionInv, [Next]_vars
               PROVE  Seen!Next \/ UNCHANGED Seen!vars
    OBVIOUS
  <2>1. CASE \/ MainStep \/ ReadEof \/ CloseStdout \/ UNCHANGED vars
             \/ \E m \in Malformed \cup Broken : ReadMalformed(m)
    BY <2>1, ReaderSeen DEF Seen!Next
  <2>2. ASSUME main # "exited", NEW r \in Request, TaskStep(r) \/ Panic(r) \/ ReadRequest(r)
        PROVE  Seen!Next \/ UNCHANGED Seen!vars
    BY <2>2, RequestSeen
  <2>3. ASSUME main # "exited", NEW i \in Id, NEW r, CancelInBatch(r, i) \/ ReadCancel(i)
        PROVE  Seen!Next \/ UNCHANGED Seen!vars
    BY <2>3, CancelSeen
  <2> QED
    BY <2>1, <2>2, <2>3 DEF Next, Terminated
<1>3. ServerInv /\ SessionInv /\ [Next]_vars => SessionInv'
  BY SessionStep
<1> QED
  BY <1>1, <1>2, <1>3, SessionInit, ServerInvariant, PTL
     DEF Spec, ImplementsSession, Seen!Spec
=============================================================================

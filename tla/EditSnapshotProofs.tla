-------------------------- MODULE EditSnapshotProofs --------------------------
(* Theorems about EditSnapshot, for any calls, texts and other programs. *)
EXTENDS EditSnapshot, TLAPS

-----------------------------------------------------------------------------
(* Types *)

\* A text with another set of edits, or damaged, is still a text.
LEMMA ContentType ==
    /\ \A t \in Text : Fresh(t) \in Content
    /\ \A c \in Content : [c EXCEPT !.damaged = TRUE] \in Content
    /\ \A c \in Content, e \in Edit : [c EXCEPT !.edits = @ \cup {e}] \in Content
BY DEF Fresh, Content

\* Every action keeps the types.
LEMMA TypingStep ==
    TypeOK /\ [Next]_vars => TypeOK'
<1> SUFFICES ASSUME TypeOK, [Next]_vars
             PROVE  TypeOK'
  OBVIOUS
<1> USE EditSnapshotAssumption DEF TypeOK, Call, File, InFlight, Become, Disturb
<1>1. ASSUME NEW r \in Read, ReadFile(r)
      PROVE  TypeOK'
  BY <1>1 DEF ReadFile
<1>2. ASSUME NEW r \in Read, ReadRecord(r)
      PROVE  TypeOK'
  BY <1>2 DEF ReadRecord, record, Recorded
<1>3. ASSUME NEW e \in Edit, EditBegin(e)
      PROVE  TypeOK'
  BY <1>3 DEF EditBegin, Known
<1>4. ASSUME NEW e \in Edit, EditCheck(e)
      PROVE  TypeOK'
  BY <1>4 DEF EditCheck, UpToDate
<1>5. ASSUME NEW c \in Edit \cup Other, OpenFile(c)
      PROVE  TypeOK'
  BY <1>5 DEF OpenFile
<1>6. ASSUME NEW e \in Edit, EditRecord(e)
      PROVE  TypeOK'
  <2>1. Recorded(e) \in Content
    BY <1>6, ContentType DEF EditRecord, Recorded, Produced
  <2>2. QED
    BY <1>6, <2>1 DEF EditRecord, record
<1>7. ASSUME NEW o \in Other, WriteOpen(o)
      PROVE  TypeOK'
  BY <1>7, ZenonT(60) DEF WriteOpen
<1>8. ASSUME NEW c \in Edit \cup Other, at[c] = "write"
      PROVE  Output(c) \in Content
  BY <1>8, ContentType DEF Output, Produced
<1>9. ASSUME NEW c \in Edit \cup Other, WriteBytes(c)
      PROVE  TypeOK'
  <2>1. Output(c) \in Content
    BY <1>8, <1>9 DEF WriteBytes
  <2>2. disk' \in File \cup {None}
    BY <1>9, <2>1, ContentType DEF WriteBytes, Over
  <2>3. QED
    BY <1>9, <2>2 DEF WriteBytes
<1>10. ASSUME NEW c \in Edit \cup Other, WriteFails(c)
       PROVE  TypeOK'
  <2>1. Output(c) \in Content
    BY <1>8, <1>10 DEF WriteFails
  <2>2. disk' \in File \cup {None}
    BY <1>10, <2>1, ContentType DEF WriteFails
  <2>3. QED
    BY <1>10, <2>2 DEF WriteFails
<1>11. ASSUME NEW o \in Other, DeleteFile(o)
       PROVE  TypeOK'
  BY <1>11 DEF DeleteFile
<1>12. ASSUME NEW c \in Call, Refuse(c)
       PROVE  TypeOK'
  BY <1>12 DEF Refuse
<1>13. ASSUME NEW o \in Outside, Save(o)
       PROVE  TypeOK'
  BY <1>13, ContentType DEF Save
<1>14. ASSUME NEW o \in Other, PlaceBegin(o) \/ CopyStage(o)
       PROVE  TypeOK'
  <2>1. CASE PlaceBegin(o)
    BY <2>1, <1>14 DEF PlaceBegin
  <2>2. CASE CopyStage(o)
    BY <2>2, <1>14 DEF CopyStage
  <2>3. QED
    BY <1>14, <2>1, <2>2
<1>15. ASSUME NEW o \in Other, CopyRemove(o) \/ Rename(o)
       PROVE  TypeOK'
  <2>1. Fresh(TextOf[o]) \in Content
    BY <1>15, ContentType
  <2>2. CASE CopyRemove(o)
    BY <2>2, <1>15 DEF CopyRemove
  <2>3. ASSUME Rename(o), disk' = Fresh(TextOf[o]) /\ linked' = {} /\ current' = FALSE,
               Become(o, "ok")
        PROVE  TypeOK'
    BY <2>1, <2>3, <1>15 DEF Rename
  <2>4. ASSUME Rename(o), UNCHANGED <<disk, linked, current>>,
               Become(o, "refused") \/ (at[o] = "move" /\ Become(o, "open"))
        PROVE  TypeOK'
    BY <2>4, <1>15 DEF Rename
  <2>5. CASE Rename(o)
    <3> HIDE DEF TypeOK, Call, File, InFlight, Become, Disturb
    <3>1. \/ disk' = Fresh(TextOf[o]) /\ linked' = {} /\ current' = FALSE /\ Become(o, "ok")
          \/ /\ Become(o, "refused") \/ (at[o] = "move" /\ Become(o, "open"))
             /\ UNCHANGED <<disk, linked, current>>
      BY <2>5 DEF Rename
    <3> QED
      BY <2>3, <2>4, <2>5, <3>1, Zenon
  <2>6. QED
    BY <1>15, <2>2, <2>5
<1>16. CASE UNCHANGED vars
  BY <1>16 DEF vars
<1>17. QED
  BY <1>1, <1>2, <1>3, <1>4, <1>5, <1>6, <1>7, <1>9, <1>10, <1>11, <1>12,
     <1>13, <1>14, <1>15, <1>16 DEF Next

\* The variables keep their types in every session.
THEOREM TypeInvariant == Spec => []TypeOK
<1>1. ASSUME Init
      PROVE  TypeOK
  <2>1. disk \in File \cup {None}
    BY <1>1, ContentType DEF Init, File
  <2>2. InFlight = {}
    BY <1>1 DEF Init, InFlight
  <2>3. \A c \in Call : at[c] = "idle" /\ text[c] = None
    BY <1>1 DEF Init
  <2>4. /\ at \in [Call -> {"idle"}] /\ text \in [Call -> {None}]
        /\ linked = {} /\ seen = {} /\ shared = {} /\ snapshot = None
        /\ current \in BOOLEAN /\ pending \subseteq Outside
    BY <1>1 DEF Init
  <2>5. QED
    BY <2>1, <2>2, <2>3, <2>4 DEF TypeOK, Call
<1>2. QED
  BY <1>1, TypingStep, PTL DEF Spec

-----------------------------------------------------------------------------
(* What an Edit works on has been seen *)

\* The snapshot, and what calls in flight hold, has been seen.
SeenInv ==
    /\ snapshot # None => snapshot \in seen
    /\ \A c \in (Read \cup Edit) \cap InFlight : text[c] \in seen

\* Every action keeps it: an Edit goes on only with a content equal to the
\* snapshot it was given, and nothing is ever removed from what was seen.
LEMMA SeenStep ==
    TypeOK /\ SeenInv /\ [Next]_vars => SeenInv'
<1> SUFFICES ASSUME TypeOK, SeenInv, [Next]_vars
             PROVE  SeenInv'
  OBVIOUS
<1> USE EditSnapshotAssumption DEF SeenInv, InFlight, Call, Become
<1> USE DEF TypeOK
<1>1. ASSUME NEW r \in Read, ReadFile(r)
      PROVE  SeenInv'
  BY <1>1 DEF ReadFile
<1>2. ASSUME NEW r \in Read, ReadRecord(r)
      PROVE  SeenInv'
  BY <1>2 DEF ReadRecord, record
<1>3. ASSUME NEW e \in Edit, EditBegin(e)
      PROVE  SeenInv'
  BY <1>3 DEF EditBegin, Known
<1>4. ASSUME NEW e \in Edit, EditCheck(e)
      PROVE  SeenInv'
  BY <1>4 DEF EditCheck, UpToDate
<1>5. ASSUME NEW c \in Edit \cup Other, OpenFile(c)
      PROVE  SeenInv'
  BY <1>5 DEF OpenFile
<1>6. ASSUME NEW e \in Edit, EditRecord(e)
      PROVE  SeenInv'
  BY <1>6 DEF EditRecord, record
<1>7. ASSUME NEW o \in Other, WriteOpen(o)
      PROVE  SeenInv'
  BY <1>7 DEF WriteOpen
<1>8. ASSUME NEW c \in Edit \cup Other, WriteBytes(c) \/ WriteFails(c)
      PROVE  SeenInv'
  BY <1>8 DEF WriteBytes, WriteFails
<1>9. ASSUME NEW o \in Other, DeleteFile(o)
      PROVE  SeenInv'
  BY <1>9 DEF DeleteFile
<1>10. ASSUME NEW c \in Call, Refuse(c)
       PROVE  SeenInv'
  BY <1>10 DEF Refuse
<1>11. ASSUME NEW o \in Outside, Save(o)
       PROVE  SeenInv'
  BY <1>11 DEF Save
<1>12. ASSUME NEW o \in Other,
              PlaceBegin(o) \/ CopyStage(o) \/ CopyRemove(o) \/ Rename(o)
       PROVE  SeenInv'
  BY <1>12 DEF PlaceBegin, CopyStage, CopyRemove, Rename
<1>13. CASE UNCHANGED vars
  BY <1>13 DEF vars
<1>14. QED
  BY <1>1, <1>2, <1>3, <1>4, <1>5, <1>6, <1>7, <1>8, <1>9, <1>10, <1>11, <1>12,
     <1>13 DEF Next

\* An Edit writes its change of a content that was read or produced in the
\* session, whoever else changes the file or the store.
THEOREM EditsOnlyWhatWasSeen == Spec => []EditsWhatWasSeen
<1>1. Init => SeenInv
  BY EditSnapshotAssumption DEF Init, SeenInv, InFlight, Call
<1>2. SeenInv => EditsWhatWasSeen
  BY DEF SeenInv, EditsWhatWasSeen, InFlight, Call
<1>3. QED
  BY <1>1, <1>2, SeenStep, TypeInvariant, PTL DEF Spec

-----------------------------------------------------------------------------
(* The snapshot is current while calls do not overlap *)

\* A call that no other overlapped is the only one in flight.
AloneInFlight ==
    \A c \in InFlight \ shared : InFlight = {c}

\* It finds the file as it left it.
FileUndisturbed ==
    /\ \A r \in Read \ shared : at[r] = "record" => disk = text[r]
    /\ \A e \in Edit \ shared :
        /\ at[e] = "write" => disk = Empty /\ e \in linked
        /\ at[e] = "record" => disk = Produced(e)

\* While the snapshot is current, nobody is writing.
NobodyWrites ==
    current => \A c \in Call : at[c] # "write"

CurrentInv == AloneInFlight /\ FileUndisturbed /\ NobodyWrites /\ SnapshotIsCurrent

\* Every action keeps it.  The steps that change the file under others, or
\* begin a call, put whoever is in flight among the shared; a call that is not
\* shared meets nobody else's step.
LEMMA CurrentStep ==
    TypeOK /\ CurrentInv /\ [Next]_vars => CurrentInv'
<1> SUFFICES ASSUME TypeOK, CurrentInv, [Next]_vars
             PROVE  CurrentInv'
  OBVIOUS
<1> USE EditSnapshotAssumption DEF CurrentInv, AloneInFlight, FileUndisturbed,
        NobodyWrites, SnapshotIsCurrent, InFlight, Call, Become, Disturb
<1> USE DEF TypeOK
<1>1. ASSUME NEW r \in Read, ReadFile(r)
      PROVE  CurrentInv'
  BY <1>1 DEF ReadFile, Produced
<1>2. ASSUME NEW r \in Read, ReadRecord(r)
      PROVE  CurrentInv'
  <2>1. AloneInFlight'
    BY <1>2 DEF ReadRecord
  <2>2. FileUndisturbed'
    BY <1>2 DEF ReadRecord, Produced
  <2>3. NobodyWrites'
    BY <1>2 DEF ReadRecord, record
  <2>4. SnapshotIsCurrent'
    <3>1. Recorded(r) = text[r] /\ text[r] # None
      BY <1>2, ContentType DEF ReadRecord, Recorded, Produced, File
    <3>2. QED
      BY <1>2, <3>1 DEF ReadRecord, record
  <2>5. QED
    BY <2>1, <2>2, <2>3, <2>4
<1>3. ASSUME NEW e \in Edit, EditBegin(e)
      PROVE  CurrentInv'
  BY <1>3 DEF EditBegin, Produced
<1>4. ASSUME NEW e \in Edit, EditCheck(e)
      PROVE  CurrentInv'
  BY <1>4 DEF EditCheck, Produced
<1>5. ASSUME NEW c \in Edit \cup Other, OpenFile(c)
      PROVE  CurrentInv'
  BY <1>5 DEF OpenFile, Produced
<1>6. ASSUME NEW e \in Edit, EditRecord(e)
      PROVE  CurrentInv'
  <2>1. AloneInFlight'
    BY <1>6 DEF EditRecord
  <2>2. FileUndisturbed'
    BY <1>6 DEF EditRecord, Produced
  <2>3. NobodyWrites'
    BY <1>6 DEF EditRecord, record
  <2>4. SnapshotIsCurrent'
    <3>1. Recorded(e) = Produced(e) /\ Produced(e) # None
      BY <1>6, ContentType DEF EditRecord, Recorded, Produced, File
    <3>2. QED
      BY <1>6, <3>1 DEF EditRecord, record
  <2>5. QED
    BY <2>1, <2>2, <2>3, <2>4
<1>7. ASSUME NEW o \in Other, WriteOpen(o)
      PROVE  CurrentInv'
  BY <1>7 DEF WriteOpen, Produced
<1>8. ASSUME NEW c \in Edit \cup Other, WriteBytes(c)
      PROVE  CurrentInv'
  BY <1>8 DEF WriteBytes, Output, Over, Produced
<1>9. ASSUME NEW c \in Edit \cup Other, WriteFails(c)
      PROVE  CurrentInv'
  BY <1>9 DEF WriteFails, Produced
<1>10. ASSUME NEW o \in Other, DeleteFile(o)
       PROVE  CurrentInv'
  BY <1>10 DEF DeleteFile, Produced
<1>11. ASSUME NEW c \in Call, Refuse(c)
       PROVE  CurrentInv'
  BY <1>11 DEF Refuse, Produced
<1>12. ASSUME NEW o \in Outside, Save(o)
       PROVE  CurrentInv'
  BY <1>12 DEF Save, Produced
<1>13. ASSUME NEW o \in Other, PlaceBegin(o) \/ CopyStage(o)
       PROVE  CurrentInv'
  BY <1>13 DEF PlaceBegin, CopyStage, Produced
<1>14. ASSUME NEW o \in Other, CopyRemove(o) \/ Rename(o)
       PROVE  CurrentInv'
  BY <1>14 DEF CopyRemove, Rename, Produced
<1>15. CASE UNCHANGED vars
  BY <1>15 DEF vars, Produced
<1>16. QED
  BY <1>1, <1>2, <1>3, <1>4, <1>5, <1>6, <1>7, <1>8, <1>9, <1>10, <1>11, <1>12,
     <1>13, <1>14, <1>15 DEF Next

\* After a Read or an Edit that nothing overlapped, the store describes the
\* file until someone else changes it.
THEOREM SnapshotStaysCurrent == Spec => []SnapshotIsCurrent
<1>1. Init => CurrentInv
  BY EditSnapshotAssumption DEF Init, CurrentInv, AloneInFlight, FileUndisturbed,
     NobodyWrites, SnapshotIsCurrent, InFlight, Call
<1>2. CurrentInv => SnapshotIsCurrent
  BY DEF CurrentInv
<1>3. QED
  BY <1>1, <1>2, CurrentStep, TypeInvariant, PTL DEF Spec
=============================================================================

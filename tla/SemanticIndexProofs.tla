------------------------ MODULE SemanticIndexProofs ------------------------
(***************************************************************************)
(* Proofs about SemanticIndex.                                             *)
(***************************************************************************)
EXTENDS SemanticIndex, TLAPS

EndType(r) ==
    /\ pc' \in [Run -> Phase]
    /\ scope' \in [Run -> SUBSET File]
    /\ force' \in [Run -> BOOLEAN]
    /\ floor' \in [Run -> Time]
    /\ stat' \in [Run -> [File -> Time \cup {None}]]
    /\ mem' \in [Run -> [File -> ManifestFile \cup {None}]]
    /\ dirty' \in [Run -> BOOLEAN]
    /\ left' \in [Run -> SUBSET File]
    /\ pend' \in [Run -> [File -> ManifestFile \cup {None}]]
    /\ touched' \in [Run -> SUBSET File]
    /\ lone' \in [Run -> BOOLEAN]
    /\ edited' \in [Run -> SUBSET File]
    /\ clash' \in [Run -> BOOLEAN]

\* A run that ends keeps the types of the runs' variables.
LEMMA EndTyped ==
    ASSUME TypeOK, NEW r \in Run, End(r)
    PROVE  EndType(r)
BY SemanticAssumption DEF TypeOK, End, EndType, Phase, Time, Nothing

\* The variables keep their types.
LEMMA TypeStep ==
    ASSUME TypeOK, [Next]_vars
    PROVE  TypeOK'
<1> USE SemanticAssumption
<1>1. CASE UNCHANGED vars
  BY <1>1 DEF vars, TypeOK
<1>2. CASE Tick
  BY <1>2 DEF Tick, TypeOK, Time, index, args
<1>3. ASSUME NEW f \in File, Edit(f)
      PROVE  TypeOK'
  <2>1. disk' \in [File -> OnDisk \cup {None}] /\ edits' \in Nat
    <3>1. ASSUME NEW c \in Content, NEW t \in Time
          PROVE  [body |-> c, mtime |-> t] \in OnDisk \cup {None}
      BY DEF OnDisk
    <3>2. disk' = [disk EXCEPT ![f] = None]
          \/ \E v \in OnDisk \cup {None} : disk' = [disk EXCEPT ![f] = v]
      BY <1>3, <3>1 DEF Edit
    <3> DEFINE D == OnDisk \cup {None}
    <3>3. None \in D /\ disk \in [File -> D]
      BY DEF TypeOK
    <3> HIDE DEF D
    <3>4. disk' \in [File -> D]
      <4>1. CASE disk' = [disk EXCEPT ![f] = None]
        BY <4>1, <3>3
      <4>2. ASSUME NEW v \in D, disk' = [disk EXCEPT ![f] = v]
            PROVE  disk' \in [File -> D]
        BY <4>2, <3>3
      <4> QED
        BY <3>2, <4>1, <4>2 DEF D
    <3>5. edits' \in Nat
      BY <1>3 DEF Edit, TypeOK
    <3> QED
      BY <3>4, <3>5 DEF D
  <2>2. edited' \in [Run -> SUBSET File]
    BY <1>3 DEF Edit, TypeOK
  <2> QED
    BY <1>3, <2>1, <2>2 DEF Edit, TypeOK, index, args
<1>4. ASSUME NEW r \in Run, Start(r)
      PROVE  TypeOK'
  <2>1. pc' \in [Run -> Phase]
    BY <1>4 DEF Start, TypeOK, Phase
  <2>2. lone' \in [Run -> BOOLEAN]
    BY <1>4 DEF Start, TypeOK, Busy
  <2>3. /\ calls' \in Nat /\ scope' \in [Run -> SUBSET File]
        /\ left' \in [Run -> SUBSET File] /\ force' \in [Run -> BOOLEAN]
        /\ floor' \in [Run -> Time]
    BY <1>4 DEF Start, TypeOK
  <2> QED
    BY <1>4, <2>1, <2>2, <2>3 DEF Start, TypeOK, files, index
<1>5. ASSUME NEW r \in Run, NEW f \in File, Walk(r, f)
      PROVE  TypeOK'
  <2>1. stat' \in [Run -> [File -> Time \cup {None}]]
    <3>1. disk[f] # None => disk[f].mtime \in Time
      BY DEF TypeOK, OnDisk
    <3>2. stat' = stat \/ /\ disk[f] # None
                          /\ stat' = [stat EXCEPT ![r][f] = disk[f].mtime]
      BY <1>5 DEF Walk
    <3> DEFINE T == Time \cup {None}
    <3>3. stat \in [Run -> [File -> T]] /\ (disk[f] # None => disk[f].mtime \in T)
      BY <3>1 DEF TypeOK
    <3> HIDE DEF T
    <3>4. stat' \in [Run -> [File -> T]]
      BY <3>2, <3>3
    <3> QED
      BY <3>4 DEF T
  <2>2. left' \in [Run -> SUBSET File]
    BY <1>5 DEF Walk, TypeOK
  <2> QED
    BY <1>5, <2>1, <2>2 DEF Walk, TypeOK, files, index, args
<1>6. ASSUME NEW r \in Run, Load(r)
      PROVE  TypeOK'
  BY <1>6 DEF Load, TypeOK, Phase, Found, files, index, args
<1>7. ASSUME NEW r \in Run, NEW f \in File, Read(r, f)
      PROVE  TypeOK'
  <2>1. recordable_stamp(stat[r][f], floor[r]) \in Time \cup {None}
    BY DEF recordable_stamp, TypeOK
  <2>2. /\ mem' \in [Run -> [File -> ManifestFile \cup {None}]]
        /\ dirty' \in [Run -> BOOLEAN]
        /\ pend' \in [Run -> [File -> ManifestFile \cup {None}]]
    <3>1. CASE PassByStamp(r, f)
      BY <3>1 DEF PassByStamp, TypeOK
    <3>2. CASE ReadAndHash(r, f)
      <4> DEFINE c == disk[f].body
                 seen == recordable_stamp(stat[r][f], floor[r])
      <4>1. c \in Content
        BY <3>2 DEF ReadAndHash, TypeOK, OnDisk
      <4>2. CASE mem[r][f] # None
                 /\ mem' = [mem EXCEPT ![r][f].stamp = seen]
                 /\ dirty' = [dirty EXCEPT ![r] = @ \/ mem[r][f].stamp # seen]
                 /\ UNCHANGED pend
        <5>1. mem[r][f] \in ManifestFile
          BY <4>2 DEF TypeOK
        <5>2. [mem[r][f] EXCEPT !.stamp = seen] \in ManifestFile
          BY <5>1, <2>1 DEF ManifestFile
        <5>3. dirty' \in [Run -> BOOLEAN]
          BY <4>2 DEF TypeOK
        <5> QED
          BY <4>2, <5>2, <5>3 DEF TypeOK
      <4>3. CASE /\ pend' = IF c \in Junk THEN pend
                           ELSE [pend EXCEPT
                                   ![r][f] = [hash |-> c, stamp |-> seen]]
                 /\ UNCHANGED <<mem, dirty>>
        <5>1. c \notin Junk => [hash |-> c, stamp |-> seen] \in ManifestFile
          BY <4>1, <2>1 DEF ManifestFile, Content
        <5> QED
          BY <4>3, <5>1 DEF TypeOK
      <4> QED
        BY <3>2, <4>2, <4>3 DEF ReadAndHash, is_current
    <3> QED
      BY <1>7, <3>1, <3>2 DEF Read
  <2>3. left' \in [Run -> SUBSET File]
    BY <1>7 DEF Read, TypeOK
  <2> QED
    BY <1>7, <2>2, <2>3 DEF Read, TypeOK, files, index, args
<1>8. ASSUME NEW r \in Run, Decide(r)
      PROVE  TypeOK'
  <2>1. files_to_index(r) \cup stale_paths_under(r) \in SUBSET File
    BY DEF files_to_index, stale_paths_under, TypeOK
  <2> QED
    BY <1>8, <2>1 DEF Decide, TypeOK, Phase, files, index, args
<1>9. ASSUME NEW r \in Run, AllCurrent(r)
      PROVE  TypeOK'
  BY <1>9, EndTyped DEF AllCurrent, EndType, TypeOK, files, index
<1>10. ASSUME NEW r \in Run, Delete(r)
       PROVE  TypeOK'
  <2>1. rows' \in [File -> [Text -> Nat]]
    BY <1>10 DEF Delete, Without, TypeOK
  <2>2. pc' \in [Run -> Phase] /\ left' \in [Run -> SUBSET File]
    BY <1>10 DEF Delete, TypeOK, Phase
  <2> QED
    BY <1>10, <2>1, <2>2 DEF Delete, TypeOK, files, args
<1>11. ASSUME NEW r \in Run, Add(r)
       PROVE  TypeOK'
  <2>1. rows' \in [File -> [Text -> Nat]]
    BY <1>11 DEF Add, With, TypeOK
  <2>2. mem' \in [Run -> [File -> ManifestFile \cup {None}]]
    BY <1>11 DEF Add, updated, TypeOK
  <2>3. pc' \in [Run -> Phase]
    BY <1>11 DEF Add, TypeOK, Phase
  <2> QED
    BY <1>11, <2>1, <2>2, <2>3 DEF Add, TypeOK, files, args
<1>12. ASSUME NEW r \in Run, Save(r)
       PROVE  TypeOK'
  <2>1. clash' \in [Run -> BOOLEAN]
    BY <1>12 DEF Save, TypeOK
  <2>2. pc' \in [Run -> Phase] /\ torn' \in BOOLEAN
    BY <1>12 DEF Save, TypeOK, Phase
  <2> QED
    BY <1>12, <2>1, <2>2 DEF Save, TypeOK, files, args
<1>13. ASSUME NEW r \in Run, Saved(r)
       PROVE  TypeOK'
  <2>1. /\ manifest' \in [File -> ManifestFile \cup {None}]
        /\ torn' \in BOOLEAN /\ hurt' \in SUBSET File
    <3>1. \A g \in File : mem[r][g] \in ManifestFile \cup {None}
      BY DEF TypeOK
    <3>2. \/ manifest' = [g \in File |-> mem[r][g]] /\ torn' = FALSE
          \/ manifest' = manifest /\ torn' = TRUE
      BY <1>13 DEF Saved
    <3>3. manifest' \in [File -> ManifestFile \cup {None}] /\ torn' \in BOOLEAN
      BY <3>1, <3>2 DEF TypeOK
    <3>4. hurt' \in SUBSET File
      BY <1>13 DEF Saved, TypeOK
    <3> QED
      BY <3>3, <3>4
  <2> QED
    BY <1>13, <2>1, EndTyped DEF Saved, EndType, TypeOK, files
<1>14. ASSUME NEW r \in Run, Stop(r)
       PROVE  TypeOK'
  <2>1. hurt' \in SUBSET File
    BY <1>14 DEF Stop, Written, TypeOK
  <2> QED
    BY <1>14, <2>1, EndTyped DEF Stop, EndType, TypeOK, files, index
<1> QED
  BY <1>1, <1>2, <1>3, <1>4, <1>5, <1>6, <1>7, <1>8, <1>9, <1>10, <1>11,
     <1>12, <1>13, <1>14 DEF Next

LEMMA TypeInit == Init => TypeOK
<1> SUFFICES ASSUME Init
             PROVE  TypeOK
  OBVIOUS
<1>1. Nothing \in [File -> ManifestFile \cup {None}]
      /\ Nothing \in [File -> Time \cup {None}]
  BY DEF Nothing
<1>2. 0 \in Time
  BY SemanticAssumption DEF Time
<1>3. [body : Text, mtime : {0}] \subseteq OnDisk
  BY <1>2 DEF OnDisk, Content
<1>4. disk \in [File -> OnDisk \cup {None}]
  BY <1>3 DEF Init
<1> QED
  BY <1>1, <1>2, <1>4 DEF Init, TypeOK, Phase

\* The variables of the index and of its runs keep their types, for any number
\* of runs, files and contents and any slack.
THEOREM SemanticTypeOK == Spec => []TypeOK
BY TypeInit, TypeStep, PTL DEF Spec

-----------------------------------------------------------------------------
\* An entry may be trusted: a file with its time has its content, and edits to
\* come will have a later time.
Sound(f, e) ==
    (e # None /\ e.stamp # None) =>
        /\ e.stamp + Slack <= now
        /\ (disk[f] # None /\ disk[f].mtime = e.stamp) => disk[f].body = e.hash

StampInv ==
    /\ \A r \in Run : floor[r] <= now
    /\ \A f \in File : Sound(f, manifest[f])
    /\ \A r \in Run, f \in File : Sound(f, mem[r][f]) /\ Sound(f, pend[r][f])

LEMMA StampInit == Init => StampInv
BY SemanticAssumption DEF Init, StampInv, Sound, Nothing

\* A trusted entry stays so, whatever is edited.
LEMMA SoundStays ==
    ASSUME TypeOK, Tick \/ \E g \in File : Edit(g),
           NEW f \in File, NEW e \in ManifestFile \cup {None}, Sound(f, e)
    PROVE  Sound(f, e)'
<1> USE SemanticAssumption
<1>1. now \in Nat /\ now' \in Nat /\ now <= now'
  BY DEF TypeOK, Time, Tick, Edit
<1>2. SUFFICES ASSUME e # None, e.stamp # None
               PROVE  /\ e.stamp + Slack <= now'
                      /\ (disk'[f] # None /\ disk'[f].mtime = e.stamp) =>
                            disk'[f].body = e.hash
  BY DEF Sound
<1>3. e.stamp \in Nat
  BY <1>2 DEF ManifestFile, Time
<1>4. e.stamp + Slack <= now
  BY <1>2 DEF Sound
<1>5. CASE disk'[f] = disk[f]
  BY <1>1, <1>2, <1>3, <1>4, <1>5 DEF Sound
<1>6. CASE disk'[f] # disk[f] /\ disk'[f] # None
  <2>1. PICK g \in File : Edit(g)
    BY <1>6 DEF Tick
  <2>2. PICK c \in Content, t \in Time :
            t <= now /\ now <= t + Lag
            /\ disk' = [disk EXCEPT ![g] = [body |-> c, mtime |-> t]]
    BY <2>1, <1>6 DEF Edit, TypeOK
  <2>3. disk'[f].mtime = t
    BY <2>2, <1>6 DEF TypeOK
  <2>4. t # e.stamp
    BY <2>2, <1>1, <1>3, <1>4 DEF Time
  <2> QED
    BY <2>3, <2>4, <1>1, <1>3, <1>4
<1> QED
  BY <1>1, <1>3, <1>4, <1>5, <1>6

\* A content read now may be recorded with any time that is old enough.
LEMMA SoundNow ==
    ASSUME TypeOK, StampInv, NEW r \in Run, NEW f \in File, disk[f] # None
    PROVE  LET e == [hash |-> disk[f].body,
                     stamp |-> recordable_stamp(stat[r][f], floor[r])]
           IN Sound(f, e)
<1>1. now \in Nat /\ floor[r] \in Nat /\ floor[r] <= now
  BY DEF TypeOK, Time, StampInv
<1>2. stat[r][f] # None => stat[r][f] \in Nat
  BY DEF TypeOK, Time
<1> QED
  BY <1>1, <1>2, SemanticAssumption DEF Sound, recordable_stamp

LEMMA StampStep ==
    ASSUME TypeOK, StampInv, [Next]_vars, TypeOK'
    PROVE  StampInv'
<1> USE SemanticAssumption
<1> DEFINE Steady == now' = now /\ disk' = disk
<1>1. CASE UNCHANGED vars
  BY <1>1 DEF vars, StampInv, Sound
<1>2. CASE Tick \/ \E f \in File : Edit(f)
  <2>1. UNCHANGED <<manifest, mem, pend, floor>> /\ now <= now'
    BY <1>2 DEF Tick, Edit, index, args, TypeOK, Time
  <2>2. /\ \A f \in File : manifest[f] \in ManifestFile \cup {None}
        /\ \A r \in Run, f \in File : /\ mem[r][f] \in ManifestFile \cup {None}
                                      /\ pend[r][f] \in ManifestFile \cup {None}
        /\ \A r \in Run : floor[r] \in Nat
        /\ now \in Nat /\ now' \in Nat
    BY DEF TypeOK, Time
  <2>3. \A f \in File, e \in ManifestFile \cup {None} :
            Sound(f, e) => Sound(f, e)'
    BY <1>2, SoundStays
  <2>4. \A f \in File : Sound(f, manifest[f])'
    BY <2>1, <2>2, <2>3 DEF StampInv, Sound
  <2>5. \A r \in Run, f \in File : Sound(f, mem[r][f])' /\ Sound(f, pend[r][f])'
    BY <2>1, <2>2, <2>3 DEF StampInv, Sound
  <2>6. \A r \in Run : floor'[r] <= now'
    BY <2>1, <2>2 DEF StampInv
  <2> QED
    BY <2>4, <2>5, <2>6 DEF StampInv
<1>3. ASSUME NEW r \in Run, Start(r)
      PROVE  StampInv'
  <2>1. UNCHANGED <<now, disk, manifest, mem, pend>>
        /\ floor' = [floor EXCEPT ![r] = now]
    BY <1>3 DEF Start, files, index
  <2> QED
    BY <2>1 DEF StampInv, Sound, TypeOK, Time
<1>4. ASSUME NEW r \in Run, End(r), Steady, \A f \in File : Sound(f, manifest'[f])
      PROVE  StampInv'
  <2>1. /\ floor' = [floor EXCEPT ![r] = 0]
        /\ mem' = [mem EXCEPT ![r] = Nothing]
        /\ pend' = [pend EXCEPT ![r] = Nothing]
    BY <1>4 DEF End
  <2>2. \A q \in Run : floor'[q] <= now'
    BY <2>1, <1>4 DEF StampInv, TypeOK, Time
  <2>3. \A q \in Run, f \in File :
            /\ mem'[q][f] \in {mem[q][f], None}
            /\ pend'[q][f] \in {pend[q][f], None}
    BY <2>1 DEF TypeOK, Nothing
  <2>4. \A q \in Run, f \in File : Sound(f, mem[q][f])' /\ Sound(f, pend[q][f])'
    <3>1. ASSUME NEW q \in Run, NEW f \in File
          PROVE  Sound(f, mem[q][f])' /\ Sound(f, pend[q][f])'
      <4>1. Sound(f, mem[q][f]) /\ Sound(f, pend[q][f])
        BY DEF StampInv
      <4>2. mem'[q][f] = mem[q][f] \/ mem'[q][f] = None
        BY <2>3
      <4>3. pend'[q][f] = pend[q][f] \/ pend'[q][f] = None
        BY <2>3
      <4>4. Sound(f, mem[q][f])'
        BY <4>1, <4>2, <1>4 DEF Sound
      <4>5. Sound(f, pend[q][f])'
        BY <4>1, <4>3, <1>4 DEF Sound
      <4> QED
        BY <4>4, <4>5
    <3> QED
      BY <3>1
  <2>5. \A f \in File : Sound(f, manifest[f])'
    BY <1>4 DEF Sound
  <2> QED
    BY <2>2, <2>4, <2>5 DEF StampInv
<1>5. ASSUME NEW r \in Run, AllCurrent(r) \/ Stop(r)
      PROVE  StampInv'
  <2>1. End(r) /\ Steady /\ manifest' = manifest
    BY <1>5 DEF AllCurrent, Stop, files, index
  <2> QED
    BY <2>1, <1>4 DEF StampInv
<1>6. ASSUME NEW r \in Run, Saved(r)
      PROVE  StampInv'
  <2>1. End(r) /\ Steady /\ (manifest' = manifest
                            \/ manifest' = [f \in File |-> mem[r][f]])
    BY <1>6 DEF Saved, files
  <2>2. \A f \in File : Sound(f, manifest'[f])
    BY <2>1 DEF StampInv
  <2> QED
    BY <2>1, <2>2, <1>4
<1>7. ASSUME NEW r \in Run, Steady, UNCHANGED <<manifest, floor>>,
             \A f \in File : Sound(f, mem'[r][f]) /\ Sound(f, pend'[r][f]),
             \A q \in Run : q # r => mem'[q] = mem[q] /\ pend'[q] = pend[q]
      PROVE  StampInv'
  <2>1. \A q \in Run, f \in File : Sound(f, mem'[q][f]) /\ Sound(f, pend'[q][f])
    BY <1>7 DEF StampInv
  <2> QED
    BY <2>1, <1>7 DEF StampInv, Sound
<1>8. ASSUME NEW r \in Run, NEW f \in File, Walk(r, f)
      PROVE  StampInv'
  BY <1>8, <1>7 DEF Walk, files, index, args, StampInv
<1>9. ASSUME NEW r \in Run, Decide(r) \/ Delete(r) \/ Save(r)
      PROVE  StampInv'
  BY <1>9, <1>7 DEF Decide, Delete, Save, files, index, args, StampInv
<1>10. ASSUME NEW r \in Run, Load(r)
       PROVE  StampInv'
  <2>1. Steady /\ UNCHANGED <<manifest, floor, pend>>
        /\ mem' = [mem EXCEPT ![r] = manifest]
    BY <1>10 DEF Load, files, index, args
  <2> QED
    BY <2>1, <1>7 DEF StampInv, TypeOK
<1>11. ASSUME NEW r \in Run, Add(r)
       PROVE  StampInv'
  <2>1. Steady /\ UNCHANGED <<manifest, floor, pend>>
        /\ mem' = [mem EXCEPT ![r] = updated(r)]
    BY <1>11 DEF Add, files, args
  <2>2. \A f \in File : \/ updated(r)[f] = pend[r][f] \/ updated(r)[f] = None
                        \/ updated(r)[f] = mem[r][f]
    BY DEF updated
  <2>3. \A f \in File : Sound(f, updated(r)[f])
    BY <2>2 DEF StampInv, Sound
  <2> QED
    BY <2>1, <2>3, <1>7 DEF StampInv, TypeOK
<1>12. ASSUME NEW r \in Run, NEW f \in File, Read(r, f)
       PROVE  StampInv'
  <2> DEFINE seen == recordable_stamp(stat[r][f], floor[r])
             new == [hash |-> disk[f].body, stamp |-> seen]
  <2>1. Steady /\ UNCHANGED <<manifest, floor>>
    BY <1>12 DEF Read, files, index, args
  <2>2. CASE PassByStamp(r, f)
    BY <2>1, <2>2, <1>7 DEF PassByStamp, StampInv
  <2>3. CASE ReadAndHash(r, f)
    <3>1. disk[f] # None /\ Sound(f, new)
      BY <2>3, SoundNow DEF ReadAndHash
    <3>2. \A g \in File : Sound(g, mem[r][g]) /\ Sound(g, pend[r][g])
      BY DEF StampInv
    <3>3. CASE /\ is_current(mem[r][f], disk[f].body)
               /\ mem' = [mem EXCEPT ![r][f].stamp = seen] /\ pend' = pend
      <4>1. /\ mem'[r][f] = [mem[r][f] EXCEPT !.stamp = seen]
            /\ \A g \in File : g # f => mem'[r][g] = mem[r][g]
            /\ \A q \in Run : q # r => mem'[q] = mem[q]
        BY <3>3 DEF TypeOK
      <4>2. mem[r][f] \in ManifestFile /\ mem[r][f].hash = disk[f].body
        BY <3>3 DEF is_current, TypeOK
      <4>3. mem'[r][f] = new
        BY <4>1, <4>2 DEF ManifestFile
      <4>4. \A g \in File : Sound(g, mem'[r][g]) /\ Sound(g, pend'[r][g])
        BY <4>1, <4>3, <3>1, <3>2, <3>3
      <4> QED
        BY <4>1, <4>4, <3>3, <2>1, <1>7
    <3>4. CASE /\ pend' = pend \/ pend' = [pend EXCEPT ![r][f] = new]
               /\ mem' = mem
      <4> DEFINE P == ManifestFile \cup {None}
      <4>5. pend \in [Run -> [File -> P]]
        BY DEF TypeOK
      <4> HIDE DEF P, new
      <4>1. \A g \in File : pend'[r][g] = pend[r][g] \/ (g = f /\ pend'[r][g] = new)
        <5>1. CASE pend' = pend
          BY <5>1
        <5>2. CASE pend' = [pend EXCEPT ![r][f] = new]
          <6>1. pend'[r] = [pend[r] EXCEPT ![f] = new] /\ pend[r] \in [File -> P]
            BY <5>2, <4>5
          <6> QED
            BY <6>1
        <5> QED
          BY <3>4, <5>1, <5>2
      <4>2. \A g \in File : Sound(g, mem'[r][g]) /\ Sound(g, pend'[r][g])
        BY <4>1, <3>1, <3>2, <3>4
      <4>3. \A q \in Run : q # r => pend'[q] = pend[q]
        BY <3>4 DEF TypeOK
      <4> QED
        BY <4>2, <4>3, <3>4, <2>1, <1>7
    <3> QED
      BY <2>3, <3>3, <3>4 DEF ReadAndHash
  <2> QED
    BY <2>2, <2>3, <1>12 DEF Read
<1> QED
  BY <1>1, <1>2, <1>3, <1>5, <1>6, <1>8, <1>9, <1>10, <1>11, <1>12 DEF Next

\* A stamp in the manifest never vouches for another content than the file
\* has, whatever is edited between a walk, a read and a save.
THEOREM HonestStamps == Spec => []StampsAreHonest
<1>1. TypeOK /\ StampInv => StampsAreHonest
  <2> SUFFICES ASSUME TypeOK, StampInv, NEW f \in File, disk[f] # None,
                      manifest[f] # None, manifest[f].stamp = disk[f].mtime
               PROVE  manifest[f].hash = disk[f].body
    BY DEF StampsAreHonest, is_current_by_stamp
  <2>1. disk[f].mtime # None
    BY SemanticAssumption DEF TypeOK, OnDisk, Time
  <2>2. Sound(f, manifest[f])
    BY DEF StampInv
  <2> QED
    BY <2>1, <2>2 DEF Sound
<1>2. Init => TypeOK /\ StampInv
  BY TypeInit, StampInit
<1>3. TypeOK /\ StampInv /\ [Next]_vars => (TypeOK /\ StampInv)'
  BY TypeStep, StampStep
<1> QED
  BY <1>1, <1>2, <1>3, PTL DEF Spec

-----------------------------------------------------------------------------
\* What the table has to have for an entry of the manifest.
Expected(e) == IF e = None THEN Absent ELSE Once(e.hash)

Loaded == {"read", "delete", "add", "save", "saving"}
Merged == {"save", "saving"}

\* A run that is alone knows the rows it has changed.
Rows(r) ==
    lone[r] =>
        /\ \A q \in Run \ {r} : pc[q] = "idle"
        /\ pc[r] \in {"delete", "add"} =>
              \A f \in Written(r) : rows[f] = Absent
        /\ pc[r] \in Merged =>
              \A f \in touched[r] : rows[f] = Expected(mem[r][f])

\* What a run is to index it also deletes.
Plan(r) ==
    /\ pc[r] = "delete" => left[r] \in SUBSET touched[r]
    /\ pc[r] \in {"delete", "add"} => files_to_index(r) \in SUBSET touched[r]

\* The manifest in memory is the one on disk, but for what the run has changed
\* and for what another that overlaps has.
Agree(r) ==
    pc[r] \in Loaded =>
        \A f \in File \ hurt :
            (pc[r] \in Merged => f \notin touched[r]) =>
                Expected(mem[r][f]) = Expected(manifest[f])

Matches ==
    \A f \in File \ hurt :
        (\A r \in Run : f \notin Written(r)) =>
            rows[f] = Expected(manifest[f])

MatchInv ==
    /\ \A r \in Run : Rows(r) /\ Plan(r) /\ Agree(r)
    /\ Matches

\* What a run has found out about the files that have not been edited since it
\* began.
Blank(r) ==
    /\ pc[r] = "idle" => stat[r] = Nothing /\ edited[r] = {}
    /\ pc[r] \in {"idle", "walk"} => pend[r] = Nothing
    /\ pc[r] = "read" => left[r] \in SUBSET Found(r)
    /\ \A f \in File : pend[r][f] # None =>
          f \in Found(r) /\ (pc[r] = "read" => f \notin left[r])

Judged(r, f) ==
    disk[f].body \in Text =>
        IF pend[r][f] # None THEN pend[r][f].hash = disk[f].body
        ELSE mem[r][f] # None /\ mem[r][f].hash = disk[f].body

Seen(r, f) ==
    /\ stat[r][f] # None => disk[f] # None /\ disk[f].mtime = stat[r][f]
    /\ (pc[r] = "read" /\ f \in Found(r) \ left[r]) => Judged(r, f)
    /\ pc[r] \in {"delete", "add"} =>
          /\ f \in Found(r) => Judged(r, f)
          /\ (f \in Found(r) /\ pend[r][f] = None) => f \notin touched[r]
          /\ f \notin Found(r) => (mem[r][f] = None \/ f \in touched[r])
    /\ pc[r] \in Merged =>
          /\ f \in Found(r) =>
                (disk[f].body \in Text => Expected(mem[r][f]) = Once(disk[f].body))
          /\ f \notin Found(r) => mem[r][f] = None

FreshInv ==
    \A r \in Run :
        Blank(r) /\ (pc[r] # "idle" => \A f \in scope[r] \ edited[r] : Seen(r, f))

-----------------------------------------------------------------------------
\* What a step of one run leaves alone in another.
Same(q) ==
    /\ pc'[q] = pc[q] /\ scope'[q] = scope[q] /\ stat'[q] = stat[q]
    /\ mem'[q] = mem[q] /\ left'[q] = left[q] /\ pend'[q] = pend[q]
    /\ touched'[q] = touched[q] /\ edited'[q] = edited[q]

Steps(r) ==
    \/ Load(r) \/ Decide(r) \/ AllCurrent(r) \/ Delete(r)
    \/ Add(r) \/ Save(r) \/ Saved(r) \/ Stop(r)
    \/ \E f \in File : Walk(r, f) \/ Read(r, f)

LEMMA OthersSame ==
    ASSUME TypeOK, NEW r \in Run, Steps(r) \/ Start(r)
    PROVE  \A q \in Run \ {r} : Same(q)
<1> USE DEF TypeOK, files, index, args
<1>1. CASE Start(r)
  BY <1>1 DEF Start, Same
<1>2. CASE Load(r)
  BY <1>2 DEF Load, Same
<1>3. CASE Decide(r)
  BY <1>3 DEF Decide, Same
<1>4. ASSUME End(r)
      PROVE  \A q \in Run \ {r} : Same(q)
  BY <1>4 DEF End, Same
<1>5. CASE AllCurrent(r) \/ Saved(r) \/ Stop(r)
  BY <1>4, <1>5 DEF AllCurrent, Saved, Stop
<1>6. CASE Delete(r)
  BY <1>6 DEF Delete, Same
<1>7. CASE Add(r)
  BY <1>7 DEF Add, Same
<1>8. CASE Save(r)
  BY <1>8 DEF Save, Same
<1>9. ASSUME NEW f \in File, Walk(r, f)
      PROVE  \A q \in Run \ {r} : Same(q)
  BY <1>9 DEF Walk, Same
<1>10. ASSUME NEW f \in File, Read(r, f)
       PROVE  \A q \in Run \ {r} : Same(q)
  BY <1>10 DEF Read, PassByStamp, ReadAndHash, Same
<1> QED
  BY <1>1, <1>2, <1>3, <1>5, <1>6, <1>7, <1>8, <1>9, <1>10 DEF Steps

\* A run that acts is under way; nobody else is alone, and it is itself alone
\* only if it was.
LEMMA StepsAlone ==
    ASSUME TypeOK, MatchInv, NEW r \in Run, Steps(r)
    PROVE  /\ pc[r] # "idle"
           /\ \A q \in Run : lone'[q] => q = r /\ lone[r]
<1>1. pc[r] # "idle"
  BY DEF Steps, Load, Decide, AllCurrent, Delete, Add, Save, Saved, Stop, Walk,
         Read, Busy
<1>2. \A q \in Run : lone'[q] => lone[q]
  BY DEF Steps, Load, Decide, AllCurrent, Delete, Add, Save, Saved, Stop, Walk,
         Read, End, TypeOK
<1>3. \A q \in Run : lone[q] => q = r
  BY <1>1 DEF MatchInv, Rows
<1> QED
  BY <1>1, <1>2, <1>3

\* The steps that save nothing keep what holds of the others.
LEMMA OthersKept ==
    ASSUME TypeOK, MatchInv, NEW r \in Run, Steps(r),
           manifest' = manifest, hurt \subseteq hurt'
    PROVE  \A q \in Run \ {r} : Rows(q)' /\ Plan(q)' /\ Agree(q)'
<1> TAKE q \in Run \ {r}
<1>1. Same(q) /\ ~lone'[q]
  BY OthersSame, StepsAlone
<1>2. Rows(q)'
  BY <1>1 DEF Rows
<1>3. Plan(q) /\ Agree(q)
  BY DEF MatchInv
<1>4. Plan(q)'
  BY <1>1, <1>3 DEF Plan, Same, files_to_index
<1>5. Agree(q)'
  BY <1>1, <1>3 DEF Agree, Same, Expected, Once, Absent
<1> QED
  BY <1>2, <1>4, <1>5

LEMMA MatchesKept ==
    ASSUME TypeOK, MatchInv, NEW r \in Run, Steps(r),
           manifest' = manifest, rows' = rows, hurt \subseteq hurt',
           Written(r) \subseteq Written(r)' \cup hurt'
    PROVE  Matches'
<1>1. \A q \in Run \ {r} : Written(q)' = Written(q)
  BY OthersSame DEF Same, Written
<1>2. ASSUME NEW f \in File \ hurt', \A q \in Run : f \notin Written(q)'
      PROVE  rows[f] = Expected(manifest[f])
  <2>1. \A q \in Run : f \notin Written(q)
    BY <1>1, <1>2
  <2> QED
    BY <2>1, <1>2 DEF MatchInv, Matches
<1>3. \A f \in File : Expected(manifest[f])' = Expected(manifest[f])
  BY DEF Expected, Once, Absent
<1> QED
  BY <1>2, <1>3 DEF Matches

\* It is enough that a step that saves nothing keeps what holds of its own run
\* and of the rows.
LEMMA OwnIsEnough ==
    ASSUME TypeOK, MatchInv, NEW r \in Run, Steps(r),
           manifest' = manifest, hurt \subseteq hurt',
           lone'[r] => Rows(r)', Plan(r)', Agree(r)', Matches'
    PROVE  MatchInv'
<1>1. \A q \in Run \ {r} : Rows(q)' /\ Plan(q)' /\ Agree(q)'
  BY OthersKept
<1>2. Rows(r)'
  BY DEF Rows
<1> QED
  BY <1>1, <1>2 DEF MatchInv

\* Nobody else is under way if a run is alone after its step.
LEMMA StillAlone ==
    ASSUME TypeOK, MatchInv, NEW r \in Run, Steps(r), lone'[r]
    PROVE  lone[r] /\ \A q \in Run \ {r} : pc'[q] = "idle"
<1>1. lone[r]
  BY StepsAlone
<1> QED
  BY <1>1, OthersSame DEF MatchInv, Rows, Same

LEMMA MatchInit == Init => MatchInv
BY DEF Init, MatchInv, Rows, Plan, Agree, Matches, Written, Loaded, Merged,
       files_to_index, Nothing, Expected, Absent

LEMMA MatchQuiet ==
    ASSUME TypeOK, MatchInv,
           UNCHANGED <<rows, manifest, hurt, pc, lone, touched, left, pend, mem>>
    PROVE  MatchInv'
<1>1. /\ Absent' = Absent
      /\ \A f \in File : Expected(manifest[f])' = Expected(manifest[f])
      /\ \A r \in Run, f \in File : Expected(mem[r][f])' = Expected(mem[r][f])
  BY DEF Expected, Once, Absent
<1>2. \A r \in Run : /\ Written(r)' = Written(r)
                     /\ files_to_index(r)' = files_to_index(r)
  BY DEF Written, files_to_index
<1>3. Matches'
  BY <1>1, <1>2 DEF MatchInv, Matches
<1>4. ASSUME NEW r \in Run
      PROVE  Rows(r)' /\ Plan(r)' /\ Agree(r)'
  <2>1. Rows(r) /\ Plan(r) /\ Agree(r)
    BY DEF MatchInv
  <2>2. Rows(r)'
    BY <1>1, <1>2, <2>1 DEF Rows
  <2>3. Plan(r)'
    BY <1>2, <2>1 DEF Plan
  <2>4. Agree(r)'
    BY <1>1, <2>1 DEF Agree
  <2> QED
    BY <2>2, <2>3, <2>4
<1> QED
  BY <1>3, <1>4 DEF MatchInv

LEMMA MatchStart ==
    ASSUME TypeOK, MatchInv, NEW r \in Run, Start(r)
    PROVE  MatchInv'
<1>1. /\ pc[r] = "idle" /\ pc' = [pc EXCEPT ![r] = "walk"]
      /\ lone' = [q \in Run |-> q = r /\ \A p \in Run : pc[p] = "idle"]
      /\ UNCHANGED <<manifest, rows, mem, pend, touched, hurt>>
      /\ \A q \in Run \ {r} : left'[q] = left[q]
  BY DEF Start, Busy, index, TypeOK
<1>2. \A q \in Run \ {r} : Same(q)
  BY OthersSame
<1>3. \A q \in Run : Written(q)' = Written(q)
  BY <1>1, <1>2 DEF Written, Same, TypeOK
<1>4. Matches'
  BY <1>1, <1>3 DEF MatchInv, Matches, Expected, Once, Absent
<1>5. ASSUME NEW q \in Run
      PROVE  Rows(q)' /\ Plan(q)' /\ Agree(q)'
  <2>1. CASE q = r
    BY <2>1, <1>1 DEF Rows, Plan, Agree, Loaded, Merged, TypeOK
  <2>2. CASE q # r
    <3>1. Plan(q) /\ Agree(q) /\ Same(q)
      BY <2>2, <1>2 DEF MatchInv
    <3>2. Rows(q)'
      BY <2>2, <1>1 DEF Rows
    <3>3. Plan(q)'
      BY <3>1 DEF Plan, Same, files_to_index
    <3>4. Agree(q)'
      BY <3>1, <1>1 DEF Agree, Same, Expected, Once, Absent
    <3> QED
      BY <3>2, <3>3, <3>4
  <2> QED
    BY <2>1, <2>2
<1> QED
  BY <1>4, <1>5 DEF MatchInv

\* The steps before the first delete change nothing that is stored.
LEMMA MatchBefore ==
    ASSUME TypeOK, MatchInv, NEW r \in Run,
           \/ Load(r) \/ Decide(r) \/ Save(r)
           \/ \E f \in File : Walk(r, f) \/ Read(r, f)
    PROVE  MatchInv'
<1>1. Steps(r)
  BY DEF Steps
<1>2. UNCHANGED <<manifest, rows, hurt>>
  BY DEF Load, Decide, Save, Walk, Read, index
<1> DEFINE Constant == /\ Absent' = Absent
                       /\ \A f \in File : Expected(manifest[f])' = Expected(manifest[f])
<1>8. Constant
  BY <1>2 DEF Expected, Once, Absent
<1>3. ASSUME NEW f \in File, Walk(r, f)
      PROVE  MatchInv'
  <2>1. pc[r] = "walk" /\ pc' = pc /\ lone' = lone
    BY <1>3 DEF Walk
  <2>2. Written(r)' = {} /\ Written(r) = {}
    BY <2>1 DEF Written
  <2>3. Matches'
    BY <2>2, <1>1, <1>2, MatchesKept
  <2>4. Plan(r)' /\ Agree(r)'
    BY <2>1 DEF Plan, Agree, Loaded
  <2>5. lone'[r] => Rows(r)'
    BY <2>1, <1>1, StillAlone DEF Rows, Merged
  <2> QED
    BY <1>1, <1>2, <2>3, <2>4, <2>5, OwnIsEnough
<1>4. CASE Load(r)
  <2>1. /\ pc[r] = "walk" /\ pc'[r] = "read" /\ mem'[r] = manifest
        /\ lone' = lone
    BY <1>4 DEF Load, TypeOK
  <2>2. Written(r)' = {} /\ Written(r) = {}
    BY <2>1 DEF Written
  <2>3. Matches'
    BY <2>2, <1>1, <1>2, MatchesKept
  <2>4. Plan(r)' /\ Agree(r)'
    BY <2>1, <1>2 DEF Plan, Agree, Merged, Expected, Once, Absent
  <2>5. lone'[r] => Rows(r)'
    BY <2>1, <1>1, StillAlone DEF Rows, Merged
  <2> QED
    BY <1>1, <1>2, <2>3, <2>4, <2>5, OwnIsEnough
<1>5. ASSUME NEW f \in File, Read(r, f)
      PROVE  MatchInv'
  <2>1. pc[r] = "read" /\ pc' = pc /\ lone' = lone /\ touched' = touched
    BY <1>5 DEF Read
  <2>2. Written(r)' = {} /\ Written(r) = {}
    BY <2>1 DEF Written
  <2>3. Matches'
    BY <2>2, <1>1, <1>2, MatchesKept
  <2>4. \A g \in File : Expected(mem[r][g])' = Expected(mem[r][g])
    <3> DEFINE seen == recordable_stamp(stat[r][f], floor[r])
    <3>1. mem' = mem \/ (mem[r][f] # None /\ mem' = [mem EXCEPT ![r][f].stamp = seen])
      BY <1>5 DEF Read, PassByStamp, ReadAndHash, is_current
    <3>2. CASE mem' = mem
      BY <3>2 DEF Expected, Once, Absent
    <3>3. CASE mem[r][f] # None /\ mem' = [mem EXCEPT ![r][f].stamp = seen]
      <4> HIDE DEF seen
      <4>1. /\ mem'[r][f] = [mem[r][f] EXCEPT !.stamp = seen]
            /\ \A g \in File : g # f => mem'[r][g] = mem[r][g]
        BY <3>3 DEF TypeOK
      <4>2. mem[r][f] \in ManifestFile
        BY <3>3 DEF TypeOK
      <4>3. /\ mem'[r][f] = [hash |-> mem[r][f].hash, stamp |-> seen]
        BY <4>1, <4>2 DEF ManifestFile
      <4>5. seen \in Time \cup {None}
        BY DEF seen, recordable_stamp, TypeOK
      <4>6. [hash |-> mem[r][f].hash, stamp |-> seen] \in ManifestFile
        BY <4>2, <4>5 DEF ManifestFile
      <4>4. mem'[r][f] # None /\ mem'[r][f].hash = mem[r][f].hash
        BY <4>3, <4>6, SemanticAssumption
      <4> QED
        BY <4>1, <4>4, <3>3 DEF Expected, Once, Absent
    <3> QED
      BY <3>1, <3>2, <3>3
  <2>5. Plan(r)'
    BY <2>1 DEF Plan
  <2>6. Agree(r)'
    <3>1. \A g \in File \ hurt : Expected(mem[r][g]) = Expected(manifest[g])
      BY <2>1 DEF MatchInv, Agree, Loaded, Merged
    <3> QED
      BY <3>1, <2>4, <1>8, <1>2 DEF Agree
  <2>7. lone'[r] => Rows(r)'
    BY <2>1, <1>1, StillAlone DEF Rows, Merged
  <2> QED
    BY <1>1, <1>2, <2>3, <2>5, <2>6, <2>7, OwnIsEnough
<1>6. CASE Decide(r)
  <2>1. /\ pc[r] = "read" /\ left'[r] = touched'[r]
        /\ UNCHANGED <<lone, mem, pend>>
        /\ \/ pc'[r] = "delete" /\ touched'[r] = files_to_index(r) \cup stale_paths_under(r)
           \/ pc'[r] = "save" /\ touched'[r] = {}
    BY <1>6 DEF Decide, TypeOK
  <2>2. Written(r)' = {} /\ Written(r) = {}
    BY <2>1 DEF Written
  <2>3. Matches'
    BY <2>2, <1>1, <1>2, MatchesKept
  <2>4. Plan(r)'
    BY <2>1 DEF Plan, files_to_index
  <2>5. Agree(r)'
    BY <2>1, <1>2 DEF MatchInv, Agree, Loaded, Merged, Expected, Once, Absent
  <2>6. lone'[r] => Rows(r)'
    BY <2>1, <2>2, <1>1, StillAlone DEF Rows, Merged
  <2> QED
    BY <1>1, <1>2, <2>3, <2>4, <2>5, <2>6, OwnIsEnough
<1>7. CASE Save(r)
  <2>1. /\ pc[r] = "save" /\ pc'[r] = "saving"
        /\ UNCHANGED <<lone, mem, pend, touched, left>>
    BY <1>7 DEF Save, TypeOK
  <2>2. Written(r)' = Written(r)
    BY <2>1 DEF Written
  <2>3. Matches'
    BY <2>2, <1>1, <1>2, MatchesKept
  <2>6. \A f \in File : Expected(mem[r][f])' = Expected(mem[r][f])
    BY <2>1 DEF Expected, Once, Absent
  <2>4. Plan(r)' /\ Agree(r)'
    BY <2>1, <2>6, <1>8, <1>2 DEF MatchInv, Plan, Agree, Loaded, Merged
  <2>5. lone'[r] => Rows(r)'
    BY <2>1, <1>1, <1>2, StillAlone DEF MatchInv, Rows, Merged, Expected, Once, Absent
  <2> QED
    BY <1>1, <1>2, <2>3, <2>4, <2>5, OwnIsEnough
<1> QED
  BY <1>3, <1>4, <1>5, <1>6, <1>7

\* A run that ends before it saves.
LEMMA MatchEnd ==
    ASSUME TypeOK, MatchInv, NEW r \in Run, AllCurrent(r) \/ Stop(r)
    PROVE  MatchInv'
<1>1. Steps(r) /\ UNCHANGED <<manifest, rows>> /\ pc'[r] = "idle" /\ ~lone'[r]
  BY DEF Steps, AllCurrent, Stop, End, index, TypeOK
<1>2. hurt \subseteq hurt' /\ Written(r) \subseteq Written(r)' \cup hurt'
  BY DEF AllCurrent, Stop, Written
<1>3. Matches'
  BY <1>1, <1>2, MatchesKept
<1>4. Plan(r)' /\ Agree(r)'
  BY <1>1 DEF Plan, Agree, Loaded
<1> QED
  BY <1>1, <1>2, <1>3, <1>4, OwnIsEnough

LEMMA MatchDelete ==
    ASSUME TypeOK, MatchInv, NEW r \in Run, Delete(r)
    PROVE  MatchInv'
<1>1. PICK batch \in SUBSET left[r] \ {{}} :
          /\ rows' = Without(rows, batch)
          /\ left' = [left EXCEPT ![r] = @ \ batch]
          /\ pc' = [pc EXCEPT ![r] = IF batch = left[r] THEN "add" ELSE @]
  BY DEF Delete
<1>2. /\ pc[r] = "delete" /\ Steps(r)
      /\ UNCHANGED <<manifest, hurt, lone, touched, pend, mem>>
  BY DEF Delete, Steps
<1>3. /\ left'[r] = left[r] \ batch
      /\ \/ pc'[r] = "add" /\ batch = left[r]
         \/ pc'[r] = "delete"
  BY <1>1, <1>2 DEF TypeOK
<1>4. /\ left[r] \in SUBSET touched[r] /\ files_to_index(r) \in SUBSET touched[r]
      /\ touched[r] \in SUBSET File
  BY <1>2 DEF MatchInv, Plan, TypeOK
<1>5. Written(r) = touched[r] \ left[r] /\ Written(r)' = Written(r) \cup batch
  BY <1>1, <1>2, <1>3, <1>4 DEF Written
<1>6. /\ \A f \in batch : rows'[f] = Absent
      /\ \A f \in File \ batch : rows'[f] = rows[f]
  BY <1>1, <1>4 DEF Without, Absent, TypeOK
<1>7. /\ Absent' = Absent
      /\ \A f \in File : /\ Expected(manifest[f])' = Expected(manifest[f])
                         /\ Expected(mem[r][f])' = Expected(mem[r][f])
  BY <1>2 DEF Expected, Once, Absent
<1>8. Matches'
  <2>1. \A q \in Run \ {r} : Written(q)' = Written(q)
    BY <1>2, OthersSame DEF Same, Written
  <2>2. ASSUME NEW f \in File \ hurt, \A q \in Run : f \notin Written(q)'
        PROVE  rows'[f] = Expected(manifest[f])
    <3>1. f \notin batch /\ \A q \in Run : f \notin Written(q)
      BY <1>5, <2>1, <2>2
    <3> QED
      BY <3>1, <1>6 DEF MatchInv, Matches
  <2> QED
    BY <2>2, <1>2, <1>7 DEF Matches
<1>9. Plan(r)'
  BY <1>2, <1>3, <1>4 DEF Plan, files_to_index
<1>10. Agree(r)'
  BY <1>2, <1>3, <1>7 DEF MatchInv, Agree, Loaded, Merged
<1>11. lone'[r] => Rows(r)'
  <2> SUFFICES ASSUME lone'[r]
               PROVE  Rows(r)'
    OBVIOUS
  <2>1. lone[r] /\ \A q \in Run \ {r} : pc'[q] = "idle"
    BY <1>2, StillAlone
  <2>2. \A f \in Written(r) : rows[f] = Absent
    BY <2>1, <1>2 DEF MatchInv, Rows
  <2>3. \A f \in Written(r)' : rows'[f] = Absent'
    BY <2>2, <1>4, <1>5, <1>6, <1>7
  <2> QED
    BY <2>1, <2>3, <1>3 DEF Rows, Merged
<1> QED
  BY <1>2, <1>8, <1>9, <1>10, <1>11, OwnIsEnough

LEMMA MatchAdd ==
    ASSUME TypeOK, MatchInv, NEW r \in Run, Add(r)
    PROVE  MatchInv'
<1>1. /\ pc[r] = "add" /\ pc'[r] = "save" /\ Steps(r)
      /\ rows' = With(rows, pend[r]) /\ mem'[r] = updated(r)
      /\ UNCHANGED <<manifest, hurt, lone, touched, left, pend>>
  BY DEF Add, Steps, TypeOK
<1>2. Written(r) = touched[r] /\ Written(r)' = touched[r]
  BY <1>1 DEF Written
<1>3. \A f \in File \ touched[r] : pend[r][f] = None
  BY <1>1 DEF MatchInv, Plan, files_to_index
<1>4. \A f \in File \ touched[r] : rows'[f] = rows[f] /\ mem'[r][f] = mem[r][f]
  BY <1>1, <1>3 DEF With, updated, TypeOK
<1>5. ASSUME NEW f \in touched[r], rows[f] = Absent
      PROVE  rows'[f] = Expected(mem'[r][f])
  <2>1. f \in File
    BY DEF TypeOK
  <2>2. CASE pend[r][f] = None
    <3>1. mem'[r][f] = None
      BY <2>1, <2>2, <1>1 DEF updated
    <3>2. rows'[f] = Absent
      BY <2>1, <2>2, <1>1, <1>5 DEF With, Absent
    <3> QED
      BY <3>1, <3>2 DEF Expected
  <2>3. CASE pend[r][f] # None
    <3>1. mem'[r][f] = pend[r][f]
      BY <2>1, <2>3, <1>1 DEF updated
    <3>2. rows'[f] = [c \in Text |-> IF pend[r][f].hash = c THEN rows[f][c] + 1
                                     ELSE rows[f][c]]
      BY <2>1, <2>3, <1>1 DEF With
    <3>3. rows'[f] = [c \in Text |-> IF c = pend[r][f].hash THEN 1 ELSE 0]
      BY <3>2, <1>5 DEF Absent
    <3> QED
      BY <3>1, <3>3, <2>3 DEF Expected, Once
  <2> QED
    BY <2>2, <2>3
<1>6. \A f \in File : /\ Expected(manifest[f])' = Expected(manifest[f])
                      /\ Expected(mem[r][f])' = Expected(mem'[r][f])
  BY <1>1 DEF Expected, Once, Absent
<1>7. Matches'
  <2>1. \A q \in Run \ {r} : Written(q)' = Written(q)
    BY <1>1, OthersSame DEF Same, Written
  <2>2. ASSUME NEW f \in File \ hurt, \A q \in Run : f \notin Written(q)'
        PROVE  rows'[f] = Expected(manifest[f])
    <3>1. f \notin touched[r] /\ \A q \in Run : f \notin Written(q)
      BY <1>2, <2>1, <2>2
    <3> QED
      BY <3>1, <1>4 DEF MatchInv, Matches
  <2> QED
    BY <2>2, <1>1, <1>6 DEF Matches
<1>8. Plan(r)'
  BY <1>1 DEF Plan
<1>9. Agree(r)'
  <2>1. \A f \in File \ hurt : Expected(mem[r][f]) = Expected(manifest[f])
    BY <1>1 DEF MatchInv, Agree, Loaded, Merged
  <2>2. \A f \in File \ hurt : f \notin touched[r] =>
            Expected(mem'[r][f]) = Expected(manifest[f])
    BY <2>1, <1>4
  <2> QED
    BY <2>2, <1>1, <1>6 DEF Agree, Merged
<1>10. lone'[r] => Rows(r)'
  <2> SUFFICES ASSUME lone'[r]
               PROVE  Rows(r)'
    OBVIOUS
  <2>1. lone[r] /\ \A q \in Run \ {r} : pc'[q] = "idle"
    BY <1>1, StillAlone
  <2>2. \A f \in touched[r] : rows[f] = Absent
    BY <2>1, <1>1, <1>2 DEF MatchInv, Rows
  <2>3. touched[r] \in SUBSET File
    BY DEF TypeOK
  <2>4. \A f \in touched[r] : rows'[f] = Expected(mem[r][f])'
    BY <2>2, <2>3, <1>5, <1>6
  <2> QED
    BY <2>1, <2>4, <1>1 DEF Rows, Merged
<1> QED
  BY <1>1, <1>7, <1>8, <1>9, <1>10, OwnIsEnough

-----------------------------------------------------------------------------
\* Two runs write the manifest at once only if neither is alone.
LoneInv == \A r \in Run : (pc[r] = "idle" \/ lone[r]) => ~clash[r]

LEMMA LoneStep ==
    ASSUME TypeOK, MatchInv, LoneInv, [Next]_vars
    PROVE  LoneInv'
<1>1. CASE UNCHANGED <<pc, lone, clash>>
  BY <1>1 DEF LoneInv
<1>2. ASSUME NEW r \in Run, End(r)
      PROVE  LoneInv'
  BY <1>2 DEF End, LoneInv, TypeOK
<1>3. ASSUME NEW r \in Run, Start(r)
      PROVE  LoneInv'
  <2>1. /\ clash' = clash /\ pc[r] = "idle" /\ pc' = [pc EXCEPT ![r] = "walk"]
        /\ \A q \in Run : lone'[q] => q = r
    BY <1>3 DEF Start, Busy
  <2> QED
    BY <2>1 DEF LoneInv, TypeOK
<1>4. ASSUME NEW r \in Run, Save(r)
      PROVE  LoneInv'
  <2>1. /\ pc[r] = "save" /\ pc' = [pc EXCEPT ![r] = "saving"] /\ lone' = lone
        /\ clash' = [q \in Run |->
              \/ clash[q]
              \/ q \in {p \in Run \ {r} : pc[p] = "saving"}
              \/ q = r /\ {p \in Run \ {r} : pc[p] = "saving"} # {}]
    BY <1>4 DEF Save
  <2>2. ASSUME NEW q \in Run, pc'[q] = "idle" \/ lone'[q]
        PROVE  ~clash'[q]
    <3>1. pc[q] = "idle" \/ lone[q]
      BY <2>1, <2>2 DEF TypeOK
    <3>2. ~clash[q]
      BY <3>1 DEF LoneInv
    <3>3. lone[q] => \A p \in Run \ {q} : pc[p] = "idle"
      BY DEF MatchInv, Rows
    <3>4. CASE q = r
      <4>1. lone[r]
        BY <3>1, <3>4, <2>1
      <4>2. \A p \in Run \ {r} : pc[p] # "saving"
        BY <4>1, <3>3, <3>4
      <4> QED
        BY <4>2, <3>2, <3>4, <2>1
    <3>5. CASE q # r
      <4>1. ~lone[q]
        BY <3>3, <3>5, <2>1
      <4> QED
        BY <4>1, <3>1, <3>2, <3>5, <2>1
    <3> QED
      BY <3>4, <3>5
  <2> QED
    BY <2>2 DEF LoneInv
<1>5. ASSUME NEW r \in Run, Load(r) \/ Decide(r)
      PROVE  LoneInv'
  <2>1. pc[r] # "idle" /\ UNCHANGED <<lone, clash>>
        /\ \E p \in Phase \ {"idle"} : pc' = [pc EXCEPT ![r] = p]
    BY <1>5 DEF Load, Decide, Phase
  <2> QED
    BY <2>1 DEF LoneInv, TypeOK
<1>6. ASSUME NEW r \in Run, Delete(r) \/ Add(r)
      PROVE  LoneInv'
  <2>1. pc[r] # "idle" /\ UNCHANGED <<lone, clash>>
        /\ \A q \in Run : pc'[q] = "idle" => pc[q] = "idle"
    BY <1>6 DEF Delete, Add, TypeOK
  <2> QED
    BY <2>1 DEF LoneInv
<1>7. ASSUME NEW r \in Run, AllCurrent(r) \/ Saved(r) \/ Stop(r)
      PROVE  LoneInv'
  BY <1>7, <1>2 DEF AllCurrent, Saved, Stop
<1>8. ASSUME NEW r \in Run, NEW f \in File, Walk(r, f) \/ Read(r, f)
      PROVE  LoneInv'
  BY <1>8, <1>1 DEF Walk, Read
<1>9. ASSUME Tick \/ \E f \in File : Edit(f)
      PROVE  LoneInv'
  BY <1>9, <1>1 DEF Tick, Edit
<1> QED
  BY <1>1, <1>3, <1>4, <1>5, <1>6, <1>7, <1>8, <1>9 DEF Next, vars

\* The save moves what the run has written into the manifest; of what it has
\* written side by side with another nothing is claimed from then on.
LEMMA MatchSaved ==
    ASSUME TypeOK, MatchInv, LoneInv, NEW r \in Run, Saved(r)
    PROVE  MatchInv'
<1>1. /\ pc[r] = "saving" /\ Steps(r) /\ pc'[r] = "idle" /\ ~lone'[r]
      /\ rows' = rows
      /\ hurt' = IF lone[r] THEN hurt \ touched[r] ELSE hurt \cup touched[r]
  BY DEF Saved, Steps, End, TypeOK
<1>2. \/ \A f \in File : manifest'[f] = mem[r][f]
      \/ ~lone[r] /\ manifest' = manifest
  BY DEF Saved, LoneInv
<1>3. Written(r) = touched[r] /\ Written(r)' = {}
  BY <1>1 DEF Written
<1>4. \A q \in Run \ {r} : Same(q) /\ ~lone'[q] /\ Written(q)' = Written(q)
  BY <1>1, OthersSame, StepsAlone DEF Same, Written
<1>5. \A f \in File \ (hurt \cup touched[r]) :
          Expected(manifest'[f]) = Expected(manifest[f])
  <2>1. \A f \in File \ (hurt \cup touched[r]) :
            Expected(mem[r][f]) = Expected(manifest[f])
    BY <1>1 DEF MatchInv, Agree, Loaded
  <2> QED
    BY <2>1, <1>2
<1>6. \A f \in File : Expected(manifest[f])' = Expected(manifest'[f])
  BY DEF Expected, Once, Absent
<1>7. ASSUME NEW f \in File \ hurt', \A q \in Run : f \notin Written(q)'
      PROVE  rows[f] = Expected(manifest'[f])
  <2>1. \A q \in Run \ {r} : f \notin Written(q)
    BY <1>4, <1>7
  <2>2. CASE f \notin touched[r]
    <3>1. f \notin hurt
      BY <1>1, <1>7, <2>2
    <3>2. rows[f] = Expected(manifest[f])
      BY <2>1, <2>2, <3>1, <1>3 DEF MatchInv, Matches
    <3> QED
      BY <3>1, <3>2, <2>2, <1>5
  <2>3. CASE f \in touched[r]
    <3>1. lone[r]
      BY <2>3, <1>1, <1>7
    <3>2. rows[f] = Expected(mem[r][f])
      BY <2>3, <3>1, <1>1 DEF MatchInv, Rows, Merged
    <3> QED
      BY <3>1, <3>2, <1>2
  <2> QED
    BY <2>2, <2>3
<1>8. Matches'
  BY <1>1, <1>6, <1>7 DEF Matches
<1>9. Rows(r)' /\ Plan(r)' /\ Agree(r)'
  BY <1>1 DEF Rows, Plan, Agree, Loaded
<1>10. ASSUME NEW q \in Run \ {r}
       PROVE  Rows(q)' /\ Plan(q)' /\ Agree(q)'
  <2>1. Rows(q)'
    BY <1>4 DEF Rows
  <2>2. Plan(q)'
    BY <1>4 DEF MatchInv, Plan, Same, files_to_index
  <2>3. Agree(q)'
    <3>1. CASE lone[r]
      <4>1. pc'[q] = "idle"
        BY <3>1, <1>4 DEF MatchInv, Rows, Same
      <4> QED
        BY <4>1 DEF Agree, Loaded
    <3>2. CASE ~lone[r]
      <4>1. \A f \in File \ hurt' : Expected(manifest[f])' = Expected(manifest[f])
        BY <3>2, <1>1, <1>5, <1>6
      <4>2. \A f \in File : Expected(mem[q][f])' = Expected(mem[q][f])
        BY <1>4 DEF Same, Expected, Once, Absent
      <4>3. \A f \in File \ hurt' : f \notin hurt
        BY <3>2, <1>1
      <4>4. Agree(q) /\ pc'[q] = pc[q] /\ touched'[q] = touched[q]
        BY <1>4 DEF MatchInv, Same
      <4> QED
        BY <4>1, <4>2, <4>3, <4>4 DEF Agree
    <3> QED
      BY <3>1, <3>2
  <2> QED
    BY <2>1, <2>2, <2>3
<1> QED
  BY <1>8, <1>9, <1>10 DEF MatchInv

LEMMA MatchStep ==
    ASSUME TypeOK, MatchInv, LoneInv, [Next]_vars
    PROVE  MatchInv'
<1>1. CASE UNCHANGED vars
  BY <1>1, MatchQuiet DEF vars
<1>2. CASE Tick \/ \E f \in File : Edit(f)
  BY <1>2, MatchQuiet DEF Tick, Edit, index
<1>3. ASSUME NEW r \in Run, Start(r)
      PROVE  MatchInv'
  BY <1>3, MatchStart
<1>4. ASSUME NEW r \in Run,
             \/ Load(r) \/ Decide(r) \/ Save(r)
             \/ \E f \in File : Walk(r, f) \/ Read(r, f)
      PROVE  MatchInv'
  BY <1>4, MatchBefore
<1>5. ASSUME NEW r \in Run,
             AllCurrent(r) \/ Stop(r) \/ Delete(r) \/ Add(r) \/ Saved(r)
      PROVE  MatchInv'
  BY <1>5, MatchEnd, MatchDelete, MatchAdd, MatchSaved
<1> QED
  BY <1>1, <1>2, <1>3, <1>4, <1>5 DEF Next

\* The table has what the manifest says, except for the files that a run is
\* writing, or that one has written which was stopped or overlapped another.
THEOREM IndexReflectsManifest == Spec => []IndexMatchesManifest
<1>1. MatchInv => IndexMatchesManifest
  BY DEF MatchInv, Matches, IndexMatchesManifest, Expected
<1>2. Init => TypeOK /\ MatchInv /\ LoneInv
  BY TypeInit, MatchInit DEF Init, LoneInv
<1>3. TypeOK /\ MatchInv /\ LoneInv /\ [Next]_vars
         => (TypeOK /\ MatchInv /\ LoneInv)'
  BY TypeStep, MatchStep, LoneStep
<1> QED
  BY <1>1, <1>2, <1>3, PTL DEF Spec

-----------------------------------------------------------------------------
FreshRun(r) ==
    Blank(r) /\ (pc[r] # "idle" => \A f \in scope[r] \ edited[r] : Seen(r, f))

\* A run keeps what it has found out while others step.
LEMMA FreshSame ==
    ASSUME TypeOK, NEW q \in Run, Same(q), FreshRun(q), disk' = disk
    PROVE  FreshRun(q)'
<1>1. Found(q)' = Found(q)
  BY DEF Found, Same
<1>2. Blank(q)'
  BY <1>1 DEF FreshRun, Blank, Same, Nothing
<1>3. ASSUME NEW f \in File, Seen(q, f)
      PROVE  Seen(q, f)'
  <2>1. Judged(q, f)' = Judged(q, f)
    BY DEF Judged, Same
  <2>2. Expected(mem[q][f])' = Expected(mem[q][f])
        /\ Once(disk[f].body)' = Once(disk[f].body)
    BY DEF Same, Expected, Once, Absent
  <2> QED
    BY <1>1, <1>3, <2>1, <2>2 DEF Seen, Same
<1>4. pc'[q] # "idle" => \A f \in scope'[q] \ edited'[q] : Seen(q, f)'
  <2>1. scope[q] \in SUBSET File
    BY DEF TypeOK
  <2> QED
    BY <1>3, <2>1 DEF FreshRun, Same
<1> QED
  BY <1>2, <1>4 DEF FreshRun

\* An edit is noted by every run that is under way.
LEMMA FreshEdit ==
    ASSUME TypeOK, FreshInv, NEW g \in File, Edit(g)
    PROVE  FreshInv'
<1>1. /\ \A f \in File : f # g => disk'[f] = disk[f]
      /\ edited' = [r \in Run |-> IF pc[r] # "idle" THEN edited[r] \cup {g}
                                  ELSE {}]
      /\ UNCHANGED <<pc, scope, stat, mem, left, pend, touched>>
  BY DEF Edit, args, Busy, TypeOK
<1>2. ASSUME NEW q \in Run
      PROVE  FreshRun(q)'
  <2>1. Blank(q)
    BY DEF FreshInv
  <2>2. Found(q)' = Found(q)
    BY <1>1 DEF Found
  <2>3. Blank(q)'
    BY <1>1, <2>1, <2>2 DEF Blank, Nothing
  <2>4. ASSUME NEW f \in File, f # g, Seen(q, f)
        PROVE  Seen(q, f)'
    <3>1. Judged(q, f)' = Judged(q, f)
      BY <1>1, <2>4 DEF Judged
    <3>2. Expected(mem[q][f])' = Expected(mem[q][f])
          /\ Once(disk[f].body)' = Once(disk[f].body)
      BY <1>1, <2>4 DEF Expected, Once, Absent
    <3> QED
      BY <1>1, <2>2, <2>4, <3>1, <3>2 DEF Seen
  <2>5. pc'[q] # "idle" => \A f \in scope'[q] \ edited'[q] : Seen(q, f)'
    <3>1. scope[q] \in SUBSET File
      BY DEF TypeOK
    <3> QED
      BY <1>1, <2>4, <3>1 DEF FreshInv
  <2> QED
    BY <2>3, <2>5 DEF FreshRun
<1> QED
  BY <1>2 DEF FreshInv, FreshRun

\* It is enough that a run keeps its own knowledge.
LEMMA OwnFresh ==
    ASSUME TypeOK, FreshInv, NEW r \in Run, Steps(r) \/ Start(r),
           disk' = disk, FreshRun(r)'
    PROVE  FreshInv'
<1>1. \A q \in Run \ {r} : FreshRun(q)'
  BY OthersSame, FreshSame DEF FreshInv, FreshRun
<1> QED
  BY <1>1 DEF FreshInv, FreshRun

LEMMA FreshStart ==
    ASSUME TypeOK, FreshInv, NEW r \in Run, Start(r)
    PROVE  FreshInv'
<1>1. /\ pc[r] = "idle" /\ pc'[r] = "walk" /\ disk' = disk
      /\ stat' = stat /\ pend' = pend
  BY DEF Start, Busy, files, TypeOK
<1>2. stat'[r] = Nothing /\ pend'[r] = Nothing
  BY <1>1 DEF FreshInv, Blank
<1>3. Blank(r)'
  BY <1>1, <1>2 DEF Blank, Nothing
<1>4. \A f \in File : Seen(r, f)'
  BY <1>1, <1>2 DEF Seen, Nothing, Merged
<1>5. scope'[r] \in SUBSET File
  BY DEF Start, TypeOK
<1>6. FreshRun(r)'
  BY <1>3, <1>4, <1>5 DEF FreshRun
<1> QED
  BY <1>1, <1>6, OwnFresh

LEMMA FreshEnd ==
    ASSUME TypeOK, FreshInv, NEW r \in Run,
           AllCurrent(r) \/ Saved(r) \/ Stop(r)
    PROVE  FreshInv'
<1>1. Steps(r) /\ End(r) /\ disk' = disk
  BY DEF AllCurrent, Saved, Stop, Steps, files
<1>2. /\ pc'[r] = "idle" /\ stat'[r] = Nothing /\ edited'[r] = {}
      /\ pend'[r] = Nothing
  BY <1>1 DEF End, TypeOK
<1>3. FreshRun(r)'
  BY <1>2 DEF FreshRun, Blank, Nothing
<1> QED
  BY <1>1, <1>3, OwnFresh

LEMMA FreshWalk ==
    ASSUME TypeOK, FreshInv, NEW r \in Run, NEW g \in File, Walk(r, g)
    PROVE  FreshInv'
<1>1. /\ pc[r] = "walk" /\ pc' = pc /\ disk' = disk /\ pend' = pend
      /\ scope' = scope /\ edited' = edited /\ Steps(r)
  BY DEF Walk, files, args, Steps
<1>2. \A f \in File :
          \/ stat'[r][f] = stat[r][f]
          \/ disk[f] # None /\ stat'[r][f] = disk[f].mtime
  BY DEF Walk, TypeOK
<1>3. pend'[r] = Nothing
  BY <1>1 DEF FreshInv, Blank
<1>4. Blank(r)'
  BY <1>1, <1>3 DEF Blank, Nothing
<1>5. \A f \in scope'[r] \ edited'[r] : Seen(r, f)'
  <2>1. \A f \in scope[r] \ edited[r] : f \in File /\ Seen(r, f)
    BY <1>1 DEF FreshInv, TypeOK
  <2> QED
    BY <2>1, <1>1, <1>2 DEF Seen, Merged
<1>6. FreshRun(r)'
  BY <1>4, <1>5 DEF FreshRun
<1> QED
  BY <1>1, <1>6, OwnFresh

LEMMA FreshLoad ==
    ASSUME TypeOK, FreshInv, NEW r \in Run, Load(r)
    PROVE  FreshInv'
<1>1. /\ pc[r] = "walk" /\ pc'[r] = "read" /\ disk' = disk /\ Steps(r)
      /\ UNCHANGED <<pend, stat, scope, edited>>
      /\ left'[r] = Found(r)
  BY DEF Load, files, args, Steps, TypeOK
<1>2. Found(r)' = Found(r)
  BY <1>1 DEF Found
<1>3. pend'[r] = Nothing
  BY <1>1 DEF FreshInv, Blank
<1>4. Blank(r)'
  BY <1>1, <1>2, <1>3 DEF Blank, Nothing
<1>5. \A f \in scope'[r] \ edited'[r] : Seen(r, f)'
  <2>1. \A f \in scope[r] \ edited[r] : Seen(r, f)
    BY <1>1 DEF FreshInv
  <2> QED
    BY <2>1, <1>1, <1>2 DEF Seen, Merged
<1>6. FreshRun(r)'
  BY <1>4, <1>5 DEF FreshRun
<1> QED
  BY <1>1, <1>6, OwnFresh

\* A file passed by its stamp has the content of its entry; one that was read
\* is known, or is queued with what it has.
LEMMA FreshRead ==
    ASSUME TypeOK, StampInv, FreshInv, NEW r \in Run, NEW g \in File, Read(r, g)
    PROVE  FreshInv'
<1>1. /\ pc[r] = "read" /\ pc' = pc /\ disk' = disk /\ Steps(r)
      /\ UNCHANGED <<stat, scope, edited>>
      /\ g \in left[r] /\ left'[r] = left[r] \ {g}
  BY DEF Read, files, args, Steps, TypeOK
<1>2. Found(r)' = Found(r)
  BY <1>1 DEF Found
<1>3. /\ left[r] \in SUBSET Found(r)
      /\ \A f \in File : pend[r][f] # None => f \in Found(r) /\ f \notin left[r]
  BY <1>1 DEF FreshInv, Blank
<1>4. stat[r][g] # None /\ pend[r][g] = None
  BY <1>1, <1>3 DEF Found
<1>5. \A f \in File : f # g => mem'[r][f] = mem[r][f] /\ pend'[r][f] = pend[r][f]
  <2>1. CASE PassByStamp(r, g)
    BY <2>1 DEF PassByStamp
  <2>2. CASE ReadAndHash(r, g)
    <3> DEFINE seen == recordable_stamp(stat[r][g], floor[r])
    <3> HIDE DEF seen
    <3>1. \/ mem' = [mem EXCEPT ![r][g].stamp = seen] /\ pend' = pend
          \/ mem' = mem /\ pend' = pend
          \/ mem' = mem /\ pend' = [pend EXCEPT
                              ![r][g] = [hash |-> disk[g].body, stamp |-> seen]]
      BY <2>2 DEF ReadAndHash, seen
    <3> QED
      BY <3>1 DEF TypeOK
  <2> QED
    BY <2>1, <2>2 DEF Read
<1>6. Blank(r)'
  <2>1. \A f \in File : pend'[r][f] # None =>
            f \in Found(r) /\ f \notin left'[r]
    BY <1>1, <1>3, <1>5
  <2> QED
    BY <2>1, <1>1, <1>2, <1>3 DEF Blank
<1>7. ASSUME g \in scope[r] \ edited[r]
      PROVE  Judged(r, g)'
  <2>1. Seen(r, g)
    BY <1>1, <1>7 DEF FreshInv
  <2>2. disk[g] # None /\ disk[g].mtime = stat[r][g]
    BY <2>1, <1>4 DEF Seen
  <2>3. CASE PassByStamp(r, g)
    <3>1. mem[r][g] # None /\ mem[r][g].stamp = stat[r][g]
          /\ mem' = mem /\ pend' = pend
      BY <2>3 DEF PassByStamp, is_current_by_stamp
    <3>2. Sound(g, mem[r][g])
      BY DEF StampInv
    <3>3. mem[r][g].hash = disk[g].body
      BY <2>2, <3>1, <3>2, <1>4 DEF Sound
    <3> QED
      BY <3>1, <3>3, <1>1, <1>4 DEF Judged
  <2>4. CASE ReadAndHash(r, g)
    <3> DEFINE seen == recordable_stamp(stat[r][g], floor[r])
    <3>0. seen \in Time \cup {None}
      BY DEF recordable_stamp, TypeOK
    <3> HIDE DEF seen
    <3>1. \/ /\ is_current(mem[r][g], disk[g].body)
             /\ mem' = [mem EXCEPT ![r][g].stamp = seen]
             /\ pend' = pend
          \/ /\ disk[g].body \in Junk /\ pend' = pend
          \/ /\ disk[g].body \notin Junk
             /\ pend' = [pend EXCEPT
                           ![r][g] = [hash |-> disk[g].body, stamp |-> seen]]
      BY <2>4 DEF ReadAndHash, seen
    <3>2. CASE /\ is_current(mem[r][g], disk[g].body)
               /\ mem' = [mem EXCEPT ![r][g].stamp = seen]
               /\ pend' = pend
      <4>1. mem[r][g] \in ManifestFile /\ mem[r][g].hash = disk[g].body
        BY <3>2 DEF is_current, TypeOK
      <4>2. mem'[r][g] = [hash |-> disk[g].body, stamp |-> seen]
        <5>1. mem'[r][g] = [mem[r][g] EXCEPT !.stamp = seen]
          BY <3>2 DEF TypeOK
        <5> QED
          BY <5>1, <4>1 DEF ManifestFile
      <4>3. [hash |-> mem[r][g].hash, stamp |-> seen] \in ManifestFile
        BY <4>1, <3>0 DEF ManifestFile
      <4>4. mem'[r][g] # None /\ mem'[r][g].hash = disk[g].body
        BY <4>1, <4>2, <4>3, SemanticAssumption
      <4> QED
        BY <4>4, <3>2, <1>1, <1>4 DEF Judged
    <3>3. CASE disk[g].body \in Junk
      BY <3>3, <1>1, SemanticAssumption DEF Judged
    <3>4. CASE /\ disk[g].body \notin Junk
               /\ pend' = [pend EXCEPT
                             ![r][g] = [hash |-> disk[g].body, stamp |-> seen]]
      <4>1. pend'[r][g] = [hash |-> disk[g].body, stamp |-> seen]
        BY <3>4 DEF TypeOK
      <4>2. disk[g].body \in Text
        BY <2>2, <3>4 DEF TypeOK, OnDisk, Content
      <4>3. [hash |-> disk[g].body, stamp |-> seen] \in ManifestFile
        BY <4>2, <3>0 DEF ManifestFile
      <4> QED
        BY <4>1, <4>3, <1>1, SemanticAssumption DEF Judged
    <3> QED
      BY <3>1, <3>2, <3>3, <3>4
  <2> QED
    BY <2>3, <2>4 DEF Read
<1>8. ASSUME NEW f \in scope[r] \ edited[r]
      PROVE  Seen(r, f)'
  <2>1. f \in File /\ Seen(r, f)
    BY <1>1 DEF FreshInv, TypeOK
  <2>2. stat'[r][f] # None => disk'[f] # None /\ disk'[f].mtime = stat'[r][f]
    BY <2>1, <1>1 DEF Seen
  <2>3. (f \in Found(r) /\ f \notin left'[r]) => Judged(r, f)'
    <3>1. CASE f = g
      BY <3>1, <1>7
    <3>2. CASE f # g
      <4>1. (f \in Found(r) /\ f \notin left'[r]) => Judged(r, f)
        BY <3>2, <2>1, <1>1 DEF Seen
      <4>2. Judged(r, f) => Judged(r, f)'
        BY <3>2, <2>1, <1>1, <1>5 DEF Judged
      <4> QED
        BY <4>1, <4>2
    <3> QED
      BY <3>1, <3>2
  <2> QED
    BY <2>2, <2>3, <1>1, <1>2 DEF Seen, Merged
<1>9. FreshRun(r)'
  BY <1>1, <1>6, <1>8 DEF FreshRun
<1> QED
  BY <1>1, <1>9, OwnFresh

LEMMA FreshDecide ==
    ASSUME TypeOK, FreshInv, NEW r \in Run, Decide(r)
    PROVE  FreshInv'
<1>1. /\ pc[r] = "read" /\ left[r] = {} /\ disk' = disk /\ Steps(r)
      /\ UNCHANGED <<pend, mem, stat, scope, edited>>
      /\ touched'[r] = files_to_index(r) \cup stale_paths_under(r)
      /\ \/ pc'[r] = "delete"
         \/ pc'[r] = "save" /\ touched'[r] = {}
  BY DEF Decide, files, args, Steps, TypeOK
<1>2. Found(r)' = Found(r)
  BY <1>1 DEF Found
<1>3. Blank(r)'
  BY <1>1, <1>2 DEF FreshInv, Blank
<1>4. ASSUME NEW f \in scope[r] \ edited[r]
      PROVE  Seen(r, f)'
  <2>1. f \in File /\ f \in scope[r] /\ Seen(r, f)
    BY <1>1 DEF FreshInv, TypeOK
  <2>2. stat'[r][f] # None => disk'[f] # None /\ disk'[f].mtime = stat'[r][f]
    BY <2>1, <1>1 DEF Seen
  <2>3. f \in Found(r) => Judged(r, f)
    BY <2>1, <1>1 DEF Seen
  <2>4. Judged(r, f)' = Judged(r, f)
    BY <1>1 DEF Judged
  <2>5. (f \in Found(r) /\ pend[r][f] = None) => f \notin touched'[r]
    BY <1>1 DEF files_to_index, stale_paths_under
  <2>6. f \notin Found(r) => (mem[r][f] = None \/ f \in touched'[r])
    BY <2>1, <1>1 DEF stale_paths_under
  <2>7. CASE pc'[r] = "delete"
    BY <2>2, <2>3, <2>4, <2>5, <2>6, <2>7, <1>1, <1>2 DEF Seen, Merged
  <2>8. CASE pc'[r] = "save" /\ touched'[r] = {}
    <3>1. pend[r][f] = None
      BY <2>1, <2>8, <1>1 DEF files_to_index
    <3>2. f \in Found(r) =>
             (disk'[f].body \in Text =>
                Expected(mem[r][f])' = Once(disk[f].body)')
      BY <2>3, <3>1, <1>1 DEF Judged, Expected, Once
    <3> QED
      BY <2>2, <2>6, <2>8, <3>2, <1>1, <1>2 DEF Seen, Merged
  <2> QED
    BY <2>7, <2>8, <1>1
<1>5. FreshRun(r)'
  BY <1>1, <1>3, <1>4 DEF FreshRun
<1> QED
  BY <1>1, <1>5, OwnFresh

LEMMA FreshDelete ==
    ASSUME TypeOK, FreshInv, NEW r \in Run, Delete(r)
    PROVE  FreshInv'
<1>1. /\ pc[r] = "delete" /\ pc'[r] \in {"delete", "add"} /\ disk' = disk
      /\ Steps(r)
      /\ UNCHANGED <<pend, mem, stat, scope, edited, touched>>
  BY DEF Delete, files, args, Steps, TypeOK
<1>2. Found(r)' = Found(r)
  BY <1>1 DEF Found
<1>3. Blank(r)'
  BY <1>1, <1>2 DEF FreshInv, Blank
<1>4. ASSUME NEW f \in scope[r] \ edited[r]
      PROVE  Seen(r, f)'
  <2>1. Seen(r, f)
    BY <1>1 DEF FreshInv
  <2>2. Judged(r, f)' = Judged(r, f)
    BY <1>1 DEF Judged
  <2> QED
    BY <2>1, <2>2, <1>1, <1>2 DEF Seen, Merged
<1>5. FreshRun(r)'
  BY <1>1, <1>3, <1>4 DEF FreshRun
<1> QED
  BY <1>1, <1>5, OwnFresh

LEMMA FreshAdd ==
    ASSUME TypeOK, FreshInv, NEW r \in Run, Add(r)
    PROVE  FreshInv'
<1>1. /\ pc[r] = "add" /\ pc'[r] = "save" /\ disk' = disk /\ Steps(r)
      /\ UNCHANGED <<pend, stat, scope, edited, touched>>
      /\ mem'[r] = updated(r)
  BY DEF Add, files, args, Steps, TypeOK
<1>2. Found(r)' = Found(r)
  BY <1>1 DEF Found
<1>3. Blank(r)'
  BY <1>1, <1>2 DEF FreshInv, Blank
<1>4. ASSUME NEW f \in scope[r] \ edited[r]
      PROVE  Seen(r, f)'
  <2>1. f \in File /\ Seen(r, f)
    BY <1>1 DEF FreshInv, TypeOK
  <2>2. mem'[r][f] = IF pend[r][f] # None THEN pend[r][f]
                     ELSE IF f \in touched[r] THEN None ELSE mem[r][f]
    BY <2>1, <1>1 DEF updated
  <2>3. f \notin Found(r) => mem'[r][f] = None
    <3>1. f \notin Found(r) => pend[r][f] = None
      BY <2>1 DEF FreshInv, Blank
    <3> QED
      BY <3>1, <2>1, <2>2, <1>1 DEF Seen
  <2>4. f \in Found(r) =>
           (disk'[f].body \in Text => Expected(mem[r][f])' = Once(disk[f].body)')
    <3>1. SUFFICES ASSUME f \in Found(r), disk[f].body \in Text
                   PROVE  /\ mem'[r][f] # None
                          /\ mem'[r][f].hash = disk[f].body
      BY <1>1 DEF Expected, Once
    <3>2. Judged(r, f) /\ (pend[r][f] = None => f \notin touched[r])
      BY <3>1, <2>1, <1>1 DEF Seen
    <3> QED
      BY <3>1, <3>2, <2>2 DEF Judged
  <2>5. stat'[r][f] # None => disk'[f] # None /\ disk'[f].mtime = stat'[r][f]
    BY <2>1, <1>1 DEF Seen
  <2> QED
    BY <2>3, <2>4, <2>5, <1>1, <1>2 DEF Seen, Merged
<1>5. FreshRun(r)'
  BY <1>1, <1>3, <1>4 DEF FreshRun
<1> QED
  BY <1>1, <1>5, OwnFresh

LEMMA FreshSave ==
    ASSUME TypeOK, FreshInv, NEW r \in Run, Save(r)
    PROVE  FreshInv'
<1>1. /\ pc[r] = "save" /\ pc'[r] = "saving" /\ disk' = disk /\ Steps(r)
      /\ UNCHANGED <<pend, mem, stat, scope, edited, touched>>
  BY DEF Save, files, args, Steps, TypeOK
<1>2. Found(r)' = Found(r)
  BY <1>1 DEF Found
<1>3. Blank(r)'
  BY <1>1, <1>2 DEF FreshInv, Blank
<1>4. ASSUME NEW f \in scope[r] \ edited[r]
      PROVE  Seen(r, f)'
  <2>1. Seen(r, f)
    BY <1>1 DEF FreshInv
  <2>2. Expected(mem[r][f])' = Expected(mem[r][f])
        /\ Once(disk[f].body)' = Once(disk[f].body)
    BY <1>1 DEF Expected, Once, Absent
  <2> QED
    BY <2>1, <2>2, <1>1, <1>2 DEF Seen, Merged
<1>5. FreshRun(r)'
  BY <1>1, <1>3, <1>4 DEF FreshRun
<1> QED
  BY <1>1, <1>5, OwnFresh

LEMMA FreshStep ==
    ASSUME TypeOK, StampInv, FreshInv, [Next]_vars
    PROVE  FreshInv'
<1>1. CASE UNCHANGED vars \/ Tick
  <2>1. disk' = disk /\ \A q \in Run : Same(q)
    BY <1>1 DEF vars, Tick, Same, args
  <2> QED
    BY <2>1, FreshSame DEF FreshInv, FreshRun
<1>2. ASSUME NEW f \in File, Edit(f)
      PROVE  FreshInv'
  BY <1>2, FreshEdit
<1>3. ASSUME NEW r \in Run,
             Start(r) \/ AllCurrent(r) \/ Saved(r) \/ Stop(r)
      PROVE  FreshInv'
  BY <1>3, FreshStart, FreshEnd
<1>4. ASSUME NEW r \in Run,
             Load(r) \/ Decide(r) \/ Delete(r) \/ Add(r) \/ Save(r)
      PROVE  FreshInv'
  BY <1>4, FreshLoad, FreshDecide, FreshDelete, FreshAdd, FreshSave
<1>5. ASSUME NEW r \in Run, NEW f \in File, Walk(r, f) \/ Read(r, f)
      PROVE  FreshInv'
  BY <1>5, FreshWalk, FreshRead
<1> QED
  BY <1>1, <1>2, <1>3, <1>4, <1>5 DEF Next

\* What a run that was alone leaves behind.
LEMMA FreshAnswer ==
    ASSUME TypeOK, MatchInv, FreshInv, NEW r \in Run,
           AllCurrent(r) \/ Saved(r), lone[r],
           NEW f \in scope[r] \ (edited[r] \cup hurt')
    PROVE  \/ disk[f] # None /\ disk[f].body \in Junk
           \/ rows'[f] = IF f \in Found(r) THEN Once(disk[f].body) ELSE Absent
<1>1. /\ rows' = rows /\ pc[r] # "idle" /\ f \in File
      /\ \A q \in Run \ {r} : pc[q] = "idle"
  BY DEF AllCurrent, Saved, index, MatchInv, Rows, TypeOK
<1>2. Seen(r, f)
  BY <1>1 DEF FreshInv
<1>3. rows[f] = Expected(mem[r][f])
  <2>1. CASE AllCurrent(r)
    <3>1. pc[r] = "read" /\ f \notin hurt
      BY <2>1 DEF AllCurrent
    <3>2. \A q \in Run : Written(q) = {}
      BY <1>1, <3>1 DEF Written
    <3>3. rows[f] = Expected(manifest[f])
      BY <1>1, <3>1, <3>2 DEF MatchInv, Matches
    <3>4. Expected(mem[r][f]) = Expected(manifest[f])
      BY <1>1, <3>1 DEF MatchInv, Agree, Loaded, Merged
    <3> QED
      BY <3>3, <3>4
  <2>2. CASE Saved(r) /\ f \in touched[r]
    <3>1. pc[r] \in Merged
      BY <2>2 DEF Saved, Merged
    <3> QED
      BY <2>2, <3>1 DEF MatchInv, Rows
  <2>3. CASE Saved(r) /\ f \notin touched[r]
    <3>1. pc[r] = "saving" /\ f \notin hurt
      BY <2>3 DEF Saved
    <3>2. \A q \in Run : f \notin Written(q)
      BY <1>1, <3>1, <2>3 DEF Written
    <3>3. rows[f] = Expected(manifest[f])
      BY <1>1, <3>1, <3>2 DEF MatchInv, Matches
    <3>4. Expected(mem[r][f]) = Expected(manifest[f])
      BY <1>1, <2>3, <3>1 DEF MatchInv, Agree, Loaded
    <3> QED
      BY <3>3, <3>4
  <2> QED
    BY <2>1, <2>2, <2>3
<1>4. f \notin Found(r) => mem[r][f] = None
  <2>1. CASE AllCurrent(r)
    BY <2>1, <1>1 DEF AllCurrent, stale_paths_under
  <2>2. CASE Saved(r)
    BY <2>2, <1>2 DEF Saved, Seen, Merged
  <2> QED
    BY <2>1, <2>2
<1>5. (f \in Found(r) /\ disk[f].body \in Text) =>
          Expected(mem[r][f]) = Once(disk[f].body)
  <2>1. CASE AllCurrent(r)
    <3>1. pc[r] = "read" /\ left[r] = {} /\ pend[r][f] = None
      BY <2>1, <1>1 DEF AllCurrent, files_to_index
    <3>2. f \in Found(r) => Judged(r, f)
      BY <3>1, <1>2 DEF Seen
    <3> QED
      BY <3>1, <3>2 DEF Judged, Expected
  <2>2. CASE Saved(r)
    BY <2>2, <1>2 DEF Saved, Seen, Merged
  <2> QED
    BY <2>1, <2>2
<1>6. f \in Found(r) => disk[f] # None
  BY <1>2 DEF Seen, Found
<1>7. disk[f] # None => disk[f].body \in Text \cup Junk
  BY <1>1 DEF TypeOK, OnDisk, Content
<1> QED
  BY <1>1, <1>3, <1>4, <1>5, <1>6, <1>7 DEF Expected

\* A run that had the index to itself leaves the files it came to, and that
\* were not edited meanwhile, indexed as they are on disk, and those it did not
\* come to not indexed at all.
THEOREM RunLeavesFresh == Spec => FreshAfterRun
<1> DEFINE I == TypeOK /\ StampInv /\ MatchInv /\ LoneInv /\ FreshInv
<1>1. Init => I
  <2>1. Init => FreshInv
    BY DEF Init, FreshInv, Blank, Nothing
  <2> QED
    BY <2>1, TypeInit, StampInit, MatchInit DEF Init, LoneInv
<1>2. I /\ [Next]_vars => I'
  BY TypeStep, StampStep, MatchStep, LoneStep, FreshStep
<1>3. I /\ [Next]_vars =>
        [\A r \in Run : (AllCurrent(r) \/ Saved(r)) /\ lone[r] =>
            \A f \in scope[r] \ (edited[r] \cup hurt') :
                \/ disk[f] # None /\ disk[f].body \in Junk
                \/ rows'[f] = IF f \in Found(r) THEN Once(disk[f].body)
                              ELSE Absent]_vars
  BY FreshAnswer
<1> HIDE DEF I
<1> QED
  BY <1>1, <1>2, <1>3, PTL DEF Spec, FreshAfterRun
=============================================================================

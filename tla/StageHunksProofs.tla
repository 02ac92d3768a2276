-------------------------- MODULE StageHunksProofs --------------------------
(* What StageHunks promises whatever the files, the request and the others. *)
EXTENDS StageHunks, CacheLemmas, FiniteSetTheorems, FunctionTheorems, TLAPS

\* While the call has not written: the phases up to the apply, and the answers
\* that say so.
Quiet == pc \in {"idle", "apply"} \cup Before \/ result \in {"refused", "failed"}

\* The inductive invariant: the types, and no write in a quiet phase.
StageInv == TypeOK /\ (Quiet => ~wrote)

\* git apply leaves files that are known, or garbled.
LEMMA AppliedType ==
    ASSUME NEW tree \in [File -> Contents \cup {Garbled}], NEW hunks, NEW rev
    PROVE  Applied(tree, hunks, rev) \in [File -> Contents \cup {Garbled}]
<1>1. ASSUME NEW f \in File, NEW image
      PROVE  Recognised(f, image) \in Contents \cup {Garbled}
    BY <1>1 DEF Recognised, Contents
<1> QED BY <1>1 DEF Applied

\* The invariant holds of a new call.
LEMMA StageInit == Init => StageInv
BY ContextAssumption DEF Init, Trees, StageInv, TypeOK, Quiet, Before, After

\* A step that writes nothing, ends the call or goes on to a phase it may go on
\* to, keeps the invariant.
LEMMA StepsThatOnlyLook ==
    ASSUME StageInv, UNCHANGED <<index, work, wrote, budget>>,
           \/ pc' \in Before \cup {"apply"} /\ pc \in Before \cup {"idle"} /\ result' = result
           \/ pc' \in After /\ pc \in After /\ result' = result
           \/ /\ pc' = "done" /\ pc # "done"
              /\ \/ result' \in {"unavailable", "state_unknown", "applied"}
                 \/ result' \in {"refused", "failed"} /\ pc \in Before \cup {"apply"}
    PROVE  StageInv'
BY DEF StageInv, TypeOK, Quiet, Before, After

\* Every step keeps it; only git apply writes, and its answers are not quiet.
LEMMA StageStep == StageInv /\ [Next]_vars => StageInv'
<1> SUFFICES ASSUME StageInv, [Next]_vars PROVE StageInv'
    OBVIOUS
<1>1. ASSUME NEW action \in Actions, NEW scope \in Scopes, Request(action, scope)
      PROVE  StageInv'
    BY <1>1, StepsThatOnlyLook DEF Request, repository, Before
<1>2. CASE Source
    BY <1>2, StepsThatOnlyLook DEF Source, Refuse, Fail, End, Goto, repository, Before
<1>3. CASE Clean
    BY <1>3, StepsThatOnlyLook DEF Clean, Refuse, Fail, End, Goto, repository, Before
<1>4. CASE reject_mixed_direction_files
    BY <1>4, StepsThatOnlyLook
       DEF reject_mixed_direction_files, Refuse, Fail, End, Goto, repository, Before
<1>5. CASE PreTarget
    BY <1>5, StepsThatOnlyLook DEF PreTarget, Goto, repository, Before
<1>6. CASE PreUnstaged
    BY <1>6, StepsThatOnlyLook DEF PreUnstaged, Goto, repository, Before
<1>7. CASE Preflight
    BY <1>7, StepsThatOnlyLook DEF Preflight, Fail, End, Goto, repository, Before
<1>8. CASE PreBlobs
    BY <1>8, StepsThatOnlyLook DEF PreBlobs, Goto, repository, Before
<1>9. CASE FailsBefore
    BY <1>9, StepsThatOnlyLook DEF FailsBefore, Fail, End, repository, Before
<1>10. CASE ApplyFails
    BY <1>10, StepsThatOnlyLook DEF ApplyFails, Fail, End, repository, Before
<1>11. ASSUME NEW hunks, Writes(hunks), UNCHANGED <<work, budget>>, pc = "apply",
              \/ pc' = "post_source" /\ result' = result
              \/ pc' = "done" /\ result' \in {"unavailable", "state_unknown"}
       PROVE  StageInv'
    <2>1. index' \in [File -> Contents \cup {Garbled}]
        BY <1>11, AppliedType DEF Writes, StageInv, TypeOK
    <2> QED BY <1>11, <2>1 DEF StageInv, TypeOK, Quiet, Writes, Before, After
<1>12. CASE ApplySucceeds
    BY <1>11, <1>12 DEF ApplySucceeds
<1>13. CASE ApplyTimesOut
    <2>1. CASE Writes(selected)
        BY <1>11, <1>13, <2>1 DEF ApplyTimesOut, Fail, End
    <2>2. CASE UNCHANGED <<index, wrote>>
        BY <1>13, <2>2, StepsThatOnlyLook DEF ApplyTimesOut, Fail, End
    <2> QED BY <1>13, <2>1, <2>2 DEF ApplyTimesOut
<1>14. CASE ApplyIsCutShort
    BY <1>11, <1>14 DEF ApplyIsCutShort, Fail, End
<1>15. CASE ApplyUnavailable
    <2>1. CASE Writes(selected)
        BY <1>11, <1>15, <2>1 DEF ApplyUnavailable, Fail, End
    <2>2. CASE UNCHANGED <<index, wrote>>
        BY <1>15, <2>2, StepsThatOnlyLook DEF ApplyUnavailable, Fail, End
    <2> QED BY <1>15, <2>1, <2>2 DEF ApplyUnavailable
<1>16. CASE PostSource
    BY <1>16, StepsThatOnlyLook DEF PostSource, Goto, repository, After
<1>17. CASE PostTarget
    BY <1>17, StepsThatOnlyLook DEF PostTarget, Mismatch, Fail, End, Goto, repository, After
<1>18. CASE verify_index_blob_delta
    BY <1>18, StepsThatOnlyLook
       DEF verify_index_blob_delta, Mismatch, Fail, End, Goto, repository, After
<1>19. CASE FullStaged
    BY <1>19, StepsThatOnlyLook DEF FullStaged, Mismatch, Fail, End, Goto, repository, After
<1>20. CASE FullUnstaged
    BY <1>20, StepsThatOnlyLook DEF FullUnstaged, Mismatch, Fail, End, repository, After
<1>21. CASE FailsAfter
    BY <1>21, StepsThatOnlyLook DEF FailsAfter, Fail, End, repository, After
<1>22. ASSUME NEW f \in File, NEW c \in Content(f), Save(f, c) \/ WriteIndex(f, c)
       PROVE  StageInv'
    <2>1. c \in Contents
        BY DEF Contents
    <2> QED BY <1>22, <2>1, ContextAssumption
            DEF Save, WriteIndex, Disturb, StageInv, TypeOK, Quiet
<1>23. CASE Lock \/ Unlock
    BY <1>23, ContextAssumption DEF Lock, Unlock, Disturb, StageInv, TypeOK, Quiet
<1>24. CASE UNCHANGED vars
    BY <1>24 DEF vars, StageInv, TypeOK, Quiet
<1> QED
    BY <1>1, <1>2, <1>3, <1>4, <1>5, <1>6, <1>7, <1>8, <1>9, <1>10, <1>12, <1>13,
       <1>14, <1>15, <1>16, <1>17, <1>18, <1>19, <1>20, <1>21, <1>22, <1>23, <1>24
    DEF Next

\* The invariant of every behaviour.
THEOREM StageInvariant == Spec => []StageInv
<1> QED BY StageInit, StageStep, PTL DEF Spec

\* Type correctness: a call that has written is at its verification, or over.
THEOREM StageTypeOK == Spec => []TypeOK
<1>1. StageInv => TypeOK
    BY DEF StageInv
<1> QED BY <1>1, StageInvariant, PTL

\* REQ-9 of docs/GIT_HUNK_STAGING.md: whatever fails, is killed or interferes, a
\* call that answers "refused" or "failed" has not written the index.
THEOREM RefusalsWriteNothing == Spec => []FailedMeansUntouched
<1>1. StageInv => FailedMeansUntouched
    BY DEF StageInv, Quiet, FailedMeansUntouched
<1> QED BY <1>1, StageInvariant, PTL

-----------------------------------------------------------------------------
(* Lines in their order *)

\* The numbers of a set that come before one.
Below(c, l) == {k \in c : k < l}

\* More numbers come before the larger one.
LEMMA BelowGrows ==
    ASSUME NEW c \in SUBSET Nat, IsFiniteSet(c)
    PROVE  /\ \A m \in c : IsFiniteSet(Below(c, m)) /\ Cardinality(Below(c, m)) \in Nat
           /\ \A m \in c : Cardinality(Below(c, m)) < Cardinality(c)
           /\ \A m, n \in c : m < n => Cardinality(Below(c, m)) < Cardinality(Below(c, n))
<1>1. \A m \in c : /\ m \in Nat /\ ~ (m < m) /\ Below(c, m) \subseteq c
                   /\ \A n \in c : n \in Below(c, m) <=> n < m
  BY DEF Below
<1>2. \A m \in c : IsFiniteSet(Below(c, m)) /\ Cardinality(Below(c, m)) \in Nat
  BY <1>1, FS_Subset, FS_CardinalityType
<1>3. Cardinality(c) \in Nat
  BY FS_CardinalityType
<1>4. ASSUME NEW m \in c PROVE Cardinality(Below(c, m)) < Cardinality(c)
  <2>1. m \notin Below(c, m)
    BY <1>1
  <2> QED
    BY <1>1, <1>2, <1>3, <2>1, FS_Subset
<1>5. ASSUME NEW m \in c, NEW n \in c, m < n
      PROVE  Cardinality(Below(c, m)) < Cardinality(Below(c, n))
  <2>1. \A k \in c : k < m => k < n
    BY <1>1, <1>5
  <2>2. Below(c, m) \subseteq Below(c, n) /\ m \in Below(c, n) /\ m \notin Below(c, m)
    BY <1>1, <1>5, <2>1
  <2> QED
    BY <1>2, <2>2, FS_Subset
<1> QED
  BY <1>2, <1>4, <1>5

\* InOrder names each number once, the lesser ones first.
LEMMA InOrderIsSorted ==
    ASSUME NEW c \in SUBSET Nat, IsFiniteSet(c)
    PROVE  /\ Cardinality(c) \in Nat
           /\ InOrder(c) \in Seq(c) /\ Len(InOrder(c)) = Cardinality(c)
           /\ \A l \in c : /\ Cardinality(Below(c, l)) + 1 \in 1 .. Cardinality(c)
                           /\ InOrder(c)[Cardinality(Below(c, l)) + 1] = l
           /\ \A i \in 1 .. Cardinality(c) :
                 InOrder(c)[i] \in c /\ Cardinality(Below(c, InOrder(c)[i])) = i - 1
           /\ \A i, j \in 1 .. Cardinality(c) : i < j => InOrder(c)[i] < InOrder(c)[j]
<1> DEFINE N == Cardinality(c)
           B(m) == Cardinality(Below(c, m))
           s == InOrder(c)
           g == [m \in c |-> B(m) + 1]
<1>1. N \in Nat
  BY FS_CardinalityType
<1>2. /\ \A m \in c : B(m) \in Nat /\ B(m) < N
      /\ \A m, n \in c : m < n => B(m) < B(n)
  BY BelowGrows
<1>3. \A m, n \in c : m \in Nat /\ n \in Nat
  OBVIOUS
<1>4. \A m, n \in c : B(m) = B(n) => m = n
  <2> HIDE DEF B
  <2> QED
    BY <1>2, <1>3
<1>5. \A i \in 1 .. N : \E m \in c : B(m) = i - 1
  <2> HIDE DEF B
  <2>1. g \in Injection(c, 1 .. N)
    <3>1. \A m \in c : g[m] = B(m) + 1 /\ B(m) \in Nat
      BY <1>2
    <3>2. g \in [c -> 1 .. N]
      BY <1>1, <1>2
    <3>3. \A m, n \in c : g[m] = g[n] => m = n
      BY <1>4, <3>1
    <3> HIDE DEF g, N
    <3> QED
      BY <3>2, <3>3 DEF Injection, IsInjective
  <2>2. IsFiniteSet(1 .. N) /\ Cardinality(1 .. N) = N
    BY <1>1, FS_Interval
  <2>3. g \in Surjection(c, 1 .. N)
    <3> HIDE DEF g
    <3> QED
      BY <2>1, <2>2, FS_Injection
  <2>4. \A i \in 1 .. N : \E m \in c : g[m] = i
    <3> HIDE DEF g, N
    <3> QED
      BY <2>3 DEF Surjection
  <2> QED
    BY <1>1, <1>2, <2>4
<1>6. s = [i \in 1 .. N |-> CHOOSE m \in c : B(m) = i - 1]
  BY DEF InOrder, Below
<1>7. \A i \in 1 .. N : s[i] \in c /\ B(s[i]) = i - 1
  <2> HIDE DEF B, s
  <2> QED
    BY <1>5, <1>6
<1>8. \A m \in c : B(m) + 1 \in 1 .. N /\ s[B(m) + 1] = m
  <2> HIDE DEF B, s
  <2> SUFFICES ASSUME NEW m \in c PROVE B(m) + 1 \in 1 .. N /\ s[B(m) + 1] = m
    OBVIOUS
  <2>1. B(m) + 1 \in 1 .. N /\ (B(m) + 1) - 1 = B(m)
    BY <1>1, <1>2
  <2>2. s[B(m) + 1] \in c /\ B(s[B(m) + 1]) = B(m)
    BY <1>7, <2>1
  <2> QED
    BY <1>4, <2>1, <2>2
<1>9. \A i, j \in 1 .. N : i < j => s[i] < s[j]
  <2> HIDE DEF B, s
  <2>1. \A m, n \in c : B(m) < B(n) => m < n
    <3> SUFFICES ASSUME NEW m \in c, NEW n \in c, B(m) < B(n) PROVE m < n
      OBVIOUS
    <3>1. n < m => B(n) < B(m)
      BY <1>2
    <3> QED
      BY <1>2, <1>3, <3>1
  <2> SUFFICES ASSUME NEW i \in 1 .. N, NEW j \in 1 .. N, i < j PROVE s[i] < s[j]
    OBVIOUS
  <2>2. s[i] \in c /\ B(s[i]) = i - 1
    BY <1>7
  <2>3. s[j] \in c /\ B(s[j]) = j - 1
    BY <1>7
  <2>4. B(s[i]) < B(s[j])
    BY <1>1, <2>2, <2>3
  <2> QED
    BY <2>1, <2>2, <2>3, <2>4
<1>10. s \in Seq(c) /\ Len(s) = N
  <2> HIDE DEF s
  <2> QED
    BY <1>1, <1>6, <1>7
<1> HIDE DEF s, B
<1> QED
  BY <1>1, <1>7, <1>8, <1>9, <1>10 DEF s, B

-----------------------------------------------------------------------------
(* Counting lines *)

\* The places from the a-th to the b-th that hold a line of c; how many they are.
Among(all, c, a, b) == {k \in a .. b : all[k] \in c}
Count(all, c, a, b) == Cardinality(Among(all, c, a, b))

\* A count is a natural number, none of an empty stretch, and none if no place holds a line.
LEMMA CountType ==
    ASSUME NEW all, NEW c, NEW a \in Nat, NEW b \in Int
    PROVE  /\ Count(all, c, a, b) \in Nat /\ IsFiniteSet(Among(all, c, a, b))
           /\ b < a => Count(all, c, a, b) = 0
           /\ Count(all, c, a, b) = 0 => \A k \in a .. b : all[k] \notin c
<1>1. IsFiniteSet(a .. b) /\ Among(all, c, a, b) \in SUBSET (a .. b)
  BY FS_Interval DEF Among
<1>2. IsFiniteSet(Among(all, c, a, b)) /\ Count(all, c, a, b) \in Nat
  BY <1>1, FS_Subset, FS_CardinalityType DEF Count
<1>3. b < a => Among(all, c, a, b) = {}
  BY DEF Among
<1>4. Count(all, c, a, b) = 0 <=> Among(all, c, a, b) = {}
  BY <1>2, FS_EmptySet DEF Count
<1>5. Among(all, c, a, b) = {} => \A k \in a .. b : all[k] \notin c
  BY DEF Among
<1> QED
  BY <1>2, <1>3, <1>4, <1>5

\* Two stretches that follow each other.
LEMMA CountSplits ==
    ASSUME NEW all, NEW c, NEW a \in Nat, NEW m \in Int, NEW b \in Int, a <= m + 1, m <= b
    PROVE  Count(all, c, a, b) = Count(all, c, a, m) + Count(all, c, m + 1, b)
<1>1. m + 1 \in Nat
  OBVIOUS
<1>2. /\ IsFiniteSet(Among(all, c, a, m)) /\ IsFiniteSet(Among(all, c, m + 1, b))
      /\ Count(all, c, a, m) \in Nat /\ Count(all, c, m + 1, b) \in Nat
  BY <1>1, CountType
<1>3. Among(all, c, a, b) = Among(all, c, a, m) \cup Among(all, c, m + 1, b)
  BY DEF Among
<1>4. Among(all, c, a, m) \cap Among(all, c, m + 1, b) = {}
  BY DEF Among
<1>5. Cardinality(Among(all, c, a, b))
        = Cardinality(Among(all, c, a, m)) + Cardinality(Among(all, c, m + 1, b)) - 0
  BY <1>2, <1>3, <1>4, FS_Union, FS_EmptySet
<1> QED
  BY <1>2, <1>5 DEF Count

\* One place more.
LEMMA CountOfOne ==
    ASSUME NEW all, NEW c, NEW a \in Nat, NEW b \in Int, a <= b
    PROVE  Count(all, c, a, b) = Count(all, c, a, b - 1) + (IF all[b] \in c THEN 1 ELSE 0)
<1>1. Count(all, c, a, b) = Count(all, c, a, b - 1) + Count(all, c, (b - 1) + 1, b)
  BY CountSplits
<1>2. (b - 1) + 1 = b
  OBVIOUS
<1>3. Among(all, c, b, b) = IF all[b] \in c THEN {b} ELSE {}
  BY DEF Among
<1>4. Count(all, c, b, b) = IF all[b] \in c THEN 1 ELSE 0
  BY <1>3, FS_EmptySet, FS_Singleton DEF Count
<1> QED
  BY <1>1, <1>2, <1>4

\* Every number up to the count is that of a line, where it was first reached.
LEMMA CountIsReached ==
    ASSUME NEW all, NEW c, NEW a \in Nat, NEW b \in Int, NEW q \in 1 .. Count(all, c, a, b)
    PROVE  \E k \in a .. b : all[k] \in c /\ Count(all, c, a, k) = q
<1> DEFINE T == {n \in Nat : n >= a /\ n <= b /\ Count(all, c, a, n) >= q}
<1>1. Count(all, c, a, b) \in Nat /\ a <= b /\ b \in Nat /\ q \in Nat
  BY CountType
<1>2. PICK k \in T : \A n \in T : k <= n
  <2>1. T \in SUBSET Nat /\ b \in T
    BY <1>1
  <2> HIDE DEF T
  <2> QED
    BY <2>1, LeastNatural
<1>3. /\ k \in Nat /\ k - 1 \in Int /\ a <= k /\ k <= b /\ Count(all, c, a, k) >= q
      /\ Count(all, c, a, k) \in Nat /\ Count(all, c, a, k - 1) \in Nat
  <2>1. k \in Nat /\ k \in Int /\ k - 1 \in Int /\ a <= k /\ k <= b /\ Count(all, c, a, k) >= q
    BY <1>2
  <2> QED
    BY <2>1, CountType
<1>4. Count(all, c, a, k - 1) < q
  <2>1. CASE k = a
    BY <1>1, <1>3, <2>1, CountType
  <2>2. CASE k # a
    <3>1. k - 1 \in Nat /\ k - 1 >= a /\ k - 1 <= b /\ ~ (k <= k - 1)
      BY <1>3, <2>2
    <3>2. k - 1 \notin T
      <4> HIDE DEF T
      <4> QED
        BY <1>2, <3>1
    <3> QED
      BY <1>1, <1>3, <3>1, <3>2
  <2> QED
    BY <2>1, <2>2
<1>5. Count(all, c, a, k) = Count(all, c, a, k - 1) + (IF all[k] \in c THEN 1 ELSE 0)
  BY <1>3, CountOfOne
<1>6. all[k] \in c /\ Count(all, c, a, k) = q
  BY <1>1, <1>3, <1>4, <1>5
<1> QED
  BY <1>1, <1>3, <1>6

-----------------------------------------------------------------------------
(* Reading lines *)

\* What the lines of the master text read.
Texts == {Text[l] : l \in Line}

\* s is what the lines of c read, of those from the a-th to the b-th.
Reads(s, all, c, a, b) ==
    /\ s \in Seq(Texts) /\ Len(s) = Count(all, c, a, b)
    /\ \A k \in a .. b : all[k] \in c => s[Count(all, c, a, k)] = Text[all[k]]

\* The lines of c read one way.
LEMMA ReadsOneWay ==
    ASSUME NEW all, NEW c, NEW a \in Nat, NEW b \in Int, NEW s, NEW t,
           Reads(s, all, c, a, b), Reads(t, all, c, a, b)
    PROVE  s = t
<1>1. /\ s \in Seq(Texts) /\ t \in Seq(Texts)
      /\ Len(s) = Count(all, c, a, b) /\ Len(t) = Count(all, c, a, b)
  BY DEF Reads
<1>2. ASSUME NEW q \in 1 .. Len(s) PROVE s[q] = t[q]
  <2>1. PICK k \in a .. b : all[k] \in c /\ Count(all, c, a, k) = q
    BY <1>1, CountIsReached
  <2> QED
    BY <2>1 DEF Reads
<1> QED
  BY <1>1, <1>2

\* Lines are read the same where the two contents agree.
LEMMA ReadsAlike ==
    ASSUME NEW all, NEW c, NEW d, NEW a \in Nat, NEW b \in Int, NEW s,
           \A k \in a .. b : all[k] \in c <=> all[k] \in d, Reads(s, all, c, a, b)
    PROVE  Reads(s, all, d, a, b) /\ Count(all, c, a, b) = Count(all, d, a, b)
<1>1. \A k \in Int : k <= b => Among(all, c, a, k) = Among(all, d, a, k)
  BY DEF Among
<1>2. \A k \in Int : k <= b => Count(all, c, a, k) = Count(all, d, a, k)
  BY <1>1 DEF Count
<1>3. \A k \in a .. b : k \in Int /\ k <= b
  OBVIOUS
<1> QED
  BY <1>2, <1>3 DEF Reads

\* One stretch after the other.
LEMMA ReadsOn ==
    ASSUME NEW all, NEW c, NEW a \in Nat, NEW m \in Int, NEW b \in Int, a <= m + 1, m <= b,
           NEW s, NEW t, Reads(s, all, c, a, m), Reads(t, all, c, m + 1, b)
    PROVE  Reads(s \o t, all, c, a, b)
<1>1. /\ s \in Seq(Texts) /\ t \in Seq(Texts)
      /\ Len(s) = Count(all, c, a, m) /\ Len(t) = Count(all, c, m + 1, b)
  BY DEF Reads
<1>2. s \o t \in Seq(Texts) /\ Len(s \o t) = Count(all, c, a, b)
  BY <1>1, CountSplits
<1>3. ASSUME NEW k \in a .. b, all[k] \in c
      PROVE  (s \o t)[Count(all, c, a, k)] = Text[all[k]]
  <2>1. k \in Nat /\ k \in Int /\ a <= k /\ k <= b /\ m + 1 \in Nat
    OBVIOUS
  <2>2. CASE k <= m
    <3>1. s[Count(all, c, a, k)] = Text[all[k]]
      BY <1>3, <2>1, <2>2 DEF Reads
    <3>2. /\ Count(all, c, a, k) = Count(all, c, a, k - 1) + 1
          /\ Count(all, c, a, m) = Count(all, c, a, k) + Count(all, c, k + 1, m)
      <4>1. Count(all, c, a, k) = Count(all, c, a, k - 1) + 1
        BY <1>3, <2>1, CountOfOne
      <4>2. a <= k + 1
        BY <2>1
      <4> QED
        BY <2>1, <2>2, <4>1, <4>2, CountSplits
    <3>3. Count(all, c, a, k - 1) \in Nat /\ Count(all, c, k + 1, m) \in Nat
      <4>1. k - 1 \in Int /\ k + 1 \in Nat
        BY <2>1
      <4> QED
        BY <4>1, CountType
    <3>4. Count(all, c, a, k) \in 1 .. Len(s)
      BY <1>1, <3>2, <3>3
    <3> QED
      BY <1>1, <3>1, <3>4
  <2>3. CASE ~ (k <= m)
    <3>1. m + 1 <= k /\ m <= k
      BY <2>1, <2>3
    <3>2. t[Count(all, c, m + 1, k)] = Text[all[k]]
      <4>1. k \in m + 1 .. b
        BY <2>1, <3>1
      <4> QED
        BY <1>3, <4>1 DEF Reads
    <3>3. Count(all, c, a, k) = Count(all, c, a, m) + Count(all, c, m + 1, k)
      BY <2>1, <3>1, CountSplits
    <3>4. /\ Count(all, c, m + 1, k) = Count(all, c, m + 1, k - 1) + 1
          /\ Count(all, c, m + 1, b) = Count(all, c, m + 1, k) + Count(all, c, k + 1, b)
      <4>1. Count(all, c, m + 1, k) = Count(all, c, m + 1, k - 1) + 1
        BY <1>3, <2>1, <3>1, CountOfOne
      <4>2. m + 1 <= k + 1
        BY <2>1, <3>1
      <4> QED
        BY <2>1, <4>1, <4>2, CountSplits
    <3>5. Count(all, c, m + 1, k - 1) \in Nat /\ Count(all, c, k + 1, b) \in Nat
      <4>1. k - 1 \in Int /\ k + 1 \in Nat
        BY <2>1
      <4> QED
        BY <2>1, <4>1, CountType
    <3>6. Count(all, c, m + 1, k) \in 1 .. Len(t)
      BY <1>1, <3>4, <3>5
    <3>7. (s \o t)[Len(s) + Count(all, c, m + 1, k)] = t[Count(all, c, m + 1, k)]
      BY <1>1, <3>6
    <3> QED
      BY <1>1, <3>2, <3>3, <3>7
  <2> QED
    BY <2>2, <2>3
<1> QED
  BY <1>2, <1>3 DEF Reads

\* A stretch in the middle.
LEMMA ReadsPart ==
    ASSUME NEW all, NEW c, NEW top \in Nat, NEW m \in Nat, NEW n \in Nat, m <= n, n <= top,
           NEW s, Reads(s, all, c, 1, top)
    PROVE  /\ Count(all, c, 1, m) <= Count(all, c, 1, n) /\ Count(all, c, 1, n) <= Len(s)
           /\ Reads(SubSeq(s, Count(all, c, 1, m) + 1, Count(all, c, 1, n)), all, c, m + 1, n)
<1> DEFINE p == Count(all, c, 1, m)
           q == Count(all, c, 1, n)
           t == SubSeq(s, p + 1, q)
<1>1. p \in Nat /\ q \in Nat /\ Count(all, c, m + 1, n) \in Nat /\ Count(all, c, n + 1, top) \in Nat
  BY CountType
<1>2. q = p + Count(all, c, m + 1, n) /\ Len(s) = q + Count(all, c, n + 1, top)
  <2>1. q = p + Count(all, c, m + 1, n)
    BY CountSplits
  <2>2. Count(all, c, 1, top) = q + Count(all, c, n + 1, top)
    BY CountSplits
  <2> QED
    BY <2>1, <2>2 DEF Reads
<1>3. s \in Seq(Texts) /\ Len(s) \in Nat /\ p <= q /\ q <= Len(s)
  BY <1>1, <1>2 DEF Reads
<1>4. /\ t \in Seq(Texts) /\ Len(t) = q - p
      /\ \A i \in 1 .. q - p : t[i] = s[p + i]
  <2> HIDE DEF p, q
  <2>1. p + 1 \in 1 .. Len(s) + 1 /\ q \in 0 .. Len(s)
    BY <1>1, <1>3
  <2>2. Len(t) = q - p
    BY <1>1, <1>3
  <2>3. \A i \in 1 .. q - p : t[i] = s[p + i] /\ s[p + i] \in Texts
    BY <1>1, <1>3
  <2> QED
    BY <1>1, <1>3, <2>2, <2>3
<1>5. ASSUME NEW k \in m + 1 .. n, all[k] \in c
      PROVE  t[Count(all, c, m + 1, k)] = Text[all[k]]
  <2> DEFINE r == Count(all, c, m + 1, k)
  <2>1. /\ k \in Nat /\ k \in Int /\ k \in 1 .. top /\ m <= k /\ m + 1 <= k
        /\ k + 1 \in Nat /\ k - 1 \in Int /\ m + 1 \in Nat
    OBVIOUS
  <2>2. s[Count(all, c, 1, k)] = Text[all[k]]
    BY <1>5, <2>1 DEF Reads
  <2>3. Count(all, c, 1, k) = p + r
    BY <2>1, CountSplits
  <2>4. r = Count(all, c, m + 1, k - 1) + 1 /\ Count(all, c, m + 1, k - 1) \in Nat
    <3>1. r = Count(all, c, m + 1, k - 1) + 1
      BY <1>5, <2>1, CountOfOne
    <3> QED
      BY <2>1, <3>1, CountType
  <2>5. Count(all, c, m + 1, n) = r + Count(all, c, k + 1, n) /\ Count(all, c, k + 1, n) \in Nat
    <3>1. m + 1 <= k + 1 /\ k <= n
      BY <2>1
    <3>2. Count(all, c, m + 1, n) = r + Count(all, c, k + 1, n)
      BY <2>1, <3>1, CountSplits
    <3> QED
      BY <2>1, <3>2, CountType
  <2>6. r \in 1 .. q - p
    <3> HIDE DEF r, p, q, t
    <3>1. r \in Nat /\ r >= 1
      BY <2>4
    <3>2. q - p = Count(all, c, m + 1, n)
      BY <1>1, <1>2
    <3>3. r <= q - p /\ q - p \in Nat
      BY <1>1, <2>5, <3>1, <3>2
    <3> QED
      BY <3>1, <3>3
  <2> HIDE DEF r, p, q, t
  <2>7. t[r] = Text[all[k]]
    BY <1>4, <2>2, <2>3, <2>6
  <2> QED
    BY <2>7 DEF r
<1>6. Len(t) = Count(all, c, m + 1, n)
  <2> HIDE DEF p, q, t
  <2> QED
    BY <1>1, <1>2, <1>4
<1> HIDE DEF t
<1>7. Reads(t, all, c, m + 1, n)
  BY <1>4, <1>5, <1>6 DEF Reads
<1> QED
  BY <1>3, <1>7 DEF t

\* Numbers of which each is named once, in their order.
LEMMA RankIsCount ==
    ASSUME NEW both \in SUBSET Nat, IsFiniteSet(both), NEW c \in SUBSET both,
           NEW k \in 1 .. Cardinality(both)
    PROVE  LET all == InOrder(both)
           IN  /\ all[k] \in c => Cardinality(Below(c, all[k])) = Count(all, c, 1, k) - 1
               /\ Cardinality(c) = Count(all, c, 1, Cardinality(both))
<1> DEFINE all == InOrder(both)
           top == Cardinality(both)
<1>1. /\ top \in Nat /\ all \in Seq(both) /\ Len(all) = top
      /\ \A l \in both : \E i \in 1 .. top : all[i] = l
      /\ \A i \in 1 .. top : all[i] \in both
      /\ \A i, j \in 1 .. top : i < j => all[i] < all[j]
  BY InOrderIsSorted, Zenon
<1> HIDE DEF all, top
<1>2. \A i, j \in 1 .. top : /\ all[i] \in Nat /\ all[j] \in Nat /\ i \in Nat /\ j \in Nat
                             /\ (all[i] < all[j] <=> i < j) /\ (all[i] = all[j] => i = j)
  <2> SUFFICES ASSUME NEW i \in 1 .. top, NEW j \in 1 .. top
               PROVE  /\ all[i] \in Nat /\ all[j] \in Nat /\ i \in Nat /\ j \in Nat
                      /\ (all[i] < all[j] <=> i < j) /\ (all[i] = all[j] => i = j)
    OBVIOUS
  <2>1. all[i] \in both /\ all[j] \in both
    BY <1>1
  <2>2. all[i] \in Nat /\ all[j] \in Nat /\ i \in Nat /\ j \in Nat
    <3>1. \A l \in both : l \in Nat
      OBVIOUS
    <3>2. top \in Nat
      BY <1>1
    <3>3. i \in Nat /\ j \in Nat
      BY <3>2
    <3> QED
      BY <2>1, <3>1, <3>3
  <2>3. (i < j => all[i] < all[j]) /\ (j < i => all[j] < all[i])
    BY <1>1
  <2> QED
    BY <2>2, <2>3
<1>3. \* as many places as lines there
      ASSUME NEW n \in 0 .. top, NEW lines,
             \A l : l \in lines <=> l \in c /\ \E i \in 1 .. n : all[i] = l
      PROVE  Cardinality(lines) = Count(all, c, 1, n)
  <2> DEFINE A == Among(all, c, 1, n)
             g == [i \in A |-> all[i]]
  <2>1. \A i \in A : i \in 1 .. top /\ i \in 1 .. n /\ all[i] \in lines
    BY <1>1, <1>3 DEF Among
  <2>2. g \in [A -> lines]
    BY <2>1
  <2>3. \A i, j \in A : g[i] = g[j] => i = j
    BY <1>2, <2>1
  <2>4. \A l \in lines : \E i \in A : g[i] = l
    BY <1>3 DEF Among
  <2>5. IsFiniteSet(A)
    <3>1. n \in Int
      BY <1>1
    <3> QED
      BY <3>1, CountType
  <2>6. ExistsBijection(A, lines)
    <3> HIDE DEF A, g
    <3> QED
      BY <2>2, <2>3, <2>4 DEF ExistsBijection, Bijection, Injection, Surjection, IsInjective
  <2>7. Cardinality(lines) = Cardinality(A)
    <3> HIDE DEF A
    <3> QED
      BY <2>5, <2>6, FS_Bijection
  <2> QED
    BY <2>7 DEF Count
<1>4. Cardinality(c) = Count(all, c, 1, top)
  <2>1. \A l : l \in c <=> l \in c /\ \E i \in 1 .. top : all[i] = l
    BY <1>1
  <2> QED
    BY <1>1, <1>3, <2>1
<1>5. ASSUME all[k] \in c PROVE Cardinality(Below(c, all[k])) = Count(all, c, 1, k) - 1
  <2>1. k \in 1 .. top /\ k - 1 \in 0 .. top /\ k \in Nat
    BY <1>1 DEF top
  <2>2. \A i \in 1 .. top : i \in 1 .. k - 1 <=> i < k
    BY <2>1, <1>1
  <2>3. \A l : l \in Below(c, all[k]) <=> l \in c /\ \E i \in 1 .. k - 1 : all[i] = l
    <3> SUFFICES ASSUME NEW l \in c
                 PROVE  l < all[k] <=> \E i \in 1 .. k - 1 : all[i] = l
      BY DEF Below
    <3>1. PICK j \in 1 .. top : all[j] = l
      BY <1>1
    <3>2. l < all[k] <=> j < k
      BY <1>2, <2>1, <3>1
    <3>3. (\E i \in 1 .. k - 1 : all[i] = l) <=> j \in 1 .. k - 1
      <4>1. \A i \in 1 .. k - 1 : i \in 1 .. top
        BY <2>1, <1>1
      <4> QED
        BY <1>2, <3>1, <4>1
    <3> QED
      BY <2>2, <3>2, <3>3
  <2>4. Cardinality(Below(c, all[k])) = Count(all, c, 1, k - 1)
    BY <1>3, <2>1, <2>3
  <2>5. Count(all, c, 1, k) = Count(all, c, 1, k - 1) + 1
    BY <1>5, <2>1, CountOfOne
  <2>6. Count(all, c, 1, k - 1) \in Nat
    BY <2>1, CountType
  <2> QED
    BY <2>4, <2>5, <2>6
<1> QED
  BY <1>4, <1>5 DEF all, top

\* The lines of a blob, as the places of a longer list count them.
LEMMA BlobReads ==
    ASSUME NEW both \in SUBSET Line, NEW c \in SUBSET both, c \in Contents
    PROVE  Reads(Lines(c), InOrder(both), c, 1, Cardinality(both))
<1> DEFINE all == InOrder(both)
           top == Cardinality(both)
           s == InOrder(c)
<1>1. /\ IsFiniteSet(both) /\ both \in SUBSET Nat /\ IsFiniteSet(c) /\ c \in SUBSET Nat
      /\ c \subseteq Line
  BY LineAssumption, FS_Subset
<1>2. /\ Cardinality(c) \in Nat /\ s \in Seq(c) /\ Len(s) = Cardinality(c)
      /\ \A l \in c : /\ Cardinality(Below(c, l)) + 1 \in 1 .. Cardinality(c)
                      /\ s[Cardinality(Below(c, l)) + 1] = l
  BY <1>1, InOrderIsSorted
<1>3. /\ Cardinality(c) = Count(all, c, 1, top)
      /\ \A k \in 1 .. top :
            all[k] \in c => Cardinality(Below(c, all[k])) = Count(all, c, 1, k) - 1
  <2>1. CASE both = {}
    <3>1. Cardinality(both) = 0 /\ c = {} /\ Cardinality(c) = 0
      BY <2>1, FS_EmptySet
    <3>2. 1 .. top = {} /\ Count(all, c, 1, top) = 0
      <4>1. 0 \in Int /\ 0 < 1
        OBVIOUS
      <4> QED
        BY <3>1, <4>1, CountType
    <3> QED
      BY <3>1, <3>2
  <2>2. CASE both # {}
    <3>1. top \in Nat /\ top # 0
      BY <1>1, <2>2, FS_EmptySet, FS_CardinalityType
    <3>2. 1 \in 1 .. top
      BY <3>1
    <3> HIDE DEF all
    <3> QED
      BY <1>1, <3>2, RankIsCount DEF all
  <2> QED
    BY <2>1, <2>2
<1>4. Lines(c) = [q \in DOMAIN s |-> Text[s[q]]]
  BY GarbledAssumption DEF Lines, Blob
<1> HIDE DEF s, all, top
<1>5. Lines(c) \in Seq(Texts) /\ Len(Lines(c)) = Cardinality(c)
  <2>1. DOMAIN s = 1 .. Cardinality(c) /\ \A q \in 1 .. Cardinality(c) : s[q] \in Line
    <3>1. DOMAIN s = 1 .. Cardinality(c)
      BY DEF s, InOrder
    <3>2. \A q \in 1 .. Cardinality(c) : s[q] \in c
      BY <1>1, InOrderIsSorted DEF s
    <3> QED
      BY <1>1, <3>1, <3>2
  <2> QED
    BY <1>2, <1>4, <2>1 DEF Texts
<1>6. ASSUME NEW k \in 1 .. top, all[k] \in c
      PROVE  Lines(c)[Count(all, c, 1, k)] = Text[all[k]]
  <2>1. Cardinality(Below(c, all[k])) = Count(all, c, 1, k) - 1
    BY <1>3, <1>6
  <2>2. /\ Cardinality(Below(c, all[k])) + 1 \in 1 .. Cardinality(c)
        /\ s[Cardinality(Below(c, all[k])) + 1] = all[k]
    BY <1>2, <1>6
  <2>3. Count(all, c, 1, k) \in Nat
    <3>1. k \in Int
      OBVIOUS
    <3> QED
      BY <3>1, CountType
  <2>4. Count(all, c, 1, k) \in 1 .. Cardinality(c) /\ s[Count(all, c, 1, k)] = all[k]
    BY <2>1, <2>2, <2>3
  <2>5. DOMAIN s = 1 .. Cardinality(c)
    BY DEF s, InOrder
  <2> QED
    BY <1>4, <2>4, <2>5
<1>7. Len(Lines(c)) = Count(all, c, 1, top)
  BY <1>3, <1>5
<1>8. Reads(Lines(c), all, c, 1, top)
  BY <1>5, <1>6, <1>7 DEF Reads
<1> QED
  BY <1>8 DEF all, top

\* Counting from the i-th place on.
From(all, c, i, n) == {u \in 1 .. n : all[i + u - 1] \in c}

\* The lines of c among the n places from the i-th are those Count counts.
LEMMA CountFrom ==
    ASSUME NEW all, NEW c, NEW i \in Nat, NEW n \in Nat
    PROVE  Cardinality(From(all, c, i, n)) = Count(all, c, i, i + n - 1)
<1> DEFINE U == {u \in 1 .. n : all[i + u - 1] \in c}
           A == Among(all, c, i, i + n - 1)
           g == [k \in A |-> k - i + 1]
<1>1. \A k \in A : k \in Nat /\ k >= i /\ k <= i + n - 1 /\ all[k] \in c
  BY DEF Among
<1>2. \A k \in A : k - i + 1 \in 1 .. n /\ i + (k - i + 1) - 1 = k
  BY <1>1
<1>3. g \in [A -> U]
  BY <1>1, <1>2
<1>4. \A k, l \in A : g[k] = g[l] => k = l
  BY <1>1
<1>5. \A u \in U : \E k \in A : g[k] = u
  <2> SUFFICES ASSUME NEW u \in U PROVE i + u - 1 \in A /\ g[i + u - 1] = u
    OBVIOUS
  <2>1. i + u - 1 \in A
    BY DEF Among
  <2>2. (i + u - 1) - i + 1 = u
    OBVIOUS
  <2> QED
    BY <2>1, <2>2
<1>6. IsFiniteSet(A)
  <2>1. i + n - 1 \in Int
    OBVIOUS
  <2> QED
    BY <2>1, CountType
<1> HIDE DEF U, A, g
<1>7. ExistsBijection(A, U)
  BY <1>3, <1>4, <1>5 DEF ExistsBijection, Bijection, Injection, Surjection, IsInjective
<1>8. Cardinality(U) = Cardinality(A)
  BY <1>6, <1>7, FS_Bijection
<1> QED
  BY <1>8 DEF U, A, Count, From

\* The side of a hunk reads the lines of c, if its marks say which these are.
LEMMA SideReads ==
    ASSUME NEW all, NEW c, NEW i \in Nat, NEW j \in Nat, i >= 1, i <= j + 1,
           \A k \in i .. j : all[k] \in Line,
           NEW h, NEW absent, DOMAIN h.body = 1 .. j - i + 1,
           \A u \in 1 .. j - i + 1 : /\ h.body[u][2] = Text[all[i + u - 1]]
                                     /\ h.body[u][1] # absent <=> all[i + u - 1] \in c
    PROVE  Reads(Side(h, absent), all, c, i, j)
<1> DEFINE n == j - i + 1
           K == {u \in 1 .. n : all[i + u - 1] \in c}
           s == InOrder(K)
           side == Side(h, absent)
<1>1. n \in Nat /\ i + n - 1 = j
  OBVIOUS
<1>2. K \in SUBSET Nat /\ IsFiniteSet(K)
  <2>1. K \in SUBSET (1 .. n) /\ IsFiniteSet(1 .. n)
    BY <1>1, FS_Interval
  <2> QED
    BY <2>1, FS_Subset
<1>3. {u \in DOMAIN h.body : h.body[u][1] # absent} = K
  OBVIOUS
<1>4. side = [q \in DOMAIN s |-> h.body[s[q]][2]]
  BY <1>3 DEF Side
<1>5. Cardinality(K) = Count(all, c, i, j)
  <2>1. K = From(all, c, i, n)
    BY DEF From
  <2> HIDE DEF n, K
  <2> QED
    BY <1>1, <2>1, CountFrom
<1>6. \A u \in K : u \in 1 .. n /\ all[i + u - 1] \in c /\ h.body[u][2] = Text[all[i + u - 1]]
                   /\ h.body[u][2] \in Texts
  <2> SUFFICES ASSUME NEW u \in K
               PROVE  /\ u \in 1 .. n /\ all[i + u - 1] \in c
                      /\ h.body[u][2] = Text[all[i + u - 1]] /\ h.body[u][2] \in Texts
    OBVIOUS
  <2>1. u \in 1 .. n /\ all[i + u - 1] \in c
    OBVIOUS
  <2>2. i + u - 1 \in i .. j
    BY <2>1
  <2>3. h.body[u][2] = Text[all[i + u - 1]] /\ all[i + u - 1] \in Line
    BY <2>1, <2>2
  <2> QED
    BY <2>1, <2>3 DEF Texts
<1>7. ASSUME NEW k \in i .. j, all[k] \in c
      PROVE  /\ k - i + 1 \in K
             /\ Cardinality(Below(K, k - i + 1)) = Count(all, c, i, k) - 1
  <2>1. k - i + 1 \in 1 .. n /\ i + (k - i + 1) - 1 = k /\ k \in Int /\ i <= k
    OBVIOUS
  <2>2. k - i + 1 \in K
    BY <1>7, <2>1
  <2>3. Below(K, k - i + 1) = {u \in 1 .. k - i : all[i + u - 1] \in c}
    <3>1. \A u \in 1 .. n : u < k - i + 1 <=> u \in 1 .. k - i
      BY <1>1, <2>1
    <3>2. 1 .. k - i \subseteq 1 .. n
      BY <1>1, <2>1
    <3> HIDE DEF n
    <3> QED
      BY <3>1, <3>2 DEF Below
  <2>4. Cardinality(Below(K, k - i + 1)) = Count(all, c, i, k - 1)
    <3> DEFINE z == k - i
    <3>1. z \in Nat /\ i + z - 1 = k - 1
      BY <2>1
    <3>2. Below(K, k - i + 1) = From(all, c, i, z)
      BY <2>3 DEF From
    <3> HIDE DEF z
    <3> QED
      BY <3>1, <3>2, CountFrom
  <2>5. Count(all, c, i, k) = Count(all, c, i, k - 1) + 1
    BY <1>7, <2>1, CountOfOne
  <2>6. Count(all, c, i, k - 1) \in Nat
    <3>1. k - 1 \in Int
      BY <2>1
    <3> QED
      BY <3>1, CountType
  <2> QED
    BY <2>2, <2>4, <2>5, <2>6
<1> HIDE DEF K, n
<1>8. /\ Cardinality(K) \in Nat /\ s \in Seq(K) /\ Len(s) = Cardinality(K)
      /\ \A l \in K : /\ Cardinality(Below(K, l)) + 1 \in 1 .. Cardinality(K)
                      /\ s[Cardinality(Below(K, l)) + 1] = l
  BY <1>2, InOrderIsSorted
<1>9. side \in Seq(Texts) /\ Len(side) = Count(all, c, i, j)
  <2>1. DOMAIN s = 1 .. Cardinality(K) /\ \A q \in 1 .. Cardinality(K) : s[q] \in K
    <3>1. DOMAIN s = 1 .. Cardinality(K)
      BY DEF InOrder
    <3> HIDE DEF s
    <3> QED
      BY <1>8, <3>1
  <2> HIDE DEF s, side
  <2>2. \A q \in 1 .. Cardinality(K) : h.body[s[q]][2] \in Texts
    BY <1>6, <2>1
  <2> QED
    <3>1. Cardinality(K) \in Nat
      BY <1>8
    <3>2. side \in [1 .. Cardinality(K) -> Texts]
      BY <1>4, <2>1, <2>2
    <3> QED
      BY <1>5, <3>1, <3>2
<1>10. ASSUME NEW k \in i .. j, all[k] \in c
       PROVE  side[Count(all, c, i, k)] = Text[all[k]]
  <2> DEFINE u == k - i + 1
             q == Count(all, c, i, k)
  <2>1. u \in K /\ Cardinality(Below(K, u)) = q - 1 /\ i + u - 1 = k
    BY <1>7, <1>10
  <2>2. q \in Nat
    <3>1. k \in Int
      OBVIOUS
    <3> QED
      BY <3>1, CountType
  <2> HIDE DEF u, q, s, side
  <2>3. q \in 1 .. Cardinality(K) /\ s[q] = u
    <3>1. Cardinality(Below(K, u)) + 1 = q
      BY <2>1, <2>2
    <3> QED
      BY <1>8, <2>1, <3>1
  <2>4. DOMAIN s = 1 .. Cardinality(K)
    BY DEF s, InOrder
  <2>5. side[q] = Text[all[k]]
    BY <1>4, <1>6, <2>1, <2>3, <2>4
  <2> QED
    BY <2>5 DEF q
<1> HIDE DEF side
<1>11. Reads(side, all, c, i, j)
  BY <1>9, <1>10 DEF Reads
<1> QED
  BY <1>11 DEF side

-----------------------------------------------------------------------------
(* The handler's own application of hunks *)

\* Behind what has been put out, up to the m-th place, a hunk from the i-th place to
\* the j-th can be applied to the lines of S; T is its other side, E the result.
Applicable(all, top, S, T, E, lines, h, rev, output, m, i, j) ==
    /\ m \in Nat /\ i \in Nat /\ j \in Nat /\ m < i /\ i <= j /\ j <= top
    /\ Reads(lines, all, S, 1, top) /\ Reads(output, all, E, 1, m)
    /\ Reads(SourceLines(h, rev), all, S, i, j) /\ Reads(TargetLines(h, rev), all, T, i, j)
    /\ (IF rev THEN h.new_start ELSE h.old_start)
         = Count(all, S, 1, i - 1) + (IF Count(all, S, i, j) = 0 THEN 0 ELSE 1)
    /\ Count(all, S, i, j) = 0 => Count(all, S, 1, i - 1) = 0
    /\ \A k \in m + 1 .. i - 1 : all[k] \in S <=> all[k] \in E
    /\ \A k \in i .. j : all[k] \in T <=> all[k] \in E

\* A hunk that is applied to the lines it was made of, behind what an earlier one
\* has put out.  S is what the blob has, T the hunk's other side, E the result.
LEMMA SpliceOfHunk ==
    ASSUME NEW all, NEW top \in Nat, NEW S, NEW T, NEW E, NEW lines, NEW h, NEW rev, NEW output,
           NEW m, NEW i, NEW j,
           Applicable(all, top, S, T, E, lines, h, rev, output, m, i, j)
    PROVE  \E o : /\ Splice(h, rev, lines, [cursor |-> Count(all, S, 1, m), output |-> output])
                       = [cursor |-> Count(all, S, 1, j), output |-> o]
                  /\ Reads(o, all, E, 1, j)
<1> SUFFICES ASSUME m \in Nat, i \in Nat, j \in Nat, m < i, i <= j, j <= top,
                    Reads(lines, all, S, 1, top), Reads(output, all, E, 1, m),
                    Reads(SourceLines(h, rev), all, S, i, j),
                    Reads(TargetLines(h, rev), all, T, i, j),
                    (IF rev THEN h.new_start ELSE h.old_start)
                      = Count(all, S, 1, i - 1) + (IF Count(all, S, i, j) = 0 THEN 0 ELSE 1),
                    Count(all, S, i, j) = 0 => Count(all, S, 1, i - 1) = 0,
                    \A k \in m + 1 .. i - 1 : all[k] \in S <=> all[k] \in E,
                    \A k \in i .. j : all[k] \in T <=> all[k] \in E
             PROVE  \E o : /\ Splice(h, rev, lines,
                                     [cursor |-> Count(all, S, 1, m), output |-> output])
                                = [cursor |-> Count(all, S, 1, j), output |-> o]
                           /\ Reads(o, all, E, 1, j)
  BY Zenon DEF Applicable
<1> DEFINE start_line == IF rev THEN h.new_start ELSE h.old_start
           start == IF start_line = 0 THEN 0 ELSE start_line - 1
           source == SourceLines(h, rev)
           end == start + Len(source)
           done == [cursor |-> Count(all, S, 1, m), output |-> output]
           between == SubSeq(lines, Count(all, S, 1, m) + 1, start)
           o == output \o between \o TargetLines(h, rev)
<1>1. /\ i - 1 \in Nat /\ i - 1 <= top /\ m <= i - 1 /\ (i - 1) + 1 = i /\ i - 1 <= j
      /\ j \in Int /\ i - 1 \in Int /\ m \in Int /\ 1 \in Nat
  OBVIOUS
<1>2. /\ Count(all, S, 1, m) \in Nat /\ Count(all, S, 1, i - 1) \in Nat
      /\ Count(all, S, i, j) \in Nat /\ Count(all, S, 1, j) \in Nat
  BY <1>1, CountType
<1>3. start = Count(all, S, 1, i - 1)
  <2>1. CASE Count(all, S, i, j) = 0
    BY <2>1
  <2>2. CASE Count(all, S, i, j) # 0
    BY <1>2, <2>2
  <2> QED
    BY <2>1, <2>2
<1>4. Len(source) = Count(all, S, i, j) /\ source \in Seq(Texts)
  BY DEF Reads
<1> HIDE DEF start, source
<1>5. Count(all, S, 1, j) = Count(all, S, 1, i - 1) + Count(all, S, i, j)
  <2>1. 1 <= (i - 1) + 1
    BY <1>1
  <2> DEFINE p == i - 1
  <2>3. p \in Int /\ 1 <= p + 1 /\ p <= j /\ 1 \in Nat /\ j \in Int
    BY <1>1, <2>1
  <2> HIDE DEF p
  <2>2. Count(all, S, 1, j) = Count(all, S, 1, p) + Count(all, S, p + 1, j)
    BY <2>3, CountSplits
  <2> QED
    BY <1>1, <2>2 DEF p
<1>6. end = Count(all, S, 1, j)
  BY <1>3, <1>4, <1>5
<1>7. /\ Count(all, S, 1, i - 1) <= Count(all, S, 1, j) /\ Count(all, S, 1, j) <= Len(lines)
      /\ Reads(SubSeq(lines, Count(all, S, 1, i - 1) + 1, Count(all, S, 1, j)),
               all, S, (i - 1) + 1, j)
  BY <1>1, ReadsPart
<1>8. /\ Count(all, S, 1, m) <= Count(all, S, 1, i - 1)
      /\ Reads(SubSeq(lines, Count(all, S, 1, m) + 1, Count(all, S, 1, i - 1)),
               all, S, m + 1, i - 1)
  BY <1>1, ReadsPart
<1>9. SubSeq(lines, start + 1, end) = source
  <2>1. Reads(SubSeq(lines, start + 1, end), all, S, i, j)
    BY <1>1, <1>3, <1>6, <1>7
  <2>2. Reads(source, all, S, i, j)
    BY DEF source
  <2> HIDE DEF end
  <2> QED
    BY <1>1, <2>1, <2>2, ReadsOneWay
<1>10. Reads(o, all, E, 1, j)
  <2>1. Reads(between, all, E, m + 1, i - 1)
    <3>1. Reads(between, all, S, m + 1, i - 1)
      BY <1>3, <1>8
    <3>2. m + 1 \in Nat
      OBVIOUS
    <3> HIDE DEF between
    <3> QED
      BY <1>1, <3>1, <3>2, ReadsAlike
  <2>2. Reads(output \o between, all, E, 1, i - 1)
    <3> HIDE DEF between
    <3> QED
      BY <1>1, <2>1, ReadsOn
  <2>3. Reads(TargetLines(h, rev), all, E, i, j)
    BY <1>1, ReadsAlike
  <2>4. Reads(TargetLines(h, rev), all, E, (i - 1) + 1, j)
    BY <1>1, <2>3
  <2> HIDE DEF between
  <2> QED
    BY <1>1, <2>2, <2>4, ReadsOn
<1>11. done # None
  <2>1. output \in Seq({Text[l] : l \in Line})
    BY DEF Reads, Texts
  <2> QED
    BY <1>2, <2>1, NoneAssumption
<1>12. Splice(h, rev, lines, done) = [cursor |-> end, output |-> o]
  <2>1. done.cursor = Count(all, S, 1, m) /\ done.output = output
    OBVIOUS
  <2>2. start >= done.cursor /\ end <= Len(lines)
    BY <1>2, <1>3, <1>6, <1>7, <1>8, <2>1
  <2> HIDE DEF done, end
  <2>3. Splice(h, rev, lines, done)
          = [cursor |-> end,
             output |-> done.output \o SubSeq(lines, done.cursor + 1, start)
                                    \o TargetLines(h, rev)]
    BY <1>9, <1>11, <2>2 DEF Splice, start, end, source
  <2> QED
    BY <2>1, <2>3
<1> HIDE DEF o, end
<1> QED
  BY <1>6, <1>10, <1>12

-----------------------------------------------------------------------------
(* Hunk by hunk *)

\* f is what the fold over the hunks yields, up to the n-th.
Splicing(f, lines, hunks, rev, n) ==
    f = [k \in 0 .. n |-> IF k = 0 THEN [cursor |-> 0, output |-> <<>>]
                          ELSE Splice(hunks[k], rev, lines, f[k - 1])]

\* Any number of hunks can be spliced, one after the other.
LEMMA SplicingExists ==
    ASSUME NEW lines, NEW hunks, NEW rev
    PROVE  \A n \in Nat : \E f : Splicing(f, lines, hunks, rev, n)
<1> DEFINE T == {n \in Nat : ~ \E f : Splicing(f, lines, hunks, rev, n)}
<1> SUFFICES ASSUME T # {} PROVE FALSE
  OBVIOUS
<1>1. PICK n \in T : \A m \in T : n <= m
  <2>1. T \in SUBSET Nat
    OBVIOUS
  <2> HIDE DEF T
  <2> QED
    BY <2>1, LeastNatural
<1>2. n # 0
  <2>1. Splicing([k \in 0 .. 0 |-> [cursor |-> 0, output |-> <<>>]], lines, hunks, rev, 0)
    BY DEF Splicing
  <2> QED
    BY <2>1
<1>3. PICK f : Splicing(f, lines, hunks, rev, n - 1)
  BY <1>1, <1>2
<1> DEFINE next(e, k) == Splice(hunks[k], rev, lines, e[k - 1])
           g == [k \in 0 .. n |-> IF k < n THEN f[k] ELSE next(f, n)]
<1>4. ASSUME NEW k \in 0 .. n
      PROVE  g[k] = IF k = 0 THEN [cursor |-> 0, output |-> <<>>] ELSE next(g, k)
  <2>1. CASE k < n
    <3>1. g[k] = f[k] /\ (k # 0 => g[k - 1] = f[k - 1])
      BY <2>1
    <3>2. k \in 0 .. n - 1
      BY <2>1
    <3>3. f[k] = IF k = 0 THEN [cursor |-> 0, output |-> <<>>] ELSE next(f, k)
      BY <1>3, <3>2 DEF Splicing
    <3> HIDE DEF g
    <3> QED
      BY <3>1, <3>3
  <2>2. CASE k = n
    <3>1. g[k] = next(f, n) /\ g[n - 1] = f[n - 1]
      BY <1>2, <2>2
    <3> HIDE DEF g
    <3> QED
      BY <1>2, <2>2, <3>1
  <2> QED
    BY <2>1, <2>2
<1>5. Splicing(g, lines, hunks, rev, n)
  BY <1>4, Zenon DEF Splicing
<1> QED
  BY <1>5

\* What a property of every prefix must satisfy.
LEMMA SpliceSteps ==
    ASSUME NEW lines, NEW hunks, NEW rev, Len(hunks) \in Nat
    PROVE  \E f : /\ f[0] = [cursor |-> 0, output |-> <<>>]
                  /\ \A k \in 1 .. Len(hunks) : f[k] = Splice(hunks[k], rev, lines, f[k - 1])
                  /\ apply_selected_hunks_to_blob(lines, hunks, rev)
                       = IF f[Len(hunks)] = None THEN None
                         ELSE f[Len(hunks)].output
                                \o SubSeq(lines, f[Len(hunks)].cursor + 1, Len(lines))
<1> DEFINE f == CHOOSE f : Splicing(f, lines, hunks, rev, Len(hunks))
<1>1. Splicing(f, lines, hunks, rev, Len(hunks))
  BY SplicingExists
<1>2. apply_selected_hunks_to_blob(lines, hunks, rev)
        = IF f[Len(hunks)] = None THEN None
          ELSE f[Len(hunks)].output \o SubSeq(lines, f[Len(hunks)].cursor + 1, Len(lines))
  BY DEF apply_selected_hunks_to_blob, Splicing
<1> HIDE DEF f
<1>3. /\ f[0] = [cursor |-> 0, output |-> <<>>]
      /\ \A k \in 1 .. Len(hunks) : f[k] = Splice(hunks[k], rev, lines, f[k - 1])
  <2>1. \A k \in 0 .. Len(hunks) :
           f[k] = IF k = 0 THEN [cursor |-> 0, output |-> <<>>]
                  ELSE Splice(hunks[k], rev, lines, f[k - 1])
    BY <1>1, Zenon DEF Splicing
  <2> QED
    BY <2>1
<1> QED
  BY <1>2, <1>3

-----------------------------------------------------------------------------
(* The hunks of a diff *)

\* Both versions of the lines, and the places that have a change near.
Changed(old, new, i) == InOrder(old \cup new)[i] \notin old \cap new
Near(old, new, i) ==
    \E d \in 0 .. Context :
        \/ i - d >= 1 /\ Changed(old, new, i - d)
        \/ i + d <= Len(InOrder(old \cup new)) /\ Changed(old, new, i + d)
NearPlaces(old, new) == {i \in 1 .. Len(InOrder(old \cup new)) : Near(old, new, i)}

\* A stretch of such places, as long as it goes.
IsRun(old, new, i, j) ==
    /\ i \in NearPlaces(old, new) /\ j \in NearPlaces(old, new) /\ i <= j
    /\ i .. j \subseteq NearPlaces(old, new)
    /\ i - 1 \notin NearPlaces(old, new) /\ j + 1 \notin NearPlaces(old, new)

\* A content of a file is a part of its master text that has all its anchors.
LEMMA ContentShape ==
    ASSUME NEW f \in File, NEW c
    PROVE  c \in Content(f) <=> c \subseteq Present(f) /\ Present(f) \cap Anchor \subseteq c
<1>1. c \in Content(f) => c \subseteq Present(f) /\ Present(f) \cap Anchor \subseteq c
  BY DEF Content
<1>2. ASSUME c \subseteq Present(f), Present(f) \cap Anchor \subseteq c PROVE c \in Content(f)
  <2>1. /\ Present(f) \ c \in SUBSET (Present(f) \ Anchor)
        /\ c = Present(f) \ (Present(f) \ c)
    BY <1>2
  <2> QED
    BY <2>1 DEF Content
<1> QED
  BY <1>1, <1>2

\* The lines of two contents, in their order.
LEMMA BothVersions ==
    ASSUME NEW f \in File, NEW old \in Content(f), NEW new \in Content(f)
    PROVE  LET both == old \cup new
               all == InOrder(both)
           IN  /\ both \in SUBSET Line /\ both \in SUBSET Nat /\ IsFiniteSet(both)
               /\ both \subseteq Present(f)
               /\ Cardinality(both) \in Nat /\ Len(all) = Cardinality(both)
               /\ \A k \in 1 .. Cardinality(both) : all[k] \in both
               /\ \A k, l \in 1 .. Cardinality(both) : all[k] = all[l] => k = l
<1> DEFINE both == old \cup new
           all == InOrder(both)
<1>1. both \subseteq Present(f)
  BY ContentShape
<1>2. both \in SUBSET Line /\ both \in SUBSET Nat /\ IsFiniteSet(both)
  BY <1>1, LineAssumption, FS_Subset DEF Present
<1>3. /\ Cardinality(both) \in Nat /\ Len(all) = Cardinality(both)
      /\ \A k \in 1 .. Cardinality(both) : all[k] \in both
      /\ \A k, l \in 1 .. Cardinality(both) : k < l => all[k] < all[l]
  BY <1>2, InOrderIsSorted, Zenon
<1> HIDE DEF both, all
<1>4. ASSUME NEW k \in 1 .. Cardinality(both), NEW l \in 1 .. Cardinality(both), all[k] = all[l]
      PROVE  k = l
  <2>1. all[k] \in Nat /\ ~ (all[k] < all[k])
    <3>1. \A n \in both : n \in Nat /\ ~ (n < n)
      BY <1>2
    <3> QED
      BY <1>3, <3>1
  <2>2. ~ (k < l) /\ ~ (l < k)
    BY <1>3, <1>4, <2>1
  <2> QED
    BY <1>3, <2>2
<1> QED
  BY <1>1, <1>2, <1>3, <1>4 DEF both, all

\* The hunks are the runs.
LEMMA HunksAreRuns ==
    ASSUME NEW f, NEW old, NEW new, NEW h
    PROVE  h \in HunksBetween(f, old, new)
             <=> \E i, j : IsRun(old, new, i, j) /\ h = Hunk(f, old, new, i, j)
<1> DEFINE near == NearPlaces(old, new)
           Runs == {r \in near \X near :
                       /\ r[1] <= r[2] /\ r[1] .. r[2] \subseteq near
                       /\ r[1] - 1 \notin near /\ r[2] + 1 \notin near}
<1>1. HunksBetween(f, old, new) = {Hunk(f, old, new, r[1], r[2]) : r \in Runs}
  BY DEF HunksBetween, NearPlaces, Near, Changed
<1>2. ASSUME NEW r \in Runs PROVE IsRun(old, new, r[1], r[2])
  BY DEF IsRun
<1>3. ASSUME NEW i, NEW j, IsRun(old, new, i, j) PROVE <<i, j>> \in Runs
  BY <1>3 DEF IsRun
<1> HIDE DEF Runs
<1>4. ASSUME NEW i, NEW j, IsRun(old, new, i, j), h = Hunk(f, old, new, i, j)
      PROVE  \E r \in Runs : h = Hunk(f, old, new, r[1], r[2])
  <2>1. <<i, j>> \in Runs /\ <<i, j>>[1] = i /\ <<i, j>>[2] = j
    BY <1>3, <1>4
  <2> QED
    BY <1>4, <2>1
<1> QED
  BY <1>1, <1>2, <1>4

\* Two runs do not overlap.
LEMMA RunsApart ==
    ASSUME NEW old, NEW new, NEW i, NEW j, NEW k, NEW l,
           Len(InOrder(old \cup new)) \in Nat,
           IsRun(old, new, i, j), IsRun(old, new, k, l)
    PROVE  /\ i \in Nat /\ j \in Nat /\ 1 <= i /\ i <= j /\ j <= Len(InOrder(old \cup new))
           /\ i < k => j < k
<1> DEFINE near == NearPlaces(old, new)
<1>1. /\ i \in near /\ j \in near /\ k \in near /\ l \in near /\ i <= j /\ k <= l
      /\ i .. j \subseteq near /\ k .. l \subseteq near
      /\ k - 1 \notin near /\ j + 1 \notin near /\ l + 1 \notin near
  BY DEF IsRun
<1>2. near \subseteq 1 .. Len(InOrder(old \cup new))
  BY DEF NearPlaces
<1> HIDE DEF near
<1>3. /\ i \in Nat /\ j \in Nat /\ k \in Nat /\ l \in Nat /\ 1 <= i
      /\ j <= Len(InOrder(old \cup new))
  <2>1. /\ i \in 1 .. Len(InOrder(old \cup new)) /\ j \in 1 .. Len(InOrder(old \cup new))
        /\ k \in 1 .. Len(InOrder(old \cup new)) /\ l \in 1 .. Len(InOrder(old \cup new))
    BY <1>1, <1>2
  <2> QED
    BY <2>1
<1>4. ASSUME i < k PROVE j < k
  <2>1. ~ (j < k) => k - 1 \in i .. j
    BY <1>1, <1>3, <1>4
  <2> QED
    BY <1>1, <1>3, <2>1
<1> QED
  BY <1>1, <1>3, <1>4

\* A run is known by its first place.
LEMMA RunsStartApart ==
    ASSUME NEW old, NEW new, NEW i, NEW j, NEW l, Len(InOrder(old \cup new)) \in Nat,
           IsRun(old, new, i, j), IsRun(old, new, i, l)
    PROVE  j = l
<1> DEFINE near == NearPlaces(old, new)
<1>1. /\ j \in near /\ l \in near /\ i <= j /\ i <= l /\ i \in near
      /\ i .. j \subseteq near /\ i .. l \subseteq near
      /\ j + 1 \notin near /\ l + 1 \notin near
  BY DEF IsRun
<1>2. near \subseteq 1 .. Len(InOrder(old \cup new))
  BY DEF NearPlaces
<1> HIDE DEF near
<1>3. i \in Nat /\ j \in Nat /\ l \in Nat
  BY <1>1, <1>2
<1>4. j < l => j + 1 \in i .. l
  BY <1>1, <1>3
<1>5. l < j => l + 1 \in i .. j
  BY <1>1, <1>3
<1> QED
  BY <1>1, <1>3, <1>4, <1>5

\* A hunk whose lines one version has none of is at the top, if there is context:
\* a line before it would have a change near.
LEMMA NothingAtTheTop ==
    ASSUME NEW old, NEW new, NEW c \in {old, new}, NEW i, NEW j,
           Len(InOrder(old \cup new)) \in Nat, Context > 0,
           IsRun(old, new, i, j), Count(InOrder(old \cup new), c, i, j) = 0
    PROVE  i = 1
<1> DEFINE all == InOrder(old \cup new)
<1>1. i \in Nat /\ j \in Nat /\ 1 <= i /\ i <= j /\ j <= Len(all)
  BY RunsApart
<1>2. all[i] \notin c
  <2>1. i \in i .. j /\ j \in Int
    BY <1>1
  <2> QED
    BY <1>1, <2>1, CountType
<1>3. Changed(old, new, i)
  BY <1>2 DEF Changed
<1>4. ASSUME i # 1 PROVE i - 1 \in NearPlaces(old, new)
  <2>1. 1 \in 0 .. Context /\ (i - 1) + 1 = i
    BY <1>1, ContextAssumption
  <2>2. (i - 1) + 1 <= Len(all) /\ Changed(old, new, (i - 1) + 1)
    BY <1>1, <1>3, <2>1
  <2>3. Near(old, new, i - 1)
    BY <2>1, <2>2 DEF Near
  <2>4. i - 1 \in 1 .. Len(all)
    BY <1>1, <1>4
  <2> QED
    BY <2>3, <2>4 DEF NearPlaces
<1> QED
  BY <1>4 DEF IsRun

\* A hunk, applied to the version S that it was made of; T is the other.
LEMMA HunkReads ==
    ASSUME NEW f \in File, NEW old \in Content(f), NEW new \in Content(f), NEW rev \in BOOLEAN,
           NEW i, NEW j, IsRun(old, new, i, j), Context > 0,
           NEW all, all = InOrder(old \cup new),
           NEW h, h = Hunk(f, old, new, i, j),
           NEW S, S = IF rev THEN new ELSE old,
           NEW T, T = IF rev THEN old ELSE new
    PROVE  /\ Reads(SourceLines(h, rev), all, S, i, j)
           /\ Reads(TargetLines(h, rev), all, T, i, j)
           /\ (IF rev THEN h.new_start ELSE h.old_start)
                = Count(all, S, 1, i - 1) + (IF Count(all, S, i, j) = 0 THEN 0 ELSE 1)
           /\ Count(all, S, i, j) = 0 => Count(all, S, 1, i - 1) = 0
<1> DEFINE Sign(l) == IF l \notin new THEN "-" ELSE IF l \notin old THEN "+" ELSE " "
           start(c) == Count(all, c, 1, i - 1) + IF Count(all, c, i, j) = 0 THEN 0 ELSE 1
<1>1. /\ old \cup new \in SUBSET Line /\ Len(all) = Cardinality(old \cup new)
      /\ Len(all) \in Nat /\ \A k \in 1 .. Len(all) : all[k] \in old \cup new
  <2>1. /\ old \cup new \in SUBSET Line /\ Len(all) = Cardinality(old \cup new)
        /\ Cardinality(old \cup new) \in Nat
        /\ \A k \in 1 .. Cardinality(old \cup new) : all[k] \in old \cup new
    BY BothVersions, Zenon
  <2> QED
    BY <2>1
<1>2. i \in Nat /\ j \in Nat /\ 1 <= i /\ i <= j /\ j <= Len(all)
  BY <1>1, RunsApart
<1>3. /\ h.old_start = start(old) /\ h.new_start = start(new)
      /\ h.body = [k \in 1 .. j - i + 1 |-> <<Sign(all[i + k - 1]), Text[all[i + k - 1]]>>]
  BY DEF Hunk, Count, Among
<1>4. \A k \in i .. j : all[k] \in Line /\ all[k] \in old \cup new
  <2>1. \A k \in i .. j : k \in 1 .. Len(all)
    BY <1>1, <1>2
  <2> QED
    BY <1>1, <2>1
<1>5. i <= j + 1 /\ i >= 1
  BY <1>2
<1>6. DOMAIN h.body = 1 .. j - i + 1
  BY <1>3
<1>7. ASSUME NEW u \in 1 .. j - i + 1
      PROVE  /\ h.body[u][2] = Text[all[i + u - 1]]
             /\ h.body[u][1] # "+" <=> all[i + u - 1] \in old
             /\ h.body[u][1] # "-" <=> all[i + u - 1] \in new
  <2>1. i + u - 1 \in i .. j
    BY <1>2
  <2>2. all[i + u - 1] \in old \cup new
    BY <1>4, <2>1
  <2>3. h.body[u] = <<Sign(all[i + u - 1]), Text[all[i + u - 1]]>>
    BY <1>3
  <2>4. h.body[u][1] = Sign(all[i + u - 1]) /\ h.body[u][2] = Text[all[i + u - 1]]
    <3> HIDE DEF Sign
    <3> QED
      BY <2>3
  <2>5. /\ (Sign(all[i + u - 1]) # "+") <=> all[i + u - 1] \in old
        /\ (Sign(all[i + u - 1]) # "-") <=> all[i + u - 1] \in new
    BY <2>2
  <2> HIDE DEF Sign
  <2> QED
    BY <2>4, <2>5
<1>8. Reads(Side(h, "+"), all, old, i, j)
  BY <1>2, <1>4, <1>5, <1>6, <1>7, SideReads
<1>9. Reads(Side(h, "-"), all, new, i, j)
  BY <1>2, <1>4, <1>5, <1>6, <1>7, SideReads
<1>10. Reads(SourceLines(h, rev), all, S, i, j) /\ Reads(TargetLines(h, rev), all, T, i, j)
  BY <1>8, <1>9 DEF SourceLines, TargetLines
<1>11. (IF rev THEN h.new_start ELSE h.old_start) = start(S)
  BY <1>3
<1>12. ASSUME Count(all, S, i, j) = 0 PROVE Count(all, S, 1, i - 1) = 0
  <2>1. S \in {old, new}
    OBVIOUS
  <2>2. i = 1
    BY <1>1, <1>12, <2>1, NothingAtTheTop
  <2>3. i - 1 \in Int /\ i - 1 < 1
    BY <2>2
  <2> QED
    BY <2>3, CountType
<1> QED
  BY <1>10, <1>11, <1>12

\* The hunks of a set that are of one file are hunks of its two versions.
AreOf(H, f, old, new) == \A h \in H : h.file = f => h \in HunksBetween(f, old, new)

\* They are listed, from where to where each is, in the order of their places.
Listing(hs, H, f, old, new, lo, hi) ==
    /\ Len(hs) \in Nat
    /\ \A k \in 1 .. Len(hs) : /\ IsRun(old, new, lo[k], hi[k])
                               /\ hs[k] = Hunk(f, old, new, lo[k], hi[k])
                               /\ hs[k] \in H /\ hs[k].file = f
    /\ \A k, l \in 1 .. Len(hs) : k < l => lo[k] < lo[l]
    /\ \A h \in H : h.file = f => \E k \in 1 .. Len(hs) : hs[k] = h

\* OfFile lists the hunks of its file, each once, in the order of the lines.
LEMMA OfFileInOrder ==
    ASSUME NEW f \in File, NEW old \in Content(f), NEW new \in Content(f), NEW H,
           AreOf(H, f, old, new)
    PROVE  \E lo, hi : Listing(OfFile(H, f), H, f, old, new, lo, hi)
<1> DEFINE hs == OfFile(H, f)
           mine == {h \in H : h.file = f}
           fs == {h.first : h \in mine}
           firsts == InOrder(fs)
           n == Cardinality(fs)
           lo == [k \in 1 .. n |-> hs[k].first]
           hi == [k \in 1 .. n |-> CHOOSE j : /\ IsRun(old, new, lo[k], j)
                                              /\ hs[k] = Hunk(f, old, new, lo[k], j)]
<1>1. Len(InOrder(old \cup new)) \in Nat
  <2>1. /\ Len(InOrder(old \cup new)) = Cardinality(old \cup new)
        /\ Cardinality(old \cup new) \in Nat
    BY BothVersions, Zenon
  <2> QED
    BY <2>1
<1>15. ASSUME NEW x, NEW i, NEW j, IsRun(old, new, x, i), IsRun(old, new, x, j) PROVE i = j
  BY <1>1, <1>15, RunsStartApart
<1>2. \A h \in mine : \E i, j : IsRun(old, new, i, j) /\ h = Hunk(f, old, new, i, j)
  BY HunksAreRuns DEF AreOf
<1>3. \A i, j : Hunk(f, old, new, i, j).first = i
  BY DEF Hunk
<1>4. \A h \in mine : /\ \E j : /\ IsRun(old, new, h.first, j)
                                /\ h = Hunk(f, old, new, h.first, j)
                      /\ h.first \in 1 .. Len(InOrder(old \cup new))
  <2> SUFFICES ASSUME NEW h \in mine
               PROVE  /\ \E j : /\ IsRun(old, new, h.first, j)
                                /\ h = Hunk(f, old, new, h.first, j)
                      /\ h.first \in 1 .. Len(InOrder(old \cup new))
    OBVIOUS
  <2>1. PICK i, j : IsRun(old, new, i, j) /\ h = Hunk(f, old, new, i, j)
    BY <1>2
  <2>2. h.first = i
    BY <1>3, <2>1
  <2>3. i \in 1 .. Len(InOrder(old \cup new))
    BY <2>1 DEF IsRun, NearPlaces
  <2> QED
    BY <2>1, <2>2, <2>3
<1>5. \A g, h \in mine : g.first = h.first => g = h
  <2> SUFFICES ASSUME NEW g \in mine, NEW h \in mine, g.first = h.first PROVE g = h
    OBVIOUS
  <2>1. PICK i : IsRun(old, new, g.first, i) /\ g = Hunk(f, old, new, g.first, i)
    BY <1>4
  <2>2. PICK j : IsRun(old, new, h.first, j) /\ h = Hunk(f, old, new, h.first, j)
    BY <1>4
  <2>3. i = j
    <3>1. IsRun(old, new, g.first, j)
      BY <2>2
    <3> QED
      BY <1>15, <2>1, <3>1
  <2> QED
    BY <2>1, <2>2, <2>3
<1>6. fs \in SUBSET Nat /\ IsFiniteSet(fs)
  <2>1. fs \in SUBSET (1 .. Len(InOrder(old \cup new)))
    BY <1>4
  <2>2. IsFiniteSet(1 .. Len(InOrder(old \cup new)))
    BY <1>1, FS_Interval
  <2>3. 1 .. Len(InOrder(old \cup new)) \subseteq Nat
    BY <1>1
  <2> HIDE DEF fs
  <2>4. IsFiniteSet(fs)
    BY <2>1, <2>2, FS_Subset
  <2> QED
    BY <2>1, <2>3, <2>4
<1>7. /\ n \in Nat /\ DOMAIN firsts = 1 .. n
      /\ \A k \in 1 .. n : firsts[k] \in fs
      /\ \A l \in fs : \E k \in 1 .. n : firsts[k] = l
      /\ \A k, l \in 1 .. n : k < l => firsts[k] < firsts[l]
  <2>1. DOMAIN firsts = 1 .. n
    BY DEF InOrder
  <2> HIDE DEF fs
  <2> QED
    BY <1>6, <2>1, InOrderIsSorted, Zenon
<1>8. hs = [k \in DOMAIN firsts |-> CHOOSE h \in mine : h.first = firsts[k]]
  BY DEF OfFile
<1>9. hs = [k \in 1 .. n |-> CHOOSE h \in mine : h.first = firsts[k]]
  <2> HIDE DEF hs, firsts, fs, mine, n
  <2> QED
    BY <1>7, <1>8
<1>10. Len(hs) = n
  <2> HIDE DEF hs, firsts, fs, mine
  <2> QED
    BY <1>7, <1>9
<1>11. \A k \in 1 .. n : hs[k] \in mine /\ hs[k].first = firsts[k]
  <2> SUFFICES ASSUME NEW k \in 1 .. n PROVE hs[k] \in mine /\ hs[k].first = firsts[k]
    OBVIOUS
  <2>1. \E h \in mine : h.first = firsts[k]
    <3> HIDE DEF firsts
    <3> QED
      BY <1>7
  <2> HIDE DEF hs, firsts, mine, n
  <2> QED
    BY <1>9, <2>1
<1> HIDE DEF hs, firsts, n
<1>12. ASSUME NEW k \in 1 .. n
       PROVE  /\ IsRun(old, new, lo[k], hi[k])
              /\ hs[k] = Hunk(f, old, new, lo[k], hi[k])
              /\ hs[k] \in H /\ hs[k].file = f /\ lo[k] = firsts[k]
  <2>1. hs[k] \in mine /\ lo[k] = hs[k].first /\ lo[k] = firsts[k]
    BY <1>11
  <2>2. \E j : IsRun(old, new, lo[k], j) /\ hs[k] = Hunk(f, old, new, lo[k], j)
    BY <1>4, <2>1
  <2>3. hi[k] = CHOOSE j : IsRun(old, new, lo[k], j) /\ hs[k] = Hunk(f, old, new, lo[k], j)
    <3> HIDE DEF lo
    <3> QED
      OBVIOUS
  <2> HIDE DEF lo, hi
  <2> QED
    BY <2>1, <2>2, <2>3
<1>13. ASSUME NEW h \in H, h.file = f PROVE \E k \in 1 .. n : hs[k] = h
  <2>1. h \in mine /\ h.first \in fs
    BY <1>13
  <2>2. PICK k \in 1 .. n : firsts[k] = h.first
    <3> HIDE DEF fs
    <3> QED
      BY <1>7, <2>1
  <2> QED
    BY <1>5, <1>11, <2>1, <2>2
<1> HIDE DEF lo, hi
<1>14. \A k, l \in 1 .. n : k < l => lo[k] < lo[l]
  BY <1>7, <1>12
<1> HIDE DEF mine, fs
<1>16. Listing(hs, H, f, old, new, lo, hi)
  BY <1>7, <1>10, <1>12, <1>13, <1>14 DEF Listing
<1> QED
  BY <1>16 DEF hs

\* What is left of one version, and what comes from the other, when the lines of
\* some hunks are exchanged.
Exchanged(H, f, S, rev) ==
    LET mine == {h \in H : h.file = f}
        gone == UNION {h.gone : h \in mine}
        come == UNION {h.come : h \in mine}
    IN  IF rev THEN (S \ come) \cup gone ELSE (S \ gone) \cup come

\* A content with hunks exchanged is a content: new inside these hunks, old outside.
LEMMA ExchangedLines ==
    ASSUME NEW f \in File, NEW old \in Content(f), NEW new \in Content(f), NEW H,
           AreOf(H, f, old, new), NEW rev \in BOOLEAN
    PROVE  LET all == InOrder(old \cup new)
               S == IF rev THEN new ELSE old
               T == IF rev THEN old ELSE new
               E == Exchanged(H, f, S, rev)
           IN  /\ E \in Content(f) /\ E \subseteq old \cup new
               /\ \A i, j : /\ IsRun(old, new, i, j)
                            /\ Hunk(f, old, new, i, j) \in H
                            => \A k \in i .. j : all[k] \in T <=> all[k] \in E
               /\ \A k \in 1 .. Len(all) :
                    (\A i, j : /\ IsRun(old, new, i, j)
                               /\ Hunk(f, old, new, i, j) \in H
                               => k \notin i .. j)
                    => (all[k] \in S <=> all[k] \in E)
<1> DEFINE all == InOrder(old \cup new)
           mine == {h \in H : h.file = f}
           S == IF rev THEN new ELSE old
           T == IF rev THEN old ELSE new
           Out(h) == IF rev THEN h.come ELSE h.gone
           In(h) == IF rev THEN h.gone ELSE h.come
           E == Exchanged(H, f, S, rev)
           Lies(i, j) == IsRun(old, new, i, j) /\ Hunk(f, old, new, i, j) \in H
<1>1. /\ Len(all) \in Nat
      /\ \A k \in 1 .. Len(all) : all[k] \in old \cup new
      /\ \A k, l \in 1 .. Len(all) : all[k] = all[l] => k = l
  <2>1. /\ Len(all) = Cardinality(old \cup new) /\ Cardinality(old \cup new) \in Nat
        /\ \A k \in 1 .. Cardinality(old \cup new) : all[k] \in old \cup new
        /\ \A k, l \in 1 .. Cardinality(old \cup new) : all[k] = all[l] => k = l
    BY BothVersions, Zenon
  <2> HIDE DEF all
  <2> QED
    BY <2>1
<1>2. \A x : x \in E <=> \/ x \in S /\ \A h \in mine : x \notin Out(h)
                         \/ \E h \in mine : x \in In(h)
  BY DEF Exchanged
<1>3. ASSUME NEW i, NEW j
      PROVE  /\ Hunk(f, old, new, i, j).file = f
             /\ Out(Hunk(f, old, new, i, j)) = {all[k] : k \in i .. j} \ T
             /\ In(Hunk(f, old, new, i, j)) = {all[k] : k \in i .. j} \ S
  <2> DEFINE h == Hunk(f, old, new, i, j)
             at == {all[k] : k \in i .. j}
  <2>1. h.file = f /\ h.gone = at \ new /\ h.come = at \ old
    BY DEF Hunk
  <2> HIDE DEF h, at
  <2>2. h.file = f /\ Out(h) = at \ T /\ In(h) = at \ S
    BY <2>1
  <2> QED
    BY <2>2 DEF h, at
<1>4. \A h \in mine : \E i, j : Lies(i, j) /\ h = Hunk(f, old, new, i, j)
  BY HunksAreRuns DEF AreOf
<1>5. \A i, j : Lies(i, j) => \A k \in i .. j : k \in 1 .. Len(all)
  BY DEF IsRun, NearPlaces
<1>6. S \cup T = old \cup new
  OBVIOUS
<1>7. \A h \in mine : Out(h) \cap T = {} /\ In(h) \cap S = {} /\ In(h) \subseteq T
  <2> SUFFICES ASSUME NEW h \in mine
               PROVE  Out(h) \cap T = {} /\ In(h) \cap S = {} /\ In(h) \subseteq T
    OBVIOUS
  <2>1. PICK i, j : Lies(i, j) /\ h = Hunk(f, old, new, i, j)
    BY <1>4
  <2>2. Out(h) = {all[k] : k \in i .. j} \ T /\ In(h) = {all[k] : k \in i .. j} \ S
    BY <1>3, <2>1
  <2>3. \A k \in i .. j : all[k] \in S \cup T
    BY <1>1, <1>5, <1>6, <2>1
  <2> HIDE DEF Out, In, S, T, all
  <2> QED
    BY <2>2, <2>3
<1> HIDE DEF E, S, T, Out, In, all
<1>8. E \in Content(f) /\ E \subseteq old \cup new
  <2>1. S \in Content(f) /\ T \in Content(f)
    BY DEF S, T
  <2>2. /\ S \subseteq Present(f) /\ T \subseteq Present(f)
        /\ Present(f) \cap Anchor \subseteq S /\ Present(f) \cap Anchor \subseteq T
    BY <2>1, ContentShape
  <2>3. E \subseteq S \cup T
    BY <1>2, <1>7
  <2>4. Present(f) \cap Anchor \subseteq E
    BY <1>2, <1>7, <2>2
  <2> QED
    BY <1>6, <2>2, <2>3, <2>4, ContentShape
<1>9. ASSUME NEW i, NEW j, Lies(i, j), NEW k \in i .. j PROVE all[k] \in T <=> all[k] \in E
  <2> DEFINE h == Hunk(f, old, new, i, j)
  <2>1. h \in mine /\ h.file = f
    BY <1>3, <1>9
  <2>2. Out(h) = {all[l] : l \in i .. j} \ T /\ In(h) = {all[l] : l \in i .. j} \ S
    BY <1>3
  <2>3. all[k] \in S \cup T
    BY <1>1, <1>5, <1>6, <1>9
  <2> HIDE DEF h
  <2>4. CASE all[k] \in T
    <3>1. all[k] \notin S => all[k] \in In(h)
      BY <2>2
    <3> QED
      BY <1>2, <1>7, <2>1, <2>4, <3>1
  <2>5. CASE all[k] \notin T
    <3>1. all[k] \in Out(h)
      BY <2>2, <2>5
    <3> QED
      BY <1>2, <1>7, <2>1, <2>5, <3>1
  <2> QED
    BY <2>4, <2>5
<1>10. ASSUME NEW k \in 1 .. Len(all), \A i, j : Lies(i, j) => k \notin i .. j
       PROVE  all[k] \in S <=> all[k] \in E
  <2>1. \A h \in mine : all[k] \notin Out(h) /\ all[k] \notin In(h)
    <3> SUFFICES ASSUME NEW h \in mine PROVE all[k] \notin Out(h) /\ all[k] \notin In(h)
      OBVIOUS
    <3>1. PICK i, j : Lies(i, j) /\ h = Hunk(f, old, new, i, j)
      BY <1>4
    <3>2. Out(h) = {all[l] : l \in i .. j} \ T /\ In(h) = {all[l] : l \in i .. j} \ S
      BY <1>3, <3>1
    <3>3. \A l \in i .. j : all[l] # all[k]
      BY <1>1, <1>5, <1>10, <3>1
    <3> QED
      BY <3>2, <3>3
  <2> QED
    BY <1>2, <2>1
<1> QED
  BY <1>8, <1>9, <1>10 DEF E, S, T, all

\* The handler's own application of hunks to the blob they were made of exchanges
\* the lines of these hunks, and no other.
LEMMA SpliceIsExact ==
    ASSUME NEW f \in File, NEW old \in Content(f), NEW new \in Content(f), NEW H,
           AreOf(H, f, old, new), NEW rev \in BOOLEAN,
           Context > 0
    PROVE  LET S == IF rev THEN new ELSE old
           IN  /\ Exchanged(H, f, S, rev) \in Content(f)
               /\ apply_selected_hunks_to_blob(Lines(S), OfFile(H, f), rev)
                    = Lines(Exchanged(H, f, S, rev))
<1> DEFINE all == InOrder(old \cup new)
           top == Cardinality(old \cup new)
           S == IF rev THEN new ELSE old
           T == IF rev THEN old ELSE new
           E == Exchanged(H, f, S, rev)
           hs == OfFile(H, f)
           lines == Lines(S)
<1>1. /\ old \cup new \in SUBSET Line /\ Len(all) = top /\ top \in Nat
  BY BothVersions, Zenon
<1>2. /\ S \in Content(f) /\ S \in SUBSET (old \cup new) /\ S \in Contents
  BY DEF Contents
<1>3. /\ E \in Content(f) /\ E \in SUBSET (old \cup new)
      /\ \A i, j : IsRun(old, new, i, j) /\ Hunk(f, old, new, i, j) \in H
                     => \A k \in i .. j : all[k] \in T <=> all[k] \in E
      /\ \A k \in 1 .. top :
           (\A i, j : IsRun(old, new, i, j) /\ Hunk(f, old, new, i, j) \in H => k \notin i .. j)
           => (all[k] \in S <=> all[k] \in E)
  <2>1. /\ E \in Content(f) /\ E \subseteq old \cup new
        /\ \A i, j : IsRun(old, new, i, j) /\ Hunk(f, old, new, i, j) \in H
                       => \A k \in i .. j : all[k] \in T <=> all[k] \in E
        /\ \A k \in 1 .. Len(all) :
             (\A i, j : IsRun(old, new, i, j) /\ Hunk(f, old, new, i, j) \in H
                          => k \notin i .. j)
             => (all[k] \in S <=> all[k] \in E)
    BY ExchangedLines, ZenonT(60)
  <2> HIDE DEF all, top, E
  <2> QED
    BY <1>1, <2>1
<1>4. Reads(lines, all, S, 1, top)
  <2> HIDE DEF S
  <2> QED
    BY <1>1, <1>2, BlobReads
<1>5. Reads(Lines(E), all, E, 1, top)
  <2>1. E \in Contents
    BY <1>3 DEF Contents
  <2> HIDE DEF E
  <2> QED
    BY <1>1, <1>3, <2>1, BlobReads
<1>6. PICK lo, hi :
        /\ Len(hs) \in Nat
        /\ \A k \in 1 .. Len(hs) : /\ IsRun(old, new, lo[k], hi[k])
                                   /\ hs[k] = Hunk(f, old, new, lo[k], hi[k])
                                   /\ hs[k] \in H /\ hs[k].file = f
        /\ \A k, l \in 1 .. Len(hs) : k < l => lo[k] < lo[l]
        /\ \A h \in H : h.file = f => \E k \in 1 .. Len(hs) : hs[k] = h
  <2>1. \E lo, hi : Listing(hs, H, f, old, new, lo, hi)
    BY OfFileInOrder
  <2> HIDE DEF hs
  <2> QED
    BY <2>1 DEF Listing
<1> DEFINE N == Len(hs)
<1> HIDE DEF hs
<1>7. \A k \in 1 .. N : /\ lo[k] \in Nat /\ hi[k] \in Nat /\ 1 <= lo[k] /\ lo[k] <= hi[k]
                        /\ hi[k] <= top
                        /\ \A l \in 1 .. N : k < l => hi[k] < lo[l]
  <2> SUFFICES ASSUME NEW k \in 1 .. N
               PROVE  /\ lo[k] \in Nat /\ hi[k] \in Nat /\ 1 <= lo[k] /\ lo[k] <= hi[k]
                      /\ hi[k] <= top
                      /\ \A l \in 1 .. N : k < l => hi[k] < lo[l]
    OBVIOUS
  <2>1. IsRun(old, new, lo[k], hi[k])
    BY <1>6
  <2>2. /\ lo[k] \in Nat /\ hi[k] \in Nat /\ 1 <= lo[k] /\ lo[k] <= hi[k] /\ hi[k] <= top
    BY <1>1, <2>1, RunsApart
  <2>3. ASSUME NEW l \in 1 .. N, k < l PROVE hi[k] < lo[l]
    <3>1. IsRun(old, new, lo[l], hi[l]) /\ lo[k] < lo[l]
      BY <1>6, <2>3
    <3>2. ASSUME NEW a, NEW b, NEW c, NEW d, IsRun(old, new, a, b), IsRun(old, new, c, d), a < c
          PROVE  b < c
      BY <1>1, <3>2, RunsApart
    <3> QED
      BY <2>1, <3>1, <3>2
  <2> QED
    BY <2>2, <2>3
<1>8. \A k \in 1 .. N :
        /\ Reads(SourceLines(hs[k], rev), all, S, lo[k], hi[k])
        /\ Reads(TargetLines(hs[k], rev), all, T, lo[k], hi[k])
        /\ (IF rev THEN hs[k].new_start ELSE hs[k].old_start)
             = Count(all, S, 1, lo[k] - 1) + (IF Count(all, S, lo[k], hi[k]) = 0 THEN 0 ELSE 1)
        /\ Count(all, S, lo[k], hi[k]) = 0 => Count(all, S, 1, lo[k] - 1) = 0
  <2> SUFFICES ASSUME NEW k \in 1 .. N
      PROVE
        /\ Reads(SourceLines(hs[k], rev), all, S, lo[k], hi[k])
        /\ Reads(TargetLines(hs[k], rev), all, T, lo[k], hi[k])
        /\ (IF rev THEN hs[k].new_start ELSE hs[k].old_start)
             = Count(all, S, 1, lo[k] - 1) + (IF Count(all, S, lo[k], hi[k]) = 0 THEN 0 ELSE 1)
        /\ Count(all, S, lo[k], hi[k]) = 0 => Count(all, S, 1, lo[k] - 1) = 0
    OBVIOUS
  <2>1. IsRun(old, new, lo[k], hi[k]) /\ hs[k] = Hunk(f, old, new, lo[k], hi[k])
    BY <1>6
  <2>2. /\ all = InOrder(old \cup new)
        /\ S = IF rev THEN new ELSE old
        /\ T = IF rev THEN old ELSE new
    OBVIOUS
  <2> HIDE DEF all, S, T
  <2> QED
    BY <2>1, <2>2, HunkReads
<1>9. ASSUME NEW n \in 0 .. N, NEW p \in 1 .. top,
             n > 0 => hi[n] < p, n < N => p < lo[n + 1]
      PROVE  all[p] \in S <=> all[p] \in E
  <2>1. ASSUME NEW i, NEW j, IsRun(old, new, i, j), Hunk(f, old, new, i, j) \in H
        PROVE  p \notin i .. j
    <3>1. Hunk(f, old, new, i, j).file = f /\ Hunk(f, old, new, i, j).first = i
      BY DEF Hunk
    <3>2. PICK k \in 1 .. N : hs[k] = Hunk(f, old, new, i, j)
      BY <1>6, <2>1, <3>1
    <3>3. Hunk(f, old, new, lo[k], hi[k]).first = lo[k]
      BY DEF Hunk
    <3>4. i = lo[k] /\ IsRun(old, new, i, hi[k])
      BY <1>6, <3>1, <3>2, <3>3
    <3>5. j = hi[k]
      BY <1>1, <2>1, <3>4, RunsStartApart
    <3>6. CASE k <= n
      <4>1. k < n => hi[k] < lo[n] /\ lo[n] <= hi[n] /\ lo[n] \in Nat /\ hi[n] \in Nat
        BY <1>6, <1>7
      <4>2. hi[k] < p
        BY <1>1, <1>6, <1>7, <1>9, <3>6, <4>1
      <4> QED
        BY <1>7, <3>4, <3>5, <4>2
    <3>7. CASE ~ (k <= n)
      <4>1. n < N /\ n + 1 \in 1 .. N /\ n + 1 <= k
        BY <1>6, <3>7
      <4>2. n + 1 < k => lo[n + 1] < lo[k]
        BY <1>6, <4>1
      <4>3. p < lo[k]
        BY <1>1, <1>6, <1>7, <1>9, <4>1, <4>2
      <4> QED
        BY <1>7, <3>4, <3>5, <4>3
    <3> QED
      BY <3>6, <3>7
  <2> HIDE DEF E, S, all, top
  <2> QED
    BY <1>3, <2>1
<1>10. PICK done :
         /\ done[0] = [cursor |-> 0, output |-> <<>>]
         /\ \A k \in 1 .. N : done[k] = Splice(hs[k], rev, lines, done[k - 1])
         /\ apply_selected_hunks_to_blob(lines, hs, rev)
              = IF done[N] = None THEN None
                ELSE done[N].output \o SubSeq(lines, done[N].cursor + 1, Len(lines))
  <2>1. Len(hs) \in Nat
    BY <1>6
  <2> HIDE DEF lines
  <2> QED
    BY ONLY <2>1, SpliceSteps, ZenonT(60)
<1> DEFINE last(n) == IF n = 0 THEN 0 ELSE hi[n]
           Good(n) == \E o : /\ done[n] = [cursor |-> Count(all, S, 1, last(n)), output |-> o]
                             /\ Reads(o, all, E, 1, last(n))
<1> HIDE DEF lines, all, top, S, T, E
<1>11. Good(0)
  <2>1. Count(all, S, 1, 0) = 0 /\ Count(all, E, 1, 0) = 0
    <3>1. 0 \in Int /\ 0 < 1 /\ 1 \in Nat
      OBVIOUS
    <3> QED
      BY <3>1, CountType
  <2>2. Reads(<<>>, all, E, 1, 0)
    BY <2>1 DEF Reads
  <2> QED
    BY <1>10, <2>1, <2>2
<1>12. ASSUME NEW n \in 1 .. N, Good(n - 1) PROVE Good(n)
  <2> DEFINE m == last(n - 1)
  <2>1. PICK o : /\ done[n - 1] = [cursor |-> Count(all, S, 1, m), output |-> o]
                 /\ Reads(o, all, E, 1, m)
    BY <1>12
  <2>2. /\ n - 1 \in 0 .. N /\ lo[n] \in Nat /\ hi[n] \in Nat /\ m \in Nat /\ m < lo[n]
        /\ lo[n] <= hi[n] /\ hi[n] <= top
    BY <1>6, <1>7
  <2>3. \A k \in m + 1 .. lo[n] - 1 : all[k] \in S <=> all[k] \in E
    <3> SUFFICES ASSUME NEW k \in m + 1 .. lo[n] - 1 PROVE all[k] \in S <=> all[k] \in E
      OBVIOUS
    <3>1. k \in 1 .. top /\ m < k /\ k < lo[n]
      BY <1>1, <2>2
    <3>2. n - 1 > 0 => hi[n - 1] < k
      BY <3>1
    <3>3. (n - 1) + 1 = n
      BY <1>6
    <3> QED
      BY <1>9, <2>2, <3>1, <3>2, <3>3
  <2>4. \A k \in lo[n] .. hi[n] : all[k] \in T <=> all[k] \in E
    BY <1>3, <1>6
  <2>5. last(n) = hi[n]
    BY <1>6
  <2> HIDE DEF m, last
  <2>6. \E u : /\ Splice(hs[n], rev, lines, [cursor |-> Count(all, S, 1, m), output |-> o])
                    = [cursor |-> Count(all, S, 1, hi[n]), output |-> u]
               /\ Reads(u, all, E, 1, hi[n])
    <3>1. /\ Reads(SourceLines(hs[n], rev), all, S, lo[n], hi[n])
          /\ Reads(TargetLines(hs[n], rev), all, T, lo[n], hi[n])
          /\ (IF rev THEN hs[n].new_start ELSE hs[n].old_start)
               = Count(all, S, 1, lo[n] - 1) + (IF Count(all, S, lo[n], hi[n]) = 0 THEN 0 ELSE 1)
          /\ Count(all, S, lo[n], hi[n]) = 0 => Count(all, S, 1, lo[n] - 1) = 0
      BY <1>8
    <3>2. top \in Nat /\ Reads(lines, all, S, 1, top) /\ Reads(o, all, E, 1, m)
      BY <1>1, <1>4, <2>1
    <3>3. Applicable(all, top, S, T, E, lines, hs[n], rev, o, m, lo[n], hi[n])
      BY <2>2, <2>3, <2>4, <3>1, <3>2 DEF Applicable
    <3> QED
      BY <3>2, <3>3, SpliceOfHunk
  <2>7. done[n] = Splice(hs[n], rev, lines, [cursor |-> Count(all, S, 1, m), output |-> o])
    BY <1>10, <2>1
  <2> QED
    BY <2>5, <2>6, <2>7
<1>13. Good(N)
  <2> DEFINE Bad == {n \in 0 .. N : ~ Good(n)}
  <2> HIDE DEF Good
  <2> SUFFICES ASSUME Bad # {} PROVE FALSE
    <3>1. N \in 0 .. N
      BY <1>6
    <3> QED
      BY <3>1
  <2>1. PICK n \in Bad : \A k \in Bad : n <= k
    <3>1. Bad \in SUBSET Nat
      OBVIOUS
    <3> HIDE DEF Bad
    <3> QED
      BY <3>1, LeastNatural
  <2>2. n \in 0 .. N /\ ~ Good(n) /\ n # 0
    BY <1>11, <2>1
  <2>3. n - 1 \in 0 .. N /\ ~ (n <= n - 1) /\ n \in 1 .. N
    BY <1>6, <2>2
  <2>4. Good(n - 1)
    BY <2>1, <2>3
  <2> QED
    BY <1>12, <2>2, <2>3, <2>4
<1>14. PICK o : /\ done[N] = [cursor |-> Count(all, S, 1, last(N)), output |-> o]
                /\ Reads(o, all, E, 1, last(N))
  BY <1>13
<1>15. last(N) \in Nat /\ last(N) <= top /\ (N > 0 => last(N) = hi[N])
  BY <1>1, <1>6, <1>7
<1> HIDE DEF last
<1> DEFINE rest == SubSeq(lines, Count(all, S, 1, last(N)) + 1, Len(lines))
<1>16. Reads(rest, all, E, last(N) + 1, top)
  <2>1. Len(lines) = Count(all, S, 1, top) /\ top <= top
    BY <1>1, <1>4 DEF Reads
  <2>2. Reads(SubSeq(lines, Count(all, S, 1, last(N)) + 1, Count(all, S, 1, top)),
              all, S, last(N) + 1, top)
    BY <1>1, <1>4, <1>15, <2>1, ReadsPart
  <2>3. Reads(rest, all, S, last(N) + 1, top)
    BY <2>1, <2>2
  <2>4. \A k \in last(N) + 1 .. top : all[k] \in S <=> all[k] \in E
    <3> SUFFICES ASSUME NEW k \in last(N) + 1 .. top PROVE all[k] \in S <=> all[k] \in E
      OBVIOUS
    <3>1. k \in 1 .. top /\ last(N) < k /\ N \in 0 .. N /\ ~ (N < N)
      BY <1>1, <1>6, <1>15
    <3> QED
      BY <1>9, <1>15, <3>1
  <2>5. last(N) + 1 \in Nat /\ top \in Int
    BY <1>1, <1>15
  <2> HIDE DEF rest
  <2> QED
    BY <2>3, <2>4, <2>5, ReadsAlike
<1> HIDE DEF rest
<1>17. Reads(o \o rest, all, E, 1, top)
  <2>1. 1 <= last(N) + 1 /\ last(N) \in Int /\ top \in Int /\ 1 \in Nat
    BY <1>1, <1>15
  <2> QED
    BY <1>14, <1>15, <1>16, <2>1, ReadsOn
<1>18. o \o rest = Lines(E)
  <2>1. top \in Int /\ 1 \in Nat
    BY <1>1
  <2> QED
    BY <1>5, <1>17, <2>1, ReadsOneWay
<1>19. done[N] # None
  <2>1. Count(all, S, 1, last(N)) \in Nat
    <3>1. last(N) \in Int /\ 1 \in Nat
      BY <1>15
    <3> QED
      BY <3>1, CountType
  <2>2. o \in Seq({Text[l] : l \in Line})
    BY <1>14 DEF Reads, Texts
  <2> QED
    BY <1>14, <2>1, <2>2, NoneAssumption
<1>20. apply_selected_hunks_to_blob(lines, hs, rev) = Lines(E)
  <2>1. done[N].cursor = Count(all, S, 1, last(N)) /\ done[N].output = o
    BY <1>14
  <2> QED
    BY <1>10, <1>18, <1>19, <2>1 DEF rest
<1> QED
  BY <1>3, <1>20 DEF lines, hs, E, S

-----------------------------------------------------------------------------
(* What the counts of the hunks tell *)

\* Of some numbers, the run around one of them has a first and a last.
LEMMA RunAround ==
    ASSUME NEW top \in Nat, NEW S \in SUBSET (1 .. top), NEW i \in S
    PROVE  \E a, b \in S : /\ a <= b /\ a .. b \subseteq S
                           /\ a - 1 \notin S /\ b + 1 \notin S /\ i \in a .. b
<1> DEFINE starts == {a \in Nat : a .. i \subseteq S /\ a <= i}
           gaps == {b \in Nat : b >= i /\ b + 1 \notin S}
<1>1. i \in Nat /\ i .. i = {i}
  OBVIOUS
<1>2. PICK a \in starts : \A m \in starts : a <= m
  <2>1. i \in starts /\ starts \in SUBSET Nat
    BY <1>1
  <2> HIDE DEF starts
  <2> QED
    BY <2>1, LeastNatural
<1>3. PICK b \in gaps : \A m \in gaps : b <= m
  <2>1. top \in gaps /\ gaps \in SUBSET Nat
    OBVIOUS
  <2> HIDE DEF gaps
  <2> QED
    BY <2>1, LeastNatural
<1>4. a \in S /\ a - 1 \notin S
  <2>1. a \in S
    BY <1>2
  <2>2. ASSUME a - 1 \in S PROVE FALSE
    <3>1. a - 1 \in Nat /\ a - 1 <= i /\ (a - 1) .. i \subseteq S
      BY <1>2, <2>2
    <3>2. a - 1 \in starts
      BY <3>1
    <3> HIDE DEF starts
    <3> QED
      BY <3>2, <1>2, <2>1
  <2> QED
    BY <2>1, <2>2
<1>5. i .. b \subseteq S /\ b + 1 \notin S
  <2> SUFFICES ASSUME NEW m \in i .. b PROVE m \in S
    BY <1>3
  <2>1. CASE m = i
    BY <2>1
  <2>2. CASE m # i
    <3>1. m - 1 \in Nat /\ m - 1 >= i /\ m - 1 < b
      BY <2>2, <1>3
    <3>2. m - 1 \notin gaps
      <4>1. b \in Nat
        BY <1>3
      <4> HIDE DEF gaps
      <4> QED
        BY <3>1, <1>3, <4>1
    <3>3. (m - 1) + 1 \in S
      BY <3>1, <3>2
    <3> QED
      BY <3>3
  <2> QED
    BY <2>1, <2>2
<1>6. a <= b /\ b \in S /\ a .. b \subseteq S /\ i \in a .. b
  <2>1. a \in Nat /\ b \in Nat /\ a <= i /\ i <= b /\ a .. i \subseteq S
    BY <1>2, <1>3
  <2>2. \A m \in a .. b : m \in a .. i \/ m \in i .. b
    BY <2>1
  <2> QED
    BY <2>1, <2>2, <1>5
<1> QED
  BY <1>4, <1>5, <1>6

\* The hunks of a file are finitely many: each has its first place.
LEMMA FinitelyManyHunks ==
    ASSUME NEW f \in File, NEW old \in Content(f), NEW new \in Content(f)
    PROVE  IsFiniteSet(HunksBetween(f, old, new))
<1> DEFINE G == HunksBetween(f, old, new)
           top == Len(InOrder(old \cup new))
           g == [h \in G |-> h.first]
<1>1. top \in Nat
  <2>1. /\ top = Cardinality(old \cup new) /\ Cardinality(old \cup new) \in Nat
    BY BothVersions, Zenon
  <2> QED
    BY <2>1
<1>2. ASSUME NEW h \in G
      PROVE  \E j : IsRun(old, new, h.first, j) /\ h = Hunk(f, old, new, h.first, j)
  <2>1. PICK i, j : IsRun(old, new, i, j) /\ h = Hunk(f, old, new, i, j)
    BY HunksAreRuns
  <2>2. h.first = i
    BY <2>1 DEF Hunk
  <2> QED
    BY <2>1, <2>2
<1>3. g \in [G -> 1 .. top]
  <2> SUFFICES ASSUME NEW h \in G PROVE h.first \in 1 .. top
    OBVIOUS
  <2> QED
    BY <1>2 DEF IsRun, NearPlaces
<1>4. ASSUME NEW h \in G, NEW k \in G, g[h] = g[k] PROVE h = k
  <2>1. PICK i : IsRun(old, new, h.first, i) /\ h = Hunk(f, old, new, h.first, i)
    BY <1>2
  <2>2. PICK j : IsRun(old, new, k.first, j) /\ k = Hunk(f, old, new, k.first, j)
    BY <1>2
  <2>3. h.first = k.first
    BY <1>4
  <2>4. IsRun(old, new, h.first, j)
    BY <2>2, <2>3
  <2>5. i = j
    BY <1>1, <2>1, <2>4, RunsStartApart
  <2> QED
    BY <2>1, <2>2, <2>3, <2>5
<1> HIDE DEF G, top, g
<1>5. g \in Injection(G, 1 .. top)
  BY <1>3, <1>4 DEF Injection, IsInjective
<1>6. IsFiniteSet(1 .. top)
  BY <1>1, FS_Interval
<1> QED
  BY <1>5, <1>6, FS_Injection DEF G

\* The places of some hunks where a body has one mark and text.
Marked(G, mark) == {p \in G \X Nat : p[2] \in DOMAIN p[1].body /\ p[1].body[p[2]] = mark}

\* The lines that a hunk adds, or takes away.
Moved(h, sign) == IF sign = "+" THEN h.come ELSE h.gone
LinesMoved(G, sign, text) == {l \in UNION {Moved(h, sign) : h \in G} : Text[l] = text}

\* As many lines come, or go, as the bodies say, text by text.
LEMMA MarkedAsMoved ==
    ASSUME NEW f \in File, NEW old \in Content(f), NEW new \in Content(f),
           NEW G \in SUBSET HunksBetween(f, old, new), NEW sign \in {"+", "-"}, NEW text
    PROVE  ExistsBijection(Marked(G, <<sign, text>>), LinesMoved(G, sign, text))
<1> DEFINE all == InOrder(old \cup new)
           top == Len(all)
           M == Marked(G, <<sign, text>>)
           L == LinesMoved(G, sign, text)
           version == IF sign = "+" THEN old ELSE new
           g == [p \in M |-> all[p[1].first + p[2] - 1]]
<1>1. /\ top \in Nat
      /\ \A k \in 1 .. top : all[k] \in old \cup new
      /\ \A k, l \in 1 .. top : all[k] = all[l] => k = l
  <2>1. /\ top = Cardinality(old \cup new) /\ Cardinality(old \cup new) \in Nat
        /\ \A k \in 1 .. Cardinality(old \cup new) : all[k] \in old \cup new
        /\ \A k, l \in 1 .. Cardinality(old \cup new) : all[k] = all[l] => k = l
    BY BothVersions, Zenon
  <2> HIDE DEF all
  <2> QED
    BY <2>1
<1>2. ASSUME NEW i, NEW j, IsRun(old, new, i, j), NEW h, h = Hunk(f, old, new, i, j)
      PROVE  /\ h.first = i /\ i \in Nat /\ j \in Nat /\ 1 <= i /\ i <= j /\ j <= top
             /\ DOMAIN h.body = 1 .. j - i + 1
             /\ \A u \in 1 .. j - i + 1 :
                   h.body[u] = <<sign, text>>
                     <=> all[i + u - 1] \notin version /\ Text[all[i + u - 1]] = text
             /\ Moved(h, sign) = {all[k] : k \in i .. j} \ version
  <2>1. i \in Nat /\ j \in Nat /\ 1 <= i /\ i <= j /\ j <= top
    BY <1>1, <1>2, RunsApart
  <2> DEFINE Sign(l) == IF l \notin new THEN "-" ELSE IF l \notin old THEN "+" ELSE " "
  <2>2. /\ h.first = i
        /\ h.body = [u \in 1 .. j - i + 1 |-> <<Sign(all[i + u - 1]), Text[all[i + u - 1]]>>]
        /\ h.come = {all[k] : k \in i .. j} \ old
        /\ h.gone = {all[k] : k \in i .. j} \ new
    BY <1>2 DEF Hunk
  <2> HIDE DEF all
  <2>3. Moved(h, sign) = {all[k] : k \in i .. j} \ version
    BY <2>2 DEF Moved
  <2>4. ASSUME NEW u \in 1 .. j - i + 1
        PROVE  h.body[u] = <<sign, text>>
                 <=> all[i + u - 1] \notin version /\ Text[all[i + u - 1]] = text
    <3> DEFINE l == all[i + u - 1]
    <3>1. l \in old \cup new
      <4>1. i + u - 1 \in 1 .. top
        BY <1>1, <2>1
      <4> QED
        BY <1>1, <4>1
    <3>2. h.body[u] = <<Sign(l), Text[l]>>
      BY <2>2
    <3> HIDE DEF l
    <3>3. Sign(l) = sign <=> l \notin version
      BY <3>1
    <3> HIDE DEF Sign, version
    <3>4. <<Sign(l), Text[l]>> = <<sign, text>> <=> Sign(l) = sign /\ Text[l] = text
      OBVIOUS
    <3>5. h.body[u] = <<sign, text>> <=> l \notin version /\ Text[l] = text
      BY <3>2, <3>3, <3>4
    <3> QED
      BY <3>5 DEF l
  <2>5. DOMAIN h.body = 1 .. j - i + 1
    BY <2>2
  <2> QED
    BY <2>1, <2>2, <2>3, <2>4, <2>5
<1>3. \A h \in G : \E i, j : IsRun(old, new, i, j) /\ h = Hunk(f, old, new, i, j)
  BY HunksAreRuns
<1>9. ASSUME NEW a, NEW b, NEW c, NEW d, IsRun(old, new, a, b), IsRun(old, new, c, d)
      PROVE  a < c => b < c
  BY <1>1, <1>9, RunsApart
<1>10. ASSUME NEW a, NEW b, NEW d, IsRun(old, new, a, b), IsRun(old, new, a, d) PROVE b = d
  BY <1>1, <1>10, RunsStartApart
<1> HIDE DEF all, version
<1>4. ASSUME NEW p \in M
      PROVE  \E i, j : /\ IsRun(old, new, i, j) /\ p[1] = Hunk(f, old, new, i, j) /\ p[1] \in G
                       /\ p[1].first = i /\ p[2] \in Nat /\ i \in Nat /\ j \in Nat
                       /\ i + p[2] - 1 \in i .. j /\ i + p[2] - 1 \in 1 .. top
                       /\ all[i + p[2] - 1] \in L /\ p = <<p[1], p[2]>>
  <2>1. /\ p[1] \in G /\ p[2] \in Nat /\ p = <<p[1], p[2]>>
        /\ p[2] \in DOMAIN p[1].body /\ p[1].body[p[2]] = <<sign, text>>
    BY DEF Marked
  <2>2. PICK i, j : IsRun(old, new, i, j) /\ p[1] = Hunk(f, old, new, i, j)
    BY <1>3, <2>1
  <2> DEFINE h == p[1]
             u == p[2]
  <2>3. /\ h.first = i /\ i \in Nat /\ j \in Nat /\ 1 <= i /\ i <= j /\ j <= top
        /\ DOMAIN h.body = 1 .. j - i + 1
        /\ \A v \in 1 .. j - i + 1 :
                   h.body[v] = <<sign, text>>
                     <=> all[i + v - 1] \notin version /\ Text[all[i + v - 1]] = text
        /\ Moved(h, sign) = {all[k] : k \in i .. j} \ version
    BY <1>2, <2>2
  <2>4. u \in 1 .. j - i + 1 /\ i + u - 1 \in i .. j /\ i + u - 1 \in 1 .. top
    BY <1>1, <2>1, <2>3
  <2>5. all[i + u - 1] \notin version /\ Text[all[i + u - 1]] = text
    BY <2>1, <2>3, <2>4
  <2>6. all[i + u - 1] \in Moved(h, sign)
    BY <2>3, <2>4, <2>5
  <2>7. all[i + u - 1] \in L
    BY <2>1, <2>5, <2>6 DEF LinesMoved
  <2> QED
    BY <2>1, <2>2, <2>3, <2>4, <2>7
<1>5. g \in [M -> L]
  <2> SUFFICES ASSUME NEW p \in M PROVE all[p[1].first + p[2] - 1] \in L
    BY Zenon
  <2> HIDE DEF M, L
  <2> QED
    BY <1>4
<1>6. ASSUME NEW p \in M, NEW q \in M, g[p] = g[q] PROVE p = q
  <2> HIDE DEF M, L
  <2>1. PICK i, j : /\ IsRun(old, new, i, j) /\ p[1] = Hunk(f, old, new, i, j) /\ p[1] \in G
                    /\ p[1].first = i /\ p[2] \in Nat /\ i \in Nat /\ j \in Nat
                    /\ i + p[2] - 1 \in i .. j /\ i + p[2] - 1 \in 1 .. top
                    /\ all[i + p[2] - 1] \in L /\ p = <<p[1], p[2]>>
    BY <1>4, Zenon
  <2>2. PICK k, l : /\ IsRun(old, new, k, l) /\ q[1] = Hunk(f, old, new, k, l) /\ q[1] \in G
                    /\ q[1].first = k /\ q[2] \in Nat /\ k \in Nat /\ l \in Nat
                    /\ k + q[2] - 1 \in k .. l /\ k + q[2] - 1 \in 1 .. top
                    /\ all[k + q[2] - 1] \in L /\ q = <<q[1], q[2]>>
    BY <1>4, Zenon
  <2>3. i + p[2] - 1 = k + q[2] - 1
    BY <1>1, <1>6, <2>1, <2>2
  <2>4. ~ (i < k)
    <3>1. i < k => j < k
      BY <1>9, <2>1, <2>2
    <3> QED
      BY <2>1, <2>2, <2>3, <3>1
  <2>5. ~ (k < i)
    <3>1. k < i => l < i
      BY <1>9, <2>1, <2>2
    <3> QED
      BY <2>1, <2>2, <2>3, <3>1
  <2>6. i = k /\ p[2] = q[2]
    BY <2>1, <2>2, <2>3, <2>4, <2>5
  <2>7. j = l
    <3>1. IsRun(old, new, i, l)
      BY <2>2, <2>6
    <3> QED
      BY <1>10, <2>1, <3>1
  <2> QED
    BY <2>1, <2>2, <2>6, <2>7
<1>7. ASSUME NEW l \in L PROVE \E p \in M : g[p] = l
  <2> HIDE DEF g
  <2>1. PICK h \in G : l \in Moved(h, sign) /\ Text[l] = text
    BY DEF LinesMoved
  <2>2. PICK i, j : IsRun(old, new, i, j) /\ h = Hunk(f, old, new, i, j)
    BY <1>3
  <2>3. /\ h.first = i /\ i \in Nat /\ j \in Nat /\ 1 <= i /\ i <= j /\ j <= top
        /\ DOMAIN h.body = 1 .. j - i + 1
        /\ \A v \in 1 .. j - i + 1 :
                   h.body[v] = <<sign, text>>
                     <=> all[i + v - 1] \notin version /\ Text[all[i + v - 1]] = text
        /\ Moved(h, sign) = {all[k] : k \in i .. j} \ version
    <3>1. IsRun(old, new, i, j)
      BY <2>2
    <3>2. h = Hunk(f, old, new, i, j)
      BY <2>2
    <3> HIDE DEF M, L
    <3> QED
      BY <1>2, <3>1, <3>2, SMTT(60)
  <2>4. PICK k \in i .. j : all[k] = l /\ l \notin version
    BY <2>1, <2>3
  <2> DEFINE u == k - i + 1
  <2>5. u \in 1 .. j - i + 1 /\ i + u - 1 = k /\ u \in Nat
    BY <2>3
  <2>6. h.body[u] = <<sign, text>>
    BY <2>1, <2>3, <2>4, <2>5
  <2> HIDE DEF u
  <2>7. <<h, u>> \in M
    BY <2>3, <2>5, <2>6 DEF Marked
  <2>8. g[<<h, u>>] = l
    <3> HIDE DEF M
    <3> QED
      BY <2>3, <2>4, <2>5, <2>7 DEF g
  <2> QED
    BY <2>7, <2>8
<1> HIDE DEF M, L, g
<1>8. ExistsBijection(M, L)
  BY <1>5, <1>6, <1>7 DEF ExistsBijection, Bijection, Injection, Surjection, IsInjective
<1> QED
  BY <1>8 DEF M, L

\* The hunks of one file; those that read alike.
Mine(H, f) == {h \in H : h.file = f}
OfKey(H, k) == {h \in H : hunk_body_key(h) = k}

\* If two sets of hunks count alike, as verify_scoped_count_delta and its kin count,
\* the bodies of the one are those of the other.
LEMMA SameCountsSameBodies ==
    ASSUME NEW f, NEW A, NEW B, IsFiniteSet(Mine(A, f)), IsFiniteSet(Mine(B, f)),
           body_counts(A) = body_counts(B), NEW mark
    PROVE  ExistsBijection(Marked(Mine(A, f), mark), Marked(Mine(B, f), mark))
<1> DEFINE key(h) == hunk_body_key(h)
           M == Marked(Mine(A, f), mark)
           N == Marked(Mine(B, f), mark)
           other(k) == CHOOSE b : b \in Bijection(OfKey(A, k), OfKey(B, k))
           g == [p \in M |-> <<other(key(p[1]))[p[1]], p[2]>>]
<1>1. \A h, k : key(h) = key(k) <=> h.file = k.file /\ h.body = k.body
  BY DEF hunk_body_key
<1>2. \A H : /\ DOMAIN body_counts(H) = {key(h) : h \in H}
             /\ \A h \in H : body_counts(H)[key(h)] = Cardinality(OfKey(H, key(h)))
  BY DEF body_counts, OfKey
<1>3. /\ {key(h) : h \in A} = {key(h) : h \in B}
      /\ \A h \in A : Cardinality(OfKey(A, key(h))) = Cardinality(OfKey(B, key(h)))
  <2> HIDE DEF key
  <2>1. {key(h) : h \in A} = {key(h) : h \in B}
    BY <1>2
  <2>2. ASSUME NEW h \in A
        PROVE  Cardinality(OfKey(A, key(h))) = Cardinality(OfKey(B, key(h)))
    <3>1. PICK k \in B : key(h) = key(k)
      BY <2>1
    <3>2. body_counts(A)[key(h)] = body_counts(B)[key(k)]
      BY <3>1
    <3> QED
      BY <1>2, <3>1, <3>2
  <2> QED
    BY <2>1, <2>2
<1>4. ASSUME NEW h \in A, h.file = f
      PROVE  other(key(h)) \in Bijection(OfKey(A, key(h)), OfKey(B, key(h)))
  <2>1. OfKey(A, key(h)) \subseteq Mine(A, f) /\ OfKey(B, key(h)) \subseteq Mine(B, f)
    BY <1>1, <1>4 DEF OfKey, Mine
  <2>2. IsFiniteSet(OfKey(A, key(h))) /\ IsFiniteSet(OfKey(B, key(h)))
    BY <2>1, FS_Subset
  <2>3. ExistsBijection(OfKey(A, key(h)), OfKey(B, key(h)))
    <3> HIDE DEF key
    <3> QED
      BY <1>3, <1>4, <2>2, FS_SameCardinalityBij
  <2>4. \E b : b \in Bijection(OfKey(A, key(h)), OfKey(B, key(h)))
    BY <2>3 DEF ExistsBijection
  <2> HIDE DEF key
  <2> QED
    BY <2>4
<1> HIDE DEF other
<1>5. ASSUME NEW h \in A, h.file = f
      PROVE  LET b == other(key(h))
             IN  /\ \A k \in OfKey(A, key(h)) : b[k] \in OfKey(B, key(h))
                 /\ \A k, l \in OfKey(A, key(h)) : b[k] = b[l] => k = l
                 /\ \A l \in OfKey(B, key(h)) : \E k \in OfKey(A, key(h)) : b[k] = l
  <2> DEFINE S == OfKey(A, key(h))
             T == OfKey(B, key(h))
             b == other(key(h))
  <2>1. b \in Bijection(S, T)
    BY <1>4, <1>5
  <2> HIDE DEF S, T, b
  <2>2. /\ \A k \in S : b[k] \in T
        /\ \A k, l \in S : b[k] = b[l] => k = l
        /\ \A l \in T : \E k \in S : b[k] = l
    BY <2>1 DEF Bijection, Injection, Surjection, IsInjective
  <2> QED
    BY <2>2 DEF S, T, b
<1> HIDE DEF key
<1>6. ASSUME NEW p \in M
      PROVE  LET h == p[1]
                 o == other(key(p[1]))[p[1]]
             IN  /\ h \in A /\ h.file = f /\ h \in OfKey(A, key(h)) /\ p = <<h, p[2]>>
                 /\ o \in B /\ key(o) = key(h) /\ <<o, p[2]>> \in N
  <2> DEFINE h == p[1]
             o == other(key(p[1]))[p[1]]
  <2>1. /\ h \in A /\ h.file = f /\ p = <<h, p[2]>> /\ p[2] \in Nat
        /\ p[2] \in DOMAIN h.body /\ h.body[p[2]] = mark
    BY DEF Marked, Mine
  <2>2. h \in OfKey(A, key(h))
    BY <2>1 DEF OfKey, key
  <2>3. o \in OfKey(B, key(h))
    BY <1>5, <2>1, <2>2
  <2> HIDE DEF o
  <2>4. o \in B /\ key(o) = key(h)
    BY <2>3 DEF OfKey, key
  <2>5. o.file = f /\ o.body = h.body
    BY <1>1, <2>1, <2>4
  <2>6. <<o, p[2]>> \in N
    BY <2>1, <2>4, <2>5 DEF Marked, Mine
  <2> QED
    BY <2>1, <2>2, <2>4, <2>6 DEF o
<1> HIDE DEF M, N
<1>7. g \in [M -> N]
  BY <1>6
<1>8. ASSUME NEW p \in M, NEW q \in M, g[p] = g[q] PROVE p = q
  <2> DEFINE o(r) == other(key(r[1]))[r[1]]
  <2>1. g[p] = <<o(p), p[2]>> /\ g[q] = <<o(q), q[2]>>
    OBVIOUS
  <2> HIDE DEF g
  <2>2. o(p) = o(q) /\ p[2] = q[2]
    <3>1. <<o(p), p[2]>> = <<o(q), q[2]>>
      <4> HIDE DEF o
      <4> QED
        BY <1>8, <2>1, Zenon
    <3> HIDE DEF o
    <3> QED
      BY <3>1
  <2>3. /\ p[1] \in A /\ p[1].file = f /\ p[1] \in OfKey(A, key(p[1])) /\ p = <<p[1], p[2]>>
        /\ key(o(p)) = key(p[1])
    BY <1>6
  <2>4. /\ q[1] \in A /\ q[1].file = f /\ q[1] \in OfKey(A, key(q[1])) /\ q = <<q[1], q[2]>>
        /\ key(o(q)) = key(q[1])
    BY <1>6
  <2>5. key(p[1]) = key(q[1])
    <3> HIDE DEF o
    <3> QED
      BY <2>2, <2>3, <2>4
  <2>6. p[1] = q[1]
    BY <1>5, <2>2, <2>3, <2>4, <2>5
  <2> QED
    BY <2>2, <2>3, <2>4, <2>6
<1>9. ASSUME NEW q \in N PROVE \E p \in M : g[p] = q
  <2>1. /\ q[1] \in B /\ q[1].file = f /\ q = <<q[1], q[2]>> /\ q[2] \in Nat
        /\ q[2] \in DOMAIN q[1].body /\ q[1].body[q[2]] = mark
    BY DEF N, Marked, Mine
  <2>2. PICK a \in A : key(a) = key(q[1])
    BY <1>3, <2>1
  <2>3. a.file = f /\ a.body = q[1].body
    BY <1>1, <2>1, <2>2 DEF key
  <2>4. q[1] \in OfKey(B, key(a))
    BY <2>1, <2>2 DEF OfKey, key
  <2>5. PICK h \in OfKey(A, key(a)) : other(key(a))[h] = q[1]
    BY <1>5, <2>3, <2>4
  <2>6. h \in A /\ key(h) = key(a)
    BY <2>5 DEF OfKey, key
  <2>7. h.file = f /\ h.body = q[1].body
    BY <1>1, <2>3, <2>6 DEF key
  <2> DEFINE p == <<h, q[2]>>
  <2>8. p \in M /\ p[1] = h /\ p[2] = q[2]
    BY <2>1, <2>6, <2>7 DEF M, Marked, Mine
  <2> HIDE DEF p
  <2>9. g[p] = q
    BY <2>1, <2>5, <2>6, <2>8
  <2> QED
    BY <2>8, <2>9
<1> HIDE DEF g
<1>10. ExistsBijection(M, N)
  BY <1>7, <1>8, <1>9 DEF ExistsBijection, Bijection, Injection, Surjection, IsInjective
<1> QED
  BY <1>10 DEF M, N

\* Then as many lines come, or go, of each text.
LEMMA SameCountsSameLines ==
    ASSUME NEW f \in File, NEW old \in Content(f), NEW new \in Content(f),
           NEW old2 \in Content(f), NEW new2 \in Content(f),
           NEW A, NEW B, AreOf(A, f, old, new), AreOf(B, f, old2, new2),
           body_counts(A) = body_counts(B), NEW sign \in {"+", "-"}, NEW text
    PROVE  Cardinality(LinesMoved(Mine(A, f), sign, text))
             = Cardinality(LinesMoved(Mine(B, f), sign, text))
<1> DEFINE P == Mine(A, f)
           Q == Mine(B, f)
           mark == <<sign, text>>
<1>1. P \in SUBSET HunksBetween(f, old, new) /\ Q \in SUBSET HunksBetween(f, old2, new2)
  BY DEF AreOf, Mine
<1>2. IsFiniteSet(P) /\ IsFiniteSet(Q)
  <2> HIDE DEF P, Q
  <2> QED
    BY <1>1, FinitelyManyHunks, FS_Subset
<1>3. ExistsBijection(Marked(P, mark), Marked(Q, mark))
  BY <1>2, SameCountsSameBodies
<1> HIDE DEF P, Q
<1>4. ExistsBijection(Marked(P, mark), LinesMoved(P, sign, text))
  BY <1>1, MarkedAsMoved
<1>5. ExistsBijection(Marked(Q, mark), LinesMoved(Q, sign, text))
  BY <1>1, MarkedAsMoved
<1>6. ExistsBijection(LinesMoved(P, sign, text), LinesMoved(Q, sign, text))
  <2> HIDE DEF mark
  <2> QED
    BY <1>3, <1>4, <1>5, Fun_ExistsBijSymmetric, Fun_ExistsBijTransitive
<1>7. IsFiniteSet(LinesMoved(P, sign, text))
  <2>1. LinesMoved(P, sign, text) \in SUBSET (old \cup new)
    <3> SUFFICES ASSUME NEW h \in P, NEW l \in Moved(h, sign) PROVE l \in old \cup new
      BY DEF LinesMoved
    <3>1. PICK i, j : IsRun(old, new, i, j) /\ h = Hunk(f, old, new, i, j)
      BY <1>1, HunksAreRuns
    <3>2. PICK k \in i .. j : InOrder(old \cup new)[k] = l
      BY <3>1 DEF Hunk, Moved
    <3>3. k \in 1 .. Len(InOrder(old \cup new))
      BY <3>1, <3>2 DEF IsRun, NearPlaces
    <3>4. /\ Len(InOrder(old \cup new)) = Cardinality(old \cup new)
          /\ \A n \in 1 .. Cardinality(old \cup new) : InOrder(old \cup new)[n] \in old \cup new
      BY BothVersions, Zenon
    <3> QED
      BY <3>2, <3>3, <3>4
  <2>2. IsFiniteSet(old \cup new)
    BY BothVersions, Zenon
  <2> QED
    BY <2>1, <2>2, FS_Subset
<1>8. Cardinality(LinesMoved(Q, sign, text)) = Cardinality(LinesMoved(P, sign, text))
  BY <1>6, <1>7, FS_Bijection
<1> QED
  BY <1>8 DEF P, Q

\* The hunks between two contents bring all the lines of the new one, and take away
\* all those that only the old one has.
LEMMA MovedIsDifference ==
    ASSUME NEW f \in File, NEW old \in Content(f), NEW new \in Content(f)
    PROVE  /\ UNION {h.come : h \in HunksBetween(f, old, new)} = new \ old
           /\ UNION {h.gone : h \in HunksBetween(f, old, new)} = old \ new
<1> DEFINE all == InOrder(old \cup new)
           G == HunksBetween(f, old, new)
<1>1. /\ Len(all) \in Nat /\ old \cup new \in SUBSET Line
      /\ \A k \in 1 .. Len(all) : all[k] \in old \cup new
  <2>1. /\ Len(all) = Cardinality(old \cup new) /\ Cardinality(old \cup new) \in Nat
        /\ old \cup new \in SUBSET Line
        /\ \A k \in 1 .. Cardinality(old \cup new) : all[k] \in old \cup new
    BY BothVersions, Zenon
  <2> HIDE DEF all
  <2> QED
    BY <2>1
<1>2. ASSUME NEW h \in G PROVE h.come \subseteq new \ old /\ h.gone \subseteq old \ new
  <2>1. PICK i, j : IsRun(old, new, i, j) /\ h = Hunk(f, old, new, i, j)
    BY HunksAreRuns
  <2>2. h.come = {all[k] : k \in i .. j} \ old /\ h.gone = {all[k] : k \in i .. j} \ new
    BY <2>1 DEF Hunk
  <2>3. \A k \in i .. j : k \in 1 .. Len(all)
    BY <2>1 DEF IsRun, NearPlaces
  <2> HIDE DEF all
  <2> QED
    BY <1>1, <2>2, <2>3
<1>3. ASSUME NEW l \in old \cup new, l \notin old \cap new
      PROVE  \E h \in G : l \in h.come \cup h.gone
  <2>1. PICK k \in 1 .. Len(all) : all[k] = l
    <3>1. old \cup new \in SUBSET Nat /\ IsFiniteSet(old \cup new)
      BY BothVersions, Zenon
    <3>2. /\ Cardinality(Below(old \cup new, l)) + 1 \in 1 .. Cardinality(old \cup new)
          /\ all[Cardinality(Below(old \cup new, l)) + 1] = l
          /\ Len(all) = Cardinality(old \cup new)
      BY <3>1, InOrderIsSorted
    <3> QED
      BY <3>2
  <2>2. k \in NearPlaces(old, new)
    <3>1. Changed(old, new, k) /\ k - 0 = k /\ k >= 1 /\ 0 \in 0 .. Context
      BY <1>3, <2>1, ContextAssumption DEF Changed
    <3> QED
      BY <3>1 DEF NearPlaces, Near
  <2>3. PICK a, b \in NearPlaces(old, new) :
            /\ a <= b /\ a .. b \subseteq NearPlaces(old, new)
            /\ a - 1 \notin NearPlaces(old, new) /\ b + 1 \notin NearPlaces(old, new)
            /\ k \in a .. b
    <3>1. NearPlaces(old, new) \in SUBSET (1 .. Len(all))
      BY DEF NearPlaces
    <3> DEFINE S == NearPlaces(old, new)
               top == Len(all)
    <3>2. S \in SUBSET (1 .. top) /\ k \in S /\ top \in Nat
      BY <1>1, <2>2, <3>1
    <3> HIDE DEF S, top
    <3>3. \E a, b \in S : /\ a <= b /\ a .. b \subseteq S
                          /\ a - 1 \notin S /\ b + 1 \notin S /\ k \in a .. b
      BY <3>2, RunAround
    <3> QED
      BY <3>3 DEF S
  <2>4. IsRun(old, new, a, b)
    BY <2>3 DEF IsRun
  <2> DEFINE h == Hunk(f, old, new, a, b)
  <2>5. h \in G
    BY <2>4, HunksAreRuns
  <2>6. h.come = {all[n] : n \in a .. b} \ old /\ h.gone = {all[n] : n \in a .. b} \ new
    BY DEF Hunk
  <2> HIDE DEF h, all
  <2> QED
    BY <1>3, <2>1, <2>3, <2>5, <2>6
<1> HIDE DEF G
<1> QED
  BY <1>2, <1>3 DEF G

\* Two contents of a file that differ have a hunk.
LEMMA DifferentContentsHaveHunks ==
    ASSUME NEW f \in File, NEW old \in Content(f), NEW new \in Content(f), old # new
    PROVE  \E h \in HunksBetween(f, old, new) : h.file = f
<1>1. PICK h \in HunksBetween(f, old, new) : TRUE
  <2>1. new \ old # {} \/ old \ new # {}
    OBVIOUS
  <2> QED
    BY <2>1, MovedIsDifference
<1>2. PICK i, j : h = Hunk(f, old, new, i, j)
  BY HunksAreRuns
<1> QED
  BY <1>2 DEF Hunk

\* The contents a file may have, also when git has left lines of no master text.
Known(tree) == \A f \in File : tree[f] \in Content(f) \cup {Garbled}

\* If a diff counts the same hunks as some that were selected, only files with a
\* selected hunk differ.
LEMMA OthersDoNotDiffer ==
    ASSUME NEW tree, Known(tree), NEW hunks,
           body_counts(Hunks(Diff(HEAD, tree, File))) = body_counts(hunks)
    PROVE  \A f \in File \ Paths(hunks) : tree[f] = HEAD[f]
<1> SUFFICES ASSUME NEW f \in File, f \notin Paths(hunks), tree[f] # HEAD[f] PROVE FALSE
  OBVIOUS
<1> DEFINE diff == Diff(HEAD, tree, File)
           d == [file |-> f, old |-> HEAD[f], new |-> tree[f]]
<1>1. d \in diff
  BY DEF Diff
<1>2. PICK h \in Hunks(diff) : h.file = f
  <2>1. CASE Garbled \in {d.old, d.new}
    <3>1. GarbledHunk(f) \in Hunks(diff)
      BY <1>1, <2>1 DEF Hunks
    <3> QED
      BY <3>1 DEF GarbledHunk
  <2>2. CASE Garbled \notin {d.old, d.new}
    <3>1. HEAD[f] \in Content(f) /\ tree[f] \in Content(f)
      BY <2>2, HeadAssumption DEF Known
    <3>2. HunkTable[f][<<HEAD[f], tree[f]>>] = HunksBetween(f, HEAD[f], tree[f])
      BY <3>1 DEF HunkTable
    <3>3. HunksBetween(f, HEAD[f], tree[f]) \subseteq Hunks(diff)
      BY <1>1, <2>2, <3>2 DEF Hunks
    <3> QED
      BY <3>1, <3>3, DifferentContentsHaveHunks
  <2> QED
    BY <2>1, <2>2
<1>3. hunk_body_key(h) \in {hunk_body_key(g) : g \in hunks}
  <2>1. \A H : DOMAIN body_counts(H) = {hunk_body_key(g) : g \in H}
    BY DEF body_counts
  <2>2. hunk_body_key(h) \in DOMAIN body_counts(Hunks(diff))
    BY <2>1
  <2> QED
    BY <2>1, <2>2
<1>4. PICK g \in hunks : hunk_body_key(h) = hunk_body_key(g)
  BY <1>3
<1>5. g.file = f
  BY <1>2, <1>4 DEF hunk_body_key
<1> QED
  BY <1>4, <1>5 DEF Paths

-----------------------------------------------------------------------------
(* What commit_ready says of the files that were not selected *)

\* git apply leaves the files it does not know garbled.
LEMMA AppliedIsKnown ==
    ASSUME NEW tree, Known(tree), NEW hunks, NEW rev
    PROVE  Known(Applied(tree, hunks, rev))
<1>1. ASSUME NEW f \in File, NEW image
      PROVE  Recognised(f, image) \in Content(f) \cup {Garbled}
  BY DEF Recognised
<1> QED
  BY <1>1 DEF Applied, Known

\* What the handler has seen of the full index.
OthersAsCommitted == \A f \in File \ selected_paths : kept.staged[f] = HEAD[f]

\* The inductive invariant: once the handler has looked at the full index, and
\* whatever is written after, that look has found the other files as committed.
CleanInv ==
    /\ Known(index)
    /\ "staged" \in DOMAIN kept
    /\ pc = "full_unstaged" \/ commit_ready => OthersAsCommitted

\* Nothing has been looked at before the call.
LEMMA CleanInit == Init => CleanInv
BY DEF Init, Trees, Known, CleanInv, commit_ready, NothingKept

\* A call that has not come to its last look, or has ended otherwise.
LEMMA NotReadyYet ==
    ASSUME CleanInv, Known(index'), pc' # "full_unstaged",
           result' # "applied" \/ ~ prepare',
           DOMAIN kept' = DOMAIN kept \/ kept' = NothingKept
    PROVE  CleanInv'
BY DEF CleanInv, commit_ready, NothingKept

\* Every step keeps it.
LEMMA CleanStep == TypeOK /\ CleanInv /\ [Next]_vars => CleanInv'
<1> SUFFICES ASSUME TypeOK, CleanInv, [Next]_vars PROVE CleanInv'
  OBVIOUS
<1>1. Known(index)
  BY DEF CleanInv
<1>2. pc # "done" => result # "applied"
  BY DEF TypeOK
<1>3. ASSUME NEW action \in Actions, NEW scope \in Scopes, Request(action, scope)
      PROVE  CleanInv'
  BY <1>1, <1>2, <1>3, NotReadyYet DEF Request, repository
<1>4. CASE Source \/ Clean \/ reject_mixed_direction_files \/ PreTarget \/ PreUnstaged
  BY <1>1, <1>2, <1>4, NotReadyYet
     DEF Source, Clean, reject_mixed_direction_files, PreTarget, PreUnstaged,
         Refuse, Fail, End, Goto, repository
<1>5. CASE Preflight \/ PreBlobs \/ FailsBefore \/ ApplyFails
  BY <1>1, <1>2, <1>5, NotReadyYet
     DEF Preflight, PreBlobs, FailsBefore, ApplyFails, Fail, End, Goto, repository
<1>6. ASSUME NEW hunks, Writes(hunks) \/ UNCHANGED index, pc' # "full_unstaged",
             result' # "applied", UNCHANGED kept \/ kept' = NothingKept
      PROVE  CleanInv'
  <2>1. Known(index')
    BY <1>1, <1>6, AppliedIsKnown DEF Writes
  <2> QED
    BY <1>6, <2>1, NotReadyYet
<1>7. CASE ApplySucceeds
  BY <1>2, <1>6, <1>7 DEF ApplySucceeds
<1>8. CASE ApplyTimesOut \/ ApplyUnavailable
  BY <1>6, <1>8 DEF ApplyTimesOut, ApplyUnavailable, Fail, End
<1>9. CASE ApplyIsCutShort
  BY <1>6, <1>9 DEF ApplyIsCutShort, Fail, End
<1>10. CASE PostSource \/ PostTarget \/ FailsAfter
  BY <1>1, <1>2, <1>10, NotReadyYet
     DEF PostSource, PostTarget, FailsAfter, Mismatch, Fail, End, Goto, repository
<1>11. CASE verify_index_blob_delta
  BY <1>1, <1>2, <1>11, NotReadyYet
     DEF verify_index_blob_delta, Mismatch, Fail, End, Goto, repository, prepare
<1>12. CASE FullStaged
  <2>1. CASE body_counts(Hunks(enumerate_diff(TRUE, File))) # body_counts(selected)
    BY <1>1, <1>12, <2>1, NotReadyYet DEF FullStaged, Mismatch, Fail, End, repository
  <2>2. CASE body_counts(Hunks(Diff(HEAD, index, File))) = body_counts(selected)
    <3>1. \A f \in File \ selected_paths : index[f] = HEAD[f]
      BY <1>1, <2>2, OthersDoNotDiffer DEF selected_paths
    <3>2. kept' = [kept EXCEPT !.staged = index] /\ UNCHANGED <<req, index>>
      BY <1>12, <2>2 DEF FullStaged, enumerate_diff, Goto, repository
    <3>3. kept'.staged = index /\ "staged" \in DOMAIN kept'
      BY <3>2 DEF CleanInv
    <3> QED
      BY <1>1, <3>1, <3>2, <3>3
         DEF CleanInv, OthersAsCommitted, selected_paths, selected, commit_ready, Known
  <2> QED
    BY <2>1, <2>2 DEF enumerate_diff
<1>13. CASE FullUnstaged
  <2>1. CASE UNCHANGED <<req, kept, index>> /\ pc = "full_unstaged"
    BY <2>1 DEF CleanInv, OthersAsCommitted, selected_paths, selected, commit_ready, Known
  <2>2. CASE ~ (UNCHANGED <<req, kept, index>> /\ pc = "full_unstaged")
    BY <1>1, <1>13, <2>2, NotReadyYet DEF FullUnstaged, Mismatch, Fail, End, repository
  <2> QED
    BY <2>1, <2>2
<1>14. ASSUME NEW f \in File, NEW c \in Content(f), Save(f, c) \/ WriteIndex(f, c)
       PROVE  CleanInv'
  <2>1. Known(index')
    <3>1. DOMAIN index = File
      BY DEF TypeOK
    <3> QED
      BY <1>1, <1>14, <3>1 DEF Known, Save, WriteIndex
  <2>2. UNCHANGED <<pc, req, kept, result>>
    BY <1>14 DEF Save, WriteIndex, Disturb
  <2> QED
    BY <2>1, <2>2 DEF CleanInv, OthersAsCommitted, selected_paths, selected, commit_ready, prepare
<1>15. CASE Lock \/ Unlock \/ UNCHANGED vars
  BY <1>15 DEF Lock, Unlock, Disturb, vars, CleanInv, Known, OthersAsCommitted,
     selected_paths, selected, commit_ready, prepare
<1> QED
  BY <1>3, <1>4, <1>5, <1>7, <1>8, <1>9, <1>10, <1>11, <1>12, <1>13, <1>14, <1>15 DEF Next

\* A call that answers commit_ready has seen nothing staged but in the files it
\* was given hunks of: for any files, lines and context, whoever else writes and
\* however much the hunks are alike.
THEOREM NothingElseIsStaged == Spec => []ReadyIsClean
<1>1. CleanInv => ReadyIsClean
  BY DEF CleanInv, OthersAsCommitted, ReadyIsClean
<1>2. TypeOK' /\ CleanInv /\ TypeOK /\ [Next]_vars => CleanInv'
  BY CleanStep
<1> QED
  BY <1>1, <1>2, StageTypeOK, CleanInit, PTL DEF Spec

\* The index holds contents of the master text, or what git could not place.
THEOREM IndexIsKnown == Spec => []Known(index)
<1>1. CleanInv => Known(index)
  BY DEF CleanInv
<1>2. TypeOK' /\ CleanInv /\ TypeOK /\ [Next]_vars => CleanInv'
  BY CleanStep
<1> QED
  BY <1>1, <1>2, StageTypeOK, CleanInit, PTL DEF Spec

-----------------------------------------------------------------------------
(* What "applied" says of the selected files *)

\* Every file of a tree has a content of its master text.
Proper(tree) == \A f \in File : tree[f] \in Content(f)

\* A request names hunks of a diff, of each file once, between contents it may have.
Requested ==
    /\ \A d \in req.diff : /\ d.file \in File
                           /\ d.old \in Content(d.file) /\ d.new \in Content(d.file)
    /\ \A d, e \in req.diff : d.file = e.file => d = e
    /\ selected \subseteq Hunks(req.diff)

\* The blobs seen after the apply read as those before, spliced.
SeenAsExpected ==
    \A f \in selected_paths :
        /\ kept.seen[f] \in Content(f) \cup {Garbled}
        /\ Lines(kept.seen[f])
             = apply_selected_hunks_to_blob(Lines(kept.blobs[f]), OfFile(selected, f), reverse)

\* A call that is under way or has ended in "applied"; one that has looked at the blobs.
Going == pc \notin {"idle", "done"} \/ result = "applied"
Looked == pc \in {"full_staged", "full_unstaged"} \/ result = "applied"

\* The inductive invariant: what the client has listed were contents of the master
\* text, and a call that goes on past its look at the blobs has found what it expected.
ExactInv ==
    /\ Proper(work)
    /\ pc = "idle" => Proper(index)
    /\ DOMAIN kept = DOMAIN NothingKept
    /\ Going => Requested
    /\ Looked => SeenAsExpected

\* A hunk of a diff is one between the two versions of its file.
LEMMA SelectedIsHunk ==
    ASSUME Requested, NEW h \in selected
    PROVE  \E d \in req.diff : /\ d.file = h.file /\ d.file \in File
                               /\ d.old \in Content(d.file) /\ d.new \in Content(d.file)
                               /\ h \in HunksBetween(d.file, d.old, d.new)
<1>1. PICK d \in req.diff : h \in IF Garbled \in {d.old, d.new} THEN {GarbledHunk(d.file)}
                                  ELSE HunkTable[d.file][<<d.old, d.new>>]
  BY DEF Requested, Hunks
<1>2. d.file \in File /\ d.old \in Content(d.file) /\ d.new \in Content(d.file)
  BY DEF Requested
<1>3. Garbled \notin {d.old, d.new}
  BY <1>2, GarbledAssumption DEF Contents
<1>4. HunkTable[d.file][<<d.old, d.new>>] = HunksBetween(d.file, d.old, d.new)
  BY <1>2 DEF HunkTable
<1>5. h \in HunksBetween(d.file, d.old, d.new)
  BY <1>1, <1>3, <1>4
<1>6. PICK i, j : h = Hunk(d.file, d.old, d.new, i, j)
  BY <1>5, HunksAreRuns
<1>7. h.file = d.file
  BY <1>6 DEF Hunk
<1> QED
  BY <1>2, <1>5, <1>7

\* The hunks a client has selected of a file are hunks between its two versions.
LEMMA SelectedAreOf ==
    ASSUME Requested, NEW d \in req.diff
    PROVE  AreOf(selected, d.file, d.old, d.new)
BY SelectedIsHunk DEF AreOf, Requested

\* What reads like a content of the master text is that content.
LEMMA ReadAsTheSame ==
    ASSUME NEW f \in File, NEW c \in Content(f) \cup {Garbled}, NEW d \in Content(f),
           Lines(c) = Lines(d)
    PROVE  c = d
<1>1. CASE c \in Content(f)
  BY <1>1, TextAssumption
<1>2. CASE c = Garbled
  <2>1. Lines(c) = <<Garbled>>
    BY <1>2 DEF Lines
  <2>2. d \in SUBSET Line /\ d \in Contents
    BY ContentShape DEF Present, Contents
  <2>3. Lines(d) \in Seq(Texts)
    <3>1. Reads(Lines(d), InOrder(d), d, 1, Cardinality(d))
      BY <2>2, BlobReads
    <3> QED
      BY <3>1 DEF Reads
  <2>4. Garbled \in Texts
    <3>1. Lines(d) = <<Garbled>>
      BY <2>1
    <3> QED
      BY <2>3, <3>1
  <2> QED
    BY <2>4, GarbledAssumption DEF Texts
<1> QED
  BY <1>1, <1>2

\* The blobs seen are those before with the lines of the selected hunks exchanged.
LEMMA ExactWhenSeen ==
    ASSUME Context > 0, Requested, SeenAsExpected, NEW f \in selected_paths, Listed(f)
    PROVE  kept.seen[f] = Edited(kept.blobs[f], f)
<1>1. PICK d \in req.diff : d.file = f /\ kept.blobs[f] = IF reverse THEN d.new ELSE d.old
  BY DEF Listed
<1> DEFINE S == IF reverse THEN d.new ELSE d.old
           E == Exchanged(selected, f, S, reverse)
<1>2. f \in File /\ d.old \in Content(f) /\ d.new \in Content(f)
  BY <1>1 DEF Requested
<1>3. AreOf(selected, f, d.old, d.new) /\ reverse \in BOOLEAN
  BY <1>1, SelectedAreOf DEF reverse
<1>4. /\ E \in Content(f)
      /\ apply_selected_hunks_to_blob(Lines(S), OfFile(selected, f), reverse) = Lines(E)
  <2> HIDE DEF reverse, selected
  <2> QED
    BY <1>2, <1>3, SpliceIsExact, Zenon
<1>5. E = Edited(kept.blobs[f], f)
  BY <1>1 DEF Exchanged, Edited
<1>6. /\ kept.seen[f] \in Content(f) \cup {Garbled}
      /\ Lines(kept.seen[f]) = Lines(E)
  BY <1>1, <1>4 DEF SeenAsExpected
<1> HIDE DEF E
<1>7. kept.seen[f] = E
  BY <1>2, <1>4, <1>6, ReadAsTheSame
<1> QED
  BY <1>5, <1>7

\* A new call has looked at nothing.
LEMMA ExactInit == Init => ExactInv
BY DEF Init, Trees, Proper, ExactInv, Going, Looked

\* A call that ends without "applied", and one that goes on before it has looked.
LEMMA ExactEnds ==
    ASSUME ExactInv, work' = work, pc' = "done", result' # "applied", kept' = NothingKept
    PROVE  ExactInv'
BY DEF ExactInv, Proper, Going, Looked

\* A step that stays within the call and has not come past the look at the blobs.
LEMMA ExactGoesOn ==
    ASSUME TypeOK, ExactInv, UNCHANGED <<work, req, result>>, pc \notin {"idle", "done"},
           pc' \notin {"idle", "done", "full_staged", "full_unstaged"},
           DOMAIN kept' = DOMAIN kept
    PROVE  ExactInv'
BY DEF TypeOK, ExactInv, Proper, Going, Looked, Requested, selected

\* A request is for hunks that enumerate_diff has listed.
LEMMA RequestIsProper ==
    ASSUME ExactInv, TypeOK, NEW action \in Actions, NEW scope \in Scopes, Request(action, scope)
    PROVE  ExactInv'
<1> DEFINE diff == enumerate_diff(action = "unstage", scope)
<1>1. PICK chosen \in SUBSET Hunks(diff) \ {{}} :
           req' = [action |-> action, scope |-> scope, diff |-> diff, hunks |-> chosen]
  BY DEF Request
<1>2. Proper(work) /\ Proper(index) /\ Proper(HEAD)
  BY HeadAssumption DEF ExactInv, Request, Proper
<1>3. ASSUME NEW old, NEW new, Proper(old), Proper(new)
      PROVE  /\ \A d \in Diff(old, new, scope) :
                    /\ d.file \in File
                    /\ d.old \in Content(d.file) /\ d.new \in Content(d.file)
             /\ \A d, e \in Diff(old, new, scope) : d.file = e.file => d = e
  <2>1. \A d \in Diff(old, new, scope) :
           \E g \in File : d = [file |-> g, old |-> old[g], new |-> new[g]]
    BY ScopeAssumption DEF Diff
  <2> QED
    BY <1>3, <2>1 DEF Proper
<1>4. /\ \A d \in diff : /\ d.file \in File
                         /\ d.old \in Content(d.file) /\ d.new \in Content(d.file)
      /\ \A d, e \in diff : d.file = e.file => d = e
  BY <1>2, <1>3 DEF enumerate_diff
<1>5. req'.diff = diff /\ req'.hunks = chosen /\ chosen \subseteq Hunks(diff)
  BY <1>1
<1> HIDE DEF diff
<1>6. Requested'
  BY <1>4, <1>5 DEF Requested, selected
<1> QED
  BY <1>6 DEF ExactInv, Request, repository, Proper, Going, Looked, TypeOK

\* Every step keeps it.
LEMMA ExactStep == TypeOK /\ Known(index) /\ ExactInv /\ [Next]_vars => ExactInv'
<1> SUFFICES ASSUME TypeOK, Known(index), ExactInv, [Next]_vars PROVE ExactInv'
  OBVIOUS
<1>1. pc # "done" => result # "applied"
  BY DEF TypeOK
<1>2. DOMAIN kept = DOMAIN NothingKept
  BY DEF ExactInv
<1>3. ASSUME NEW action \in Actions, NEW scope \in Scopes, Request(action, scope)
      PROVE  ExactInv'
  BY <1>3, RequestIsProper
<1>4. CASE Source \/ Clean \/ reject_mixed_direction_files \/ PreTarget \/ PreUnstaged
  BY <1>1, <1>4, ExactEnds, ExactGoesOn
     DEF Source, Clean, reject_mixed_direction_files, PreTarget, PreUnstaged,
         Refuse, Fail, End, Goto, repository
<1>5. CASE Preflight \/ PreBlobs \/ FailsBefore \/ ApplyFails
  BY <1>1, <1>5, ExactEnds, ExactGoesOn
     DEF Preflight, PreBlobs, FailsBefore, ApplyFails, Fail, End, Goto, repository
<1>6. CASE ApplySucceeds
  BY <1>1, <1>6, ExactGoesOn DEF ApplySucceeds
<1>7. CASE ApplyTimesOut \/ ApplyIsCutShort \/ ApplyUnavailable
  BY <1>7, ExactEnds DEF ApplyTimesOut, ApplyIsCutShort, ApplyUnavailable, Fail, End
<1>8. CASE PostSource \/ PostTarget \/ FailsAfter
  BY <1>1, <1>8, ExactEnds, ExactGoesOn
     DEF PostSource, PostTarget, FailsAfter, Mismatch, Fail, End, Goto, repository
<1>9. CASE verify_index_blob_delta
  <2>1. CASE [f \in selected_paths |-> Lines(index[f])] # expected
    BY <1>9, <2>1, ExactEnds DEF verify_index_blob_delta, Mismatch, Fail, End, repository
  <2>2. CASE [f \in selected_paths |-> Lines(index[f])] = expected
    <3>1. /\ kept' = [kept EXCEPT !.seen = index_blobs_for_paths]
          /\ UNCHANGED <<req, work>> /\ pc = "post_blobs" /\ pc' \in {"full_staged", "done"}
      BY <1>9, <2>2 DEF verify_index_blob_delta, Goto, End, repository
    <3>2. Requested /\ Requested'
      BY <3>1 DEF ExactInv, Going, Requested, selected
    <3>3. selected_paths \subseteq File
      BY <3>2, SelectedIsHunk DEF selected_paths, Paths
    <3>4. kept'.blobs = kept.blobs /\ kept'.seen = index_blobs_for_paths
      BY <1>2, <3>1 DEF NothingKept
    <3>5. ASSUME NEW f \in selected_paths
          PROVE  /\ index[f] \in Content(f) \cup {Garbled}
                 /\ index_blobs_for_paths[f] = index[f]
                 /\ Lines(index[f]) = apply_selected_hunks_to_blob(
                        Lines(kept.blobs[f]), OfFile(selected, f), reverse)
      <4>1. [g \in selected_paths |-> Lines(index[g])][f] = expected[f]
        BY <2>2
      <4> QED
        BY <3>3, <4>1 DEF expected, index_blobs_for_paths, Known
    <3>6. SeenAsExpected'
      BY <3>1, <3>4, <3>5 DEF SeenAsExpected, selected_paths, selected, reverse
    <3>7. Proper(work') /\ pc' # "idle" /\ DOMAIN kept' = DOMAIN NothingKept
      BY <1>2, <3>1 DEF ExactInv
    <3> QED
      BY <3>2, <3>6, <3>7 DEF ExactInv
  <2> QED
    BY <2>1, <2>2
<1>10. ASSUME pc \in {"full_staged", "full_unstaged"}, UNCHANGED <<work, req>>, pc' # "idle",
              kept' = kept \/ kept' = [kept EXCEPT !.staged = index]
       PROVE  ExactInv'
  <2>1. Requested' /\ SeenAsExpected /\ Proper(work')
    BY <1>10 DEF ExactInv, Going, Looked, Requested, selected
  <2>2. kept'.seen = kept.seen /\ kept'.blobs = kept.blobs /\ DOMAIN kept' = DOMAIN NothingKept
    BY <1>2, <1>10 DEF NothingKept
  <2>3. SeenAsExpected'
    BY <1>10, <2>1, <2>2 DEF SeenAsExpected, selected_paths, selected, reverse
  <2> QED
    BY <1>10, <2>1, <2>2, <2>3 DEF ExactInv
<1>11. CASE FullStaged
  <2>1. CASE body_counts(Hunks(enumerate_diff(TRUE, File))) # body_counts(selected)
    BY <1>11, <2>1, ExactEnds DEF FullStaged, Mismatch, Fail, End, repository
  <2>2. CASE body_counts(Hunks(enumerate_diff(TRUE, File))) = body_counts(selected)
    BY <1>10, <1>11, <2>2 DEF FullStaged, Goto, repository
  <2> QED
    BY <2>1, <2>2
<1>12. CASE FullUnstaged
  <2>1. CASE UNCHANGED <<req, kept>>
    BY <1>10, <1>12, <2>1 DEF FullUnstaged, Mismatch, Fail, End, repository
  <2>2. CASE ~ UNCHANGED <<req, kept>>
    BY <1>12, <2>2, ExactEnds DEF FullUnstaged, Mismatch, Fail, End, repository
  <2> QED
    BY <2>1, <2>2
<1>13. ASSUME UNCHANGED <<pc, req, kept, result>>, pc # "idle" \/ index' = index, Proper(work')
       PROVE  ExactInv'
  BY <1>13 DEF ExactInv, Proper, Going, Looked, Requested, SeenAsExpected, selected_paths,
     selected, reverse
<1>14. ASSUME NEW f \in File, NEW c \in Content(f), Save(f, c) \/ WriteIndex(f, c)
       PROVE  ExactInv'
  <2>1. Proper(work')
    <3>1. DOMAIN work = File /\ Proper(work)
      BY DEF TypeOK, ExactInv
    <3> QED
      BY <1>14, <3>1 DEF Proper, Save, WriteIndex
  <2> QED
    BY <1>13, <1>14, <2>1 DEF Save, WriteIndex, Disturb
<1>15. CASE Lock \/ Unlock \/ UNCHANGED vars
  <2>1. UNCHANGED <<pc, req, kept, result, index, work>>
    BY <1>15 DEF Lock, Unlock, Disturb, vars
  <2>2. Proper(work')
    BY <2>1 DEF ExactInv, Proper
  <2> QED
    BY <1>13, <2>1, <2>2
<1> QED
  BY <1>3, <1>4, <1>5, <1>6, <1>7, <1>8, <1>9, <1>11, <1>12, <1>14, <1>15 DEF Next

\* With context around the hunks, an answer "applied" means that the index has held the
\* blobs as read before the apply, with exactly the lines of the selected hunks come
\* or gone: for any files whose contents read differently, whatever else fits elsewhere
\* and whoever writes meanwhile.
THEOREM AppliedExactly == ASSUME Context > 0 PROVE Spec => []AppliedIsExact
<1>1. ExactInv => AppliedIsExact
  BY ExactWhenSeen DEF ExactInv, Going, Looked, AppliedIsExact
<1>2. TypeOK /\ Known(index) /\ ExactInv /\ [Next]_vars => ExactInv'
  BY ExactStep
<1> QED
  BY <1>1, <1>2, StageTypeOK, IndexIsKnown, ExactInit, PTL DEF Spec

-----------------------------------------------------------------------------
(* What commit_ready says of the selected files *)

\* If the full staged diff counts the same hunks as were selected, as many lines differ
\* from HEAD in a selected file, of each text, as the selected hunks bring or take away.
LEMMA StagedAsSelected ==
    ASSUME Requested, Known(index), NEW f \in selected_paths,
           body_counts(Hunks(Diff(HEAD, index, File))) = body_counts(selected), NEW text
    PROVE  /\ Reading(index[f] \ HEAD[f], text)
                = Reading(UNION {h.come : h \in Mine(selected, f)}, text)
           /\ Reading(HEAD[f] \ index[f], text)
                = Reading(UNION {h.gone : h \in Mine(selected, f)}, text)
<1> DEFINE diff == Diff(HEAD, index, File)
           A == Hunks(diff)
           e == [file |-> f, old |-> HEAD[f], new |-> index[f]]
<1>1. PICK h \in selected : h.file = f
  BY DEF selected_paths, Paths
<1>2. PICK d \in req.diff : /\ d.file = f /\ f \in File
                            /\ d.old \in Content(f) /\ d.new \in Content(f)
                            /\ h \in HunksBetween(f, d.old, d.new)
  BY <1>1, SelectedIsHunk
<1>3. AreOf(selected, f, d.old, d.new)
  BY <1>2, SelectedAreOf
<1>4. h.body # <<>>
  <2>1. PICK i, j : IsRun(d.old, d.new, i, j) /\ h = Hunk(f, d.old, d.new, i, j)
    BY <1>2, HunksAreRuns
  <2>2. i \in Nat /\ j \in Nat /\ i <= j
    <3>1. Len(InOrder(d.old \cup d.new)) \in Nat
      <4>1. /\ Len(InOrder(d.old \cup d.new)) = Cardinality(d.old \cup d.new)
            /\ Cardinality(d.old \cup d.new) \in Nat
        BY <1>2, BothVersions, Zenon
      <4> QED
        BY <4>1
    <3> QED
      BY <2>1, <3>1, RunsApart
  <2>3. DOMAIN h.body = 1 .. j - i + 1
    BY <2>1 DEF Hunk
  <2>4. 1 \in DOMAIN h.body
    BY <2>2, <2>3
  <2> QED
    BY <2>4
<1>5. PICK a \in A : a.file = f /\ a.body # <<>>
  <2>1. \A H : DOMAIN body_counts(H) = {hunk_body_key(g) : g \in H}
    BY DEF body_counts
  <2>2. hunk_body_key(h) \in {hunk_body_key(g) : g \in A}
    <3>1. hunk_body_key(h) \in DOMAIN body_counts(selected)
      BY <1>1, <2>1
    <3> QED
      BY <2>1, <3>1
  <2>3. PICK a \in A : hunk_body_key(a) = hunk_body_key(h)
    BY <2>2
  <2> QED
    BY <1>1, <1>4, <2>3 DEF hunk_body_key
<1>6. ASSUME NEW g \in A
      PROVE  \E n \in File :
                /\ [file |-> n, old |-> HEAD[n], new |-> index[n]] \in diff /\ g.file = n
                /\ IF Garbled = index[n] THEN g.body = <<>>
                   ELSE /\ HEAD[n] \in Content(n) /\ index[n] \in Content(n)
                        /\ g \in HunksBetween(n, HEAD[n], index[n])
  <2>1. PICK n \in File :
          LET c == [file |-> n, old |-> HEAD[n], new |-> index[n]]
          IN  /\ c \in diff
              /\ g \in IF Garbled \in {c.old, c.new} THEN {GarbledHunk(c.file)}
                       ELSE HunkTable[c.file][<<c.old, c.new>>]
    <3>1. PICK c \in diff : g \in IF Garbled \in {c.old, c.new} THEN {GarbledHunk(c.file)}
                                  ELSE HunkTable[c.file][<<c.old, c.new>>]
      BY DEF Hunks
    <3>2. PICK n \in File : c = [file |-> n, old |-> HEAD[n], new |-> index[n]]
      BY DEF Diff
    <3> QED
      BY <3>1, <3>2
  <2>2. HEAD[n] \in Content(n) /\ HEAD[n] # Garbled
    BY HeadAssumption, GarbledAssumption DEF Contents
  <2>3. CASE index[n] = Garbled
    <3>1. g = GarbledHunk(n)
      BY <2>1, <2>3
    <3>2. g.file = n /\ g.body = <<>>
      BY <3>1 DEF GarbledHunk
    <3> QED
      BY <2>1, <2>3, <3>2
  <2>4. CASE index[n] # Garbled
    <3>1. index[n] \in Content(n)
      BY <2>4 DEF Known
    <3>2. HunkTable[n][<<HEAD[n], index[n]>>] = HunksBetween(n, HEAD[n], index[n])
      BY <2>2, <3>1 DEF HunkTable
    <3>3. g \in HunksBetween(n, HEAD[n], index[n])
      BY <2>1, <2>2, <2>4, <3>2
    <3>4. PICK i, j : g = Hunk(n, HEAD[n], index[n], i, j)
      BY <3>3, HunksAreRuns
    <3>5. g.file = n
      BY <3>4 DEF Hunk
    <3> QED
      BY <2>1, <2>2, <2>4, <3>1, <3>3, <3>5
  <2> QED
    BY <2>3, <2>4
<1> HIDE DEF diff, A
<1>7. /\ e \in diff /\ index[f] # Garbled
      /\ HEAD[f] \in Content(f) /\ index[f] \in Content(f)
  BY <1>5, <1>6
<1>8. AreOf(A, f, HEAD[f], index[f])
  BY <1>6, <1>7 DEF AreOf
<1>9. Mine(A, f) = HunksBetween(f, HEAD[f], index[f])
  <2>1. Mine(A, f) \subseteq HunksBetween(f, HEAD[f], index[f])
    BY <1>8 DEF AreOf, Mine
  <2>2. ASSUME NEW g \in HunksBetween(f, HEAD[f], index[f]) PROVE g \in Mine(A, f)
    <3>1. HunkTable[f][<<HEAD[f], index[f]>>] = HunksBetween(f, HEAD[f], index[f])
      BY <1>2, <1>7 DEF HunkTable
    <3>2. Garbled \notin {e.old, e.new}
      <4>1. HEAD[f] # Garbled /\ index[f] # Garbled
        BY <1>2, <1>7, GarbledAssumption DEF Contents
      <4> QED
        BY <4>1
    <3>3. g \in A
      BY <1>7, <3>1, <3>2 DEF A, Hunks
    <3>4. PICK i, j : g = Hunk(f, HEAD[f], index[f], i, j)
      BY HunksAreRuns
    <3>5. g.file = f
      BY <3>4 DEF Hunk
    <3> QED
      BY <3>3, <3>5 DEF Mine
  <2> QED
    BY <2>1, <2>2
<1>10. ASSUME NEW sign \in {"+", "-"}
       PROVE  Cardinality(LinesMoved(Mine(A, f), sign, text))
                = Cardinality(LinesMoved(Mine(selected, f), sign, text))
  <2>1. body_counts(A) = body_counts(selected)
    BY DEF A, diff
  <2> QED
    BY <1>2, <1>3, <1>7, <1>8, <2>1, SameCountsSameLines
<1>11. \A H : /\ Reading(UNION {g.come : g \in H}, text) = Cardinality(LinesMoved(H, "+", text))
              /\ Reading(UNION {g.gone : g \in H}, text) = Cardinality(LinesMoved(H, "-", text))
  BY DEF Reading, LinesMoved, Moved
<1>12. /\ UNION {g.come : g \in Mine(A, f)} = index[f] \ HEAD[f]
       /\ UNION {g.gone : g \in Mine(A, f)} = HEAD[f] \ index[f]
  BY <1>2, <1>7, <1>9, MovedIsDifference
<1>13. /\ Reading(index[f] \ HEAD[f], text) = Cardinality(LinesMoved(Mine(A, f), "+", text))
       /\ Reading(HEAD[f] \ index[f], text) = Cardinality(LinesMoved(Mine(A, f), "-", text))
  BY <1>11, <1>12
<1> QED
  BY <1>10, <1>11, <1>13

\* What the last look at the full index has found in the selected files.
StagedReads ==
    \A f \in selected_paths : \A text \in Texts :
        /\ Reading(kept.staged[f] \ HEAD[f], text)
             = Reading(UNION {h.come : h \in Mine(selected, f)}, text)
        /\ Reading(HEAD[f] \ kept.staged[f], text)
             = Reading(UNION {h.gone : h \in Mine(selected, f)}, text)

\* The inductive invariant: the staged hunks that a prepared commit looked at move, text by
\* text, as many lines as those selected.
ReadyInv ==
    /\ "staged" \in DOMAIN kept
    /\ pc = "full_unstaged" \/ commit_ready => StagedReads

\* A new call has not looked.
LEMMA ReadyInit == Init => ReadyInv
BY DEF Init, ReadyInv, commit_ready, NothingKept

\* A call that has not come to its last look, or has ended otherwise.
LEMMA NotReadBefore ==
    ASSUME ReadyInv, pc' # "full_unstaged", result' # "applied" \/ ~ prepare',
           DOMAIN kept' = DOMAIN kept \/ kept' = NothingKept
    PROVE  ReadyInv'
BY DEF ReadyInv, commit_ready, NothingKept

\* Every step keeps it; counting alike gives reading alike.
LEMMA ReadyStep ==
    TypeOK /\ Known(index) /\ ExactInv /\ ReadyInv /\ [Next]_vars => ReadyInv'
<1> SUFFICES ASSUME TypeOK, Known(index), ExactInv, ReadyInv, [Next]_vars PROVE ReadyInv'
  OBVIOUS
<1>1. pc # "done" => result # "applied"
  BY DEF TypeOK
<1>2. ASSUME NEW action \in Actions, NEW scope \in Scopes, Request(action, scope)
      PROVE  ReadyInv'
  BY <1>1, <1>2, NotReadBefore DEF Request, repository
<1>3. CASE Source \/ Clean \/ reject_mixed_direction_files \/ PreTarget \/ PreUnstaged
  BY <1>1, <1>3, NotReadBefore
     DEF Source, Clean, reject_mixed_direction_files, PreTarget, PreUnstaged,
         Refuse, Fail, End, Goto, repository
<1>4. CASE Preflight \/ PreBlobs \/ FailsBefore \/ ApplyFails
  BY <1>1, <1>4, NotReadBefore
     DEF Preflight, PreBlobs, FailsBefore, ApplyFails, Fail, End, Goto, repository
<1>5. CASE ApplySucceeds
  BY <1>1, <1>5, NotReadBefore DEF ApplySucceeds
<1>6. CASE ApplyTimesOut \/ ApplyIsCutShort \/ ApplyUnavailable
  BY <1>6, NotReadBefore DEF ApplyTimesOut, ApplyIsCutShort, ApplyUnavailable, Fail, End
<1>7. CASE PostSource \/ PostTarget \/ FailsAfter
  BY <1>1, <1>7, NotReadBefore
     DEF PostSource, PostTarget, FailsAfter, Mismatch, Fail, End, Goto, repository
<1>8. CASE verify_index_blob_delta
  BY <1>1, <1>8, NotReadBefore
     DEF verify_index_blob_delta, Mismatch, Fail, End, Goto, repository, prepare
<1>9. CASE FullStaged
  <2>1. CASE body_counts(Hunks(enumerate_diff(TRUE, File))) # body_counts(selected)
    BY <1>1, <1>9, <2>1, NotReadBefore DEF FullStaged, Mismatch, Fail, End, repository
  <2>2. CASE body_counts(Hunks(Diff(HEAD, index, File))) = body_counts(selected)
    <3>1. /\ kept' = [kept EXCEPT !.staged = index] /\ UNCHANGED <<req, index>>
          /\ pc = "full_staged"
      BY <1>9, <2>2 DEF FullStaged, enumerate_diff, Goto, repository
    <3>2. kept'.staged = index /\ "staged" \in DOMAIN kept'
      BY <3>1 DEF ReadyInv
    <3>3. Requested
      BY <3>1 DEF ExactInv, Going
    <3>4. ASSUME NEW f \in selected_paths, NEW text \in Texts
          PROVE  /\ Reading(index[f] \ HEAD[f], text)
                      = Reading(UNION {h.come : h \in Mine(selected, f)}, text)
                 /\ Reading(HEAD[f] \ index[f], text)
                      = Reading(UNION {h.gone : h \in Mine(selected, f)}, text)
      BY <2>2, <3>3, StagedAsSelected
    <3>5. StagedReads'
      BY <3>1, <3>2, <3>4 DEF StagedReads, selected_paths, selected
    <3> QED
      BY <3>2, <3>5 DEF ReadyInv
  <2> QED
    BY <2>1, <2>2 DEF enumerate_diff
<1>10. CASE FullUnstaged
  <2>1. CASE UNCHANGED <<req, kept>> /\ pc = "full_unstaged"
    BY <2>1 DEF ReadyInv, StagedReads, selected_paths, selected, commit_ready
  <2>2. CASE ~ (UNCHANGED <<req, kept>> /\ pc = "full_unstaged")
    BY <1>1, <1>10, <2>2, NotReadBefore DEF FullUnstaged, Mismatch, Fail, End, repository
  <2> QED
    BY <2>1, <2>2
<1>11. CASE UNCHANGED <<pc, req, kept, result>>
  BY <1>11 DEF ReadyInv, StagedReads, selected_paths, selected, commit_ready, prepare
<1>12. ASSUME NEW f \in File, NEW c \in Content(f), Save(f, c) \/ WriteIndex(f, c)
       PROVE  ReadyInv'
  BY <1>11, <1>12 DEF Save, WriteIndex, Disturb
<1>13. CASE Lock \/ Unlock \/ UNCHANGED vars
  BY <1>11, <1>13 DEF Lock, Unlock, Disturb, vars
<1> QED
  BY <1>2, <1>3, <1>4, <1>5, <1>6, <1>7, <1>8, <1>9, <1>10, <1>12, <1>13 DEF Next

\* A call that answers commit_ready has seen in the full index, of every text, as many
\* lines more and less than in HEAD as the selected hunks bring and take away: for any
\* files, lines and context, with hunks that read alike, and whoever writes meanwhile.
THEOREM CommitIsAsSelected == Spec => []ReadyIsExact
<1>1. ReadyInv => ReadyIsExact
  BY DEF ReadyInv, StagedReads, ReadyIsExact, Texts, Mine
<1>2. TypeOK /\ Known(index) /\ ExactInv /\ ReadyInv /\ [Next]_vars => ReadyInv'
  BY ReadyStep
<1>3. TypeOK /\ Known(index) /\ ExactInv /\ [Next]_vars => ExactInv'
  BY ExactStep
<1> QED
  BY <1>1, <1>2, <1>3, StageTypeOK, IndexIsKnown, ExactInit, ReadyInit, PTL DEF Spec

-----------------------------------------------------------------------------
(* What commit_ready says of the index, when nobody else has written *)

\* The index is HEAD with the lines of the selected hunks exchanged.
CommitIsExact ==
    commit_ready /\ calm =>
        \A f \in File : index[f] = IF f \in selected_paths THEN Edited(HEAD[f], f) ELSE HEAD[f]

\* Up to the apply the diff that was listed is that of the repository; after it only
\* the selected files differ from HEAD, and the blobs read before were those of HEAD.
BeforeTheApply ==
    /\ pc \in {"clean", "mixed", "target", "unstaged", "check", "blobs", "apply"}
          => req.diff = Diff(index, work, req.scope)
    /\ pc \in {"mixed", "target", "unstaged", "check", "blobs", "apply"}
          => \A f \in File : index[f] = HEAD[f]
    /\ pc = "apply" => kept.blobs = index_blobs_for_paths

AfterTheApply ==
    pc \in After \cup {"done"} =>
        /\ \A f \in File \ selected_paths : index[f] = HEAD[f]
        /\ \A f \in selected_paths :
              kept.blobs[f] = HEAD[f] /\ \E d \in req.diff : d.file = f /\ d.old = HEAD[f]
        /\ Looked => \A f \in selected_paths : kept.seen[f] = index[f]

\* The inductive invariant: an undisturbed prepared commit finds what HEAD has, and
\* writes nothing but the selected files.
CalmInv == calm /\ Going /\ prepare => BeforeTheApply /\ AfterTheApply

\* A new call has promised nothing.
LEMMA CalmInit == Init => CalmInv
BY DEF Init, CalmInv, Going

\* Nothing is promised of a call that has failed, nor of one that was disturbed.
LEMMA CalmNoMore ==
    ASSUME ~ calm' \/ (pc' = "done" /\ result' # "applied")
    PROVE  CalmInv'
BY DEF CalmInv, Going

\* Every step keeps it.
LEMMA CalmStep == TypeOK /\ ExactInv /\ CalmInv /\ [Next]_vars => CalmInv'
<1> SUFFICES ASSUME TypeOK, ExactInv, CalmInv, [Next]_vars, calm', Going', prepare'
             PROVE  BeforeTheApply' /\ AfterTheApply'
  BY DEF CalmInv
<1> USE DEF Before, After
<1>1. pc # "done" => result # "applied"
  BY DEF TypeOK
<1>2. \A x : Fail(x) => pc' = "done"
  BY DEF Fail, End
<1>3. ASSUME NEW action \in Actions, NEW scope \in Scopes, Request(action, scope)
      PROVE  BeforeTheApply' /\ AfterTheApply'
  BY <1>3 DEF Request, BeforeTheApply, AfterTheApply
<1>4. \* a call that was going on is one of which the invariant tells
      ASSUME UNCHANGED <<req, calm>>, pc \notin {"idle", "done"}
      PROVE  BeforeTheApply /\ AfterTheApply
  BY <1>4 DEF CalmInv, Going, prepare
<1>5. ASSUME \E x : x # "applied" /\ Fail(x) PROVE FALSE
  BY <1>5 DEF Fail, End, Going
<1>6. CASE Source
  <2>1. /\ pc' \in {"clean", "mixed"} /\ prepare /\ (prepare => pc' = "clean")
        /\ UNCHANGED <<index, work, req>>
        /\ enumerate_diff(source_staged, req.scope) = req.diff
    BY <1>5, <1>6 DEF Source, Refuse, Goto, repository, prepare
  <2>2. source_staged = FALSE
    BY <2>1 DEF source_staged, prepare
  <2>3. req.diff = Diff(index, work, req.scope)
    BY <2>1, <2>2 DEF enumerate_diff
  <2> QED
    BY <2>1, <2>3 DEF BeforeTheApply, AfterTheApply
<1>7. CASE Clean
  <2>1. /\ pc = "clean" /\ pc' = "mixed" /\ UNCHANGED <<index, work, req, calm>>
        /\ enumerate_diff(TRUE, File) = {}
    BY <1>5, <1>7 DEF Clean, Refuse, Goto, repository
  <2>2. BeforeTheApply
    BY <1>4, <2>1
  <2>3. \A f \in File : index[f] = HEAD[f]
    BY <2>1 DEF enumerate_diff, Diff
  <2> QED
    BY <2>1, <2>2, <2>3 DEF BeforeTheApply, AfterTheApply
<1>8. CASE reject_mixed_direction_files \/ PreTarget \/ PreUnstaged \/ Preflight
  <2>1. /\ pc \in {"mixed", "target", "unstaged", "check"}
        /\ pc' \in {"target", "unstaged", "check", "blobs"}
        /\ UNCHANGED <<index, work, req, calm>>
    BY <1>5, <1>8
       DEF reject_mixed_direction_files, PreTarget, PreUnstaged, Preflight, Refuse, Goto, repository
  <2>2. BeforeTheApply
    BY <1>4, <2>1
  <2> QED
    BY <2>1, <2>2 DEF BeforeTheApply, AfterTheApply
<1>9. CASE PreBlobs
  <2>1. /\ pc = "blobs" /\ pc' = "apply" /\ UNCHANGED <<index, work, req, calm>>
        /\ kept' = [kept EXCEPT !.blobs = index_blobs_for_paths]
    BY <1>9 DEF PreBlobs, Goto, repository
  <2>2. BeforeTheApply
    BY <1>4, <2>1
  <2>3. kept'.blobs = index_blobs_for_paths'
    BY <2>1 DEF ExactInv, NothingKept, index_blobs_for_paths, selected_paths, selected
  <2> QED
    BY <2>1, <2>2, <2>3 DEF BeforeTheApply, AfterTheApply
<1>10. CASE FailsBefore \/ ApplyTimesOut \/ ApplyIsCutShort \/ ApplyUnavailable \/ FailsAfter
  BY <1>10 DEF FailsBefore, ApplyTimesOut, ApplyIsCutShort, ApplyUnavailable, FailsAfter
<1>11. CASE ApplyFails
  BY <1>5, <1>11 DEF ApplyFails
<1>12. CASE ApplySucceeds
  <2>1. /\ pc = "apply" /\ pc' = "post_source" /\ UNCHANGED <<work, req, kept, result, calm>>
        /\ index' = Applied(index, selected, reverse)
    BY <1>12 DEF ApplySucceeds, Writes
  <2>2. /\ req.diff = Diff(index, work, req.scope)
        /\ \A f \in File : index[f] = HEAD[f]
        /\ kept.blobs = index_blobs_for_paths
    BY <1>4, <2>1 DEF BeforeTheApply
  <2>3. \A f \in File \ selected_paths : index'[f] = HEAD[f]
    BY <2>1, <2>2 DEF Applied, selected_paths
  <2>4. Requested
    BY <2>1 DEF ExactInv, Going
  <2>5. ASSUME NEW f \in selected_paths
        PROVE  kept.blobs[f] = HEAD[f] /\ \E d \in req.diff : d.file = f /\ d.old = HEAD[f]
    <3>1. PICK h \in selected : h.file = f
      BY DEF selected_paths, Paths
    <3>2. PICK d \in req.diff : d.file = f /\ f \in File
      BY <2>4, <3>1, SelectedIsHunk
    <3>3. d.old = index[f]
      BY <2>2, <3>2 DEF Diff
    <3> QED
      BY <2>2, <3>2, <3>3 DEF index_blobs_for_paths
  <2>6. ~ Looked'
    BY <1>1, <2>1 DEF Looked
  <2> QED
    BY <2>1, <2>3, <2>5, <2>6 DEF BeforeTheApply, AfterTheApply, selected_paths, selected
<1>13. ASSUME UNCHANGED <<index, work, req, calm>>, kept'.blobs = kept.blobs,
              pc \in After, pc' \in After \cup {"done"},
              Looked' => \A f \in selected_paths : kept'.seen[f] = index[f]
       PROVE  BeforeTheApply' /\ AfterTheApply'
  <2>1. AfterTheApply
    BY <1>4, <1>13
  <2> QED
    BY <1>13, <2>1 DEF BeforeTheApply, AfterTheApply, selected_paths, selected
<1>14. CASE PostSource \/ PostTarget
  <2>1. /\ pc \in {"post_source", "post_target"} /\ pc' \in {"post_target", "post_blobs"}
        /\ UNCHANGED <<index, work, req, calm, result>>
        /\ kept' = kept \/ \E x : kept' = [kept EXCEPT !.source_delta = x]
    BY <1>5, <1>14 DEF PostSource, PostTarget, Mismatch, Goto, repository
  <2>2. kept'.blobs = kept.blobs /\ ~ Looked'
    BY <1>1, <2>1 DEF ExactInv, NothingKept, Looked
  <2> QED
    BY <1>13, <2>1, <2>2
<1>15. CASE verify_index_blob_delta
  <2>1. /\ pc = "post_blobs" /\ pc' \in {"full_staged", "done"}
        /\ UNCHANGED <<index, work, req, calm>>
        /\ kept' = [kept EXCEPT !.seen = index_blobs_for_paths]
    BY <1>5, <1>15 DEF verify_index_blob_delta, Mismatch, Goto, End, repository
  <2>2. kept'.blobs = kept.blobs /\ kept'.seen = index_blobs_for_paths
    BY <2>1 DEF ExactInv, NothingKept
  <2> QED
    BY <1>13, <2>1, <2>2 DEF index_blobs_for_paths
<1>16. CASE FullStaged
  <2>1. /\ pc = "full_staged" /\ pc' = "full_unstaged" /\ UNCHANGED <<index, work, req, calm>>
        /\ kept' = [kept EXCEPT !.staged = index]
    BY <1>5, <1>16 DEF FullStaged, Mismatch, Goto, repository
  <2>2. kept'.blobs = kept.blobs /\ kept'.seen = kept.seen
    BY <2>1 DEF ExactInv, NothingKept
  <2>3. AfterTheApply /\ Looked
    BY <1>4, <2>1 DEF Looked
  <2> QED
    BY <1>13, <2>1, <2>2, <2>3 DEF AfterTheApply
<1>17. CASE FullUnstaged
  <2>1. /\ pc = "full_unstaged" /\ pc' = "done" /\ UNCHANGED <<index, work, req, calm, kept>>
    BY <1>5, <1>17 DEF FullUnstaged, Mismatch, End, repository
  <2>2. AfterTheApply /\ Looked
    BY <1>4, <2>1 DEF Looked
  <2> QED
    BY <1>13, <2>1, <2>2 DEF AfterTheApply
<1>18. ASSUME NEW f \in File, NEW c \in Content(f), Save(f, c) \/ WriteIndex(f, c)
       PROVE  FALSE
  BY <1>18 DEF Save, WriteIndex
<1>19. CASE Lock \/ Unlock \/ UNCHANGED vars
  <2>1. UNCHANGED <<index, work, pc, req, kept, result, calm>>
    BY <1>19 DEF Lock, Unlock, Disturb, vars
  <2>2. BeforeTheApply /\ AfterTheApply
    BY <2>1 DEF CalmInv, Going, prepare
  <2> QED
    BY <2>1, <2>2 DEF BeforeTheApply, AfterTheApply, index_blobs_for_paths, selected_paths,
       selected, Looked
<1> QED
  BY <1>3, <1>6, <1>7, <1>8, <1>9, <1>10, <1>11, <1>12, <1>14, <1>15, <1>16, <1>17,
     <1>18, <1>19 DEF Next

\* A call that answers commit_ready, with context around its hunks, and during which
\* nobody else has written, leaves in the index what HEAD has, with exactly the lines
\* of the selected hunks exchanged: what `git commit` will commit is what was selected.
THEOREM CommitExactly == ASSUME Context > 0 PROVE Spec => []CommitIsExact
<1>1. ASSUME TypeOK, ExactInv, CalmInv, commit_ready, calm, NEW f \in File
      PROVE  index[f] = IF f \in selected_paths THEN Edited(HEAD[f], f) ELSE HEAD[f]
  <2>1. pc = "done" /\ Going /\ Looked /\ prepare /\ ~ reverse
    BY <1>1 DEF TypeOK, commit_ready, Going, Looked, prepare, reverse
  <2>2. AfterTheApply /\ Requested /\ SeenAsExpected
    BY <1>1, <2>1 DEF CalmInv, ExactInv
  <2>3. CASE f \notin selected_paths
    BY <2>1, <2>2, <2>3 DEF AfterTheApply
  <2>4. CASE f \in selected_paths
    <3>1. /\ kept.blobs[f] = HEAD[f] /\ \E d \in req.diff : d.file = f /\ d.old = HEAD[f]
          /\ kept.seen[f] = index[f]
      BY <2>1, <2>2, <2>4 DEF AfterTheApply
    <3>2. Listed(f)
      BY <2>1, <3>1 DEF Listed
    <3>3. kept.seen[f] = Edited(kept.blobs[f], f)
      BY <2>2, <2>4, <3>2, ExactWhenSeen
    <3> QED
      BY <2>4, <3>1, <3>3
  <2> QED
    BY <2>3, <2>4
<1>2. TypeOK /\ ExactInv /\ CalmInv => CommitIsExact
  BY <1>1 DEF CommitIsExact
<1>3. TypeOK /\ ExactInv /\ CalmInv /\ [Next]_vars => CalmInv'
  BY CalmStep
<1>4. TypeOK /\ Known(index) /\ ExactInv /\ [Next]_vars => ExactInv'
  BY ExactStep
<1> QED
  BY <1>2, <1>3, <1>4, StageTypeOK, IndexIsKnown, ExactInit, CalmInit, PTL DEF Spec
=============================================================================

--------------------------- MODULE JobLedger_proofs ---------------------------
(***************************************************************************)
(* Proofs about JobLedger for any writers, contents and stage bound.       *)
(***************************************************************************)
EXTENDS JobLedger, TLAPS

LEMMA TenStages == Len(JobStage) = 10 /\ StageIndex = 1 .. 10
  BY DEF JobStage, StageIndex

LEMMA NextIndex ==
  ASSUME NEW n \in 1 .. 9
  PROVE  /\ n \in 1 .. 10
         /\ n + 1 \in 1 .. 10
         /\ n \in 1 .. (n + 1)
         /\ \A k \in 1 .. n : k \in 1 .. (n + 1)
         /\ \A k \in 2 .. (n + 1) : k \in 2 .. n \/ k = n + 1
         /\ \A k \in 2 .. n : k \in 1 .. n /\ k - 1 \in 1 .. n
         /\ \A k \in 1 .. (n + 1) : k \in 1 .. n \/ k = n + 1
         /\ (n + 1) - 1 = n
         /\ 1 \in 1 .. n /\ n # 0 /\ n < 10
         /\ n \in 3 .. 10 => n + 1 \in 3 .. 10 /\ n + 1 \notin {2, 3}
  OBVIOUS

LEMMA EmptyLength == Len(<< >>) = 0
  OBVIOUS

LEMMA NextNotFirst == \A n \in 1 .. 9 : n + 1 # 1
  OBVIOUS

(* The hash of a typed snapshot is a digest.                               *)
LEMMA StateHashType ==
  ASSUME NEW s \in JobState
  PROVE  StateHash(s) \in Digest
  <1> DEFINE n == Len(s.history)
             h == [i \in 1 .. n |-> [stage |-> s.history[i].stage,
                                     content |-> s.history[i].content,
                                     reused |-> s.history[i].reused]]
  <1>1. n \in Nat /\ \A i \in 1 .. n : s.history[i] \in StageRecord
    BY DEF JobState
  <1>2. h \in Seq([stage : StageName, content : Content, reused : BOOLEAN])
    BY <1>1 DEF StageRecord
  <1> QED BY <1>2 DEF StateHash, Digest, JobState

(* Advancing appends one record and leaves the earlier ones alone.         *)
LEMMA AdvanceShape ==
  ASSUME NEW s \in JobState, NEW n \in 1 .. 9, n = Len(s.history),
         NEW c \in Contents, NEW r \in BOOLEAN
  PROVE  LET t == Advance(s, c, r)
         IN  /\ t \in JobState
             /\ t.reused_from = s.reused_from
             /\ Len(t.history) = n + 1
             /\ \A i \in 1 .. n : t.history[i] = s.history[i]
             /\ t.history[n + 1] = Record(JobStage[n + 1], StateHash(s), c, r)
  <1> DEFINE e == Record(JobStage[n + 1], StateHash(s), c, r)
  <1>1. s.history \in Seq(StageRecord) /\ s = [reused_from |-> s.reused_from, history |-> s.history]
    BY DEF JobState
  <1>2. e \in StageRecord
    <2>1. n + 1 \in 1 .. 10
      BY NextIndex
    <2>2. JobStage[n + 1] \in StageName
      BY <2>1, TenStages DEF StageName, StageIndex
    <2>3. StateHash(s) \in Digest /\ c \in Content
      BY StateHashType DEF Content
    <2> QED BY <2>2, <2>3 DEF Record, StageRecord
  <1>3. Append(s.history, e) \in Seq(StageRecord)
    BY <1>1, <1>2
  <1>4. Advance(s, c, r) = [reused_from |-> s.reused_from, history |-> Append(s.history, e)]
    BY <1>1 DEF Advance
  <1> QED BY <1>1, <1>3, <1>4 DEF JobState

LEMMA PrefixShape ==
  ASSUME NEW s \in JobState, NEW n \in 1 .. 10, n = Len(s.history),
         NEW k \in 1 .. n
  PROVE  /\ Prefix(s, k) \in JobState
         /\ Prefix(s, k).reused_from = s.reused_from
         /\ Prefix(s, k).history = [i \in 1 .. k |-> s.history[i]]
  <1>1. s.history \in Seq(StageRecord)
    BY DEF JobState
  <1>2. SubSeq(s.history, 1, k) = [i \in 1 .. k |-> s.history[i]]
    BY <1>1
  <1>3. [i \in 1 .. k |-> s.history[i]] \in Seq(StageRecord)
    BY <1>1
  <1> QED BY <1>2, <1>3 DEF Prefix, JobState

(* A state is the prefix of itself at its own length.                      *)
LEMMA WholePrefix ==
  ASSUME NEW s \in JobState, NEW n \in 1 .. 10, n = Len(s.history)
  PROVE  Prefix(s, n) = s
  <1>1. s.history \in Seq(StageRecord) /\ s = [reused_from |-> s.reused_from, history |-> s.history]
    BY DEF JobState
  <1>2. SubSeq(s.history, 1, n) = s.history
    BY <1>1
  <1> QED BY <1>1, <1>2 DEF Prefix

(* Advancing does not change the prefixes of what was there.               *)
LEMMA AdvancePrefix ==
  ASSUME NEW s \in JobState, NEW n \in 1 .. 9, n = Len(s.history),
         NEW c \in Contents, NEW r \in BOOLEAN, NEW k \in 1 .. n
  PROVE  Prefix(Advance(s, c, r), k) = Prefix(s, k)
  <1> DEFINE t == Advance(s, c, r)
  <1>1. /\ t \in JobState
        /\ t.reused_from = s.reused_from
        /\ Len(t.history) = n + 1
        /\ \A i \in 1 .. n : t.history[i] = s.history[i]
    BY AdvanceShape
  <1> HIDE DEF t
  <1>2. n \in 1 .. 10 /\ k \in 1 .. n /\ n + 1 \in 1 .. 10 /\ k \in 1 .. (n + 1)
    BY NextIndex
  <1>3. Prefix(s, k).history = [i \in 1 .. k |-> s.history[i]]
    BY <1>2, PrefixShape
  <1>4. Prefix(t, k).history = [i \in 1 .. k |-> t.history[i]]
    BY <1>1, <1>2, PrefixShape
  <1>5. \A i \in 1 .. k : t.history[i] = s.history[i]
    BY <1>1
  <1>6. Prefix(t, k).history = Prefix(s, k).history
    BY <1>3, <1>4, <1>5
  <1> QED BY <1>1, <1>6 DEF Prefix, t

(* A valid history stays valid when it advances, provided that the new     *)
(* record is marked as reused exactly where a rerun reuses.                *)
LEMMA AdvanceValid ==
  ASSUME NEW s \in JobState, NEW n \in 1 .. 9, n = Len(s.history),
         NEW c \in Contents, NEW r \in BOOLEAN
  PROVE  ValidHistory(s) /\ r = ReusedAt(s, n + 1) => ValidHistory(Advance(s, c, r))
  <1> DEFINE t == Advance(s, c, r)
  <1>1. /\ t \in JobState
        /\ t.reused_from = s.reused_from
        /\ Len(t.history) = n + 1
        /\ \A i \in 1 .. n : t.history[i] = s.history[i]
        /\ t.history[n + 1] = Record(JobStage[n + 1], StateHash(s), c, r)
    BY AdvanceShape
  <1>3. \A k \in 1 .. n : Prefix(t, k) = Prefix(s, k)
    BY AdvancePrefix
  <1>4. Prefix(s, n) = s
    BY WholePrefix, NextIndex
  <1> SUFFICES ASSUME ValidHistory(s), r = ReusedAt(s, n + 1)
               PROVE  ValidHistory(t)
    OBVIOUS
  <1>2. /\ s.history[1] = InitialRecord
        /\ \A i \in 1 .. n : s.history[i].stage = JobStage[i]
        /\ \A i \in 2 .. n :
             /\ s.history[i].content \in Contents
             /\ s.history[i].previous_state_hash = StateHash(Prefix(s, i - 1))
             /\ s.history[i].reused = ReusedAt(s, i)
    BY DEF ValidHistory
  <1> HIDE DEF t
  <1>5. Len(t.history) \in StageIndex
    BY <1>1, NextIndex, TenStages
  <1>6. t.history[1] = InitialRecord
    BY <1>1, <1>2, NextIndex
  <1>7. \A i \in 1 .. (n + 1) : t.history[i].stage = JobStage[i]
    BY <1>1, <1>2, NextIndex DEF Record
  <1>8. ASSUME NEW i \in 2 .. (n + 1)
        PROVE  /\ t.history[i].content \in Contents
               /\ t.history[i].previous_state_hash = StateHash(Prefix(t, i - 1))
               /\ t.history[i].reused = ReusedAt(t, i)
    <2>1. CASE i \in 2 .. n
      <3>1. i \in 1 .. n /\ i - 1 \in 1 .. n
        BY <2>1, NextIndex
      <3>2. t.history[i] = s.history[i] /\ Prefix(t, i - 1) = Prefix(s, i - 1)
        BY <3>1, <1>1, <1>3
      <3>3. ReusedAt(t, i) = ReusedAt(s, i)
        BY <1>1 DEF ReusedAt
      <3> QED BY <3>2, <3>3, <2>1, <1>2
    <2>2. CASE i = n + 1
      <3>1. Prefix(t, i - 1) = s
        BY <2>2, <1>3, <1>4, NextIndex
      <3>2. t.history[i] = Record(JobStage[n + 1], StateHash(s), c, r)
        BY <2>2, <1>1
      <3>3. t.history[i].reused = r
        BY <3>2 DEF Record
      <3>4. ReusedAt(t, i) = ReusedAt(s, n + 1)
        BY <1>1, <2>2 DEF ReusedAt
      <3> QED BY <3>1, <3>2, <3>3, <3>4 DEF Record
    <2> QED BY <2>1, <2>2, NextIndex
  <1> QED BY <1>1, <1>5, <1>6, <1>7, <1>8 DEF ValidHistory
-------------------------------------------------------------------------------
LEMMA GoodFacts ==
  ASSUME NEW s, Good(s)
  PROVE  /\ s \in JobState
         /\ s # NoLedger
         /\ Len(s.history) \in 1 .. 10
         /\ ContentOf(s, 1) = NoContent
         /\ \A i \in 2 .. Len(s.history) : ContentOf(s, i) \in Contents
  <1>1. s \in JobState /\ ValidHistory(s)
    BY DEF Good
  <1>2. s # NoLedger
    BY <1>1, NoLedgerAssumption
  <1>3. Len(s.history) \in 1 .. 10
    BY <1>1, TenStages DEF ValidHistory
  <1>4. /\ s.history[1] = InitialRecord
        /\ \A i \in 2 .. Len(s.history) : s.history[i].content \in Contents
    BY <1>1 DEF ValidHistory
  <1>5. ContentOf(s, 1) = NoContent
    BY <1>4 DEF ContentOf, InitialRecord, Record
  <1> QED BY <1>1, <1>2, <1>3, <1>4, <1>5 DEF ContentOf

LEMMA GoodAdvance ==
  ASSUME NEW s, Good(s), NEW n \in 1 .. 9, n = Len(s.history), NEW c \in Contents
  PROVE  LET t == Advance(s, c, FALSE) IN
         /\ Good(t)
         /\ Len(t.history) = n + 1
         /\ \A i \in 1 .. n : ContentOf(t, i) = ContentOf(s, i)
         /\ ContentOf(t, n + 1) = c
         /\ t.history[n + 1].previous_state_hash = StateHash(s)
  <1> DEFINE t == Advance(s, c, FALSE)
  <1>1. s \in JobState /\ ValidHistory(s)
    BY DEF Good
  <1>2. /\ t \in JobState
        /\ t.reused_from = s.reused_from
        /\ Len(t.history) = n + 1
        /\ \A i \in 1 .. n : t.history[i] = s.history[i]
        /\ t.history[n + 1] = Record(JobStage[n + 1], StateHash(s), c, FALSE)
    BY <1>1, AdvanceShape
  <1>3. s.reused_from # "none" => n \in 3 .. 10
    BY DEF Good
  <1>4. ReusedAt(s, n + 1) = FALSE
    BY <1>3, NextIndex DEF ReusedAt
  <1>5. ValidHistory(t)
    BY <1>1, <1>4, AdvanceValid
  <1> HIDE DEF t
  <1>6. s.reused_from # "none" => n + 1 \in 3 .. 10
    BY <1>3, NextIndex
  <1>7. Good(t)
    BY <1>2, <1>5, <1>6 DEF Good
  <1>8. /\ \A i \in 1 .. n : ContentOf(t, i) = ContentOf(s, i)
        /\ ContentOf(t, n + 1) = c
        /\ t.history[n + 1].previous_state_hash = StateHash(s)
    BY <1>2 DEF ContentOf, Record
  <1> QED BY <1>2, <1>7, <1>8 DEF t

LEMMA Openings ==
  ASSUME NEW o \in Origin
  PROVE  LET s == [reused_from |-> o, history |-> << InitialRecord >>]
         IN  s \in JobState /\ ValidHistory(s) /\ Len(s.history) = 1
  <1> DEFINE s == [reused_from |-> o, history |-> << InitialRecord >>]
  <1>1. NoHash \in Digest
    BY DEF NoHash, Digest, Origin
  <1>2. InitialRecord \in StageRecord
    <2>1. JobStage[1] \in StageName
      BY TenStages DEF StageName
    <2> QED BY <1>1, <2>1 DEF InitialRecord, Record, StageRecord, Content
  <1>3. s \in JobState /\ Len(s.history) = 1
    BY <1>2 DEF JobState
  <1>4. s.history[1] = InitialRecord
    OBVIOUS
  <1>5. \A i \in 1 .. 1 : s.history[i].stage = JobStage[i]
    BY <1>4 DEF InitialRecord, Record
  <1>6. ValidHistory(s)
    BY <1>3, <1>4, <1>5, TenStages DEF ValidHistory
  <1> QED BY <1>3, <1>6

LEMMA GoodCreate == Good(CreateJob) /\ Len(CreateJob.history) = 1
  <1>1. "none" \in Origin
    BY DEF Origin
  <1>2. CreateJob.reused_from = "none"
    BY DEF CreateJob
  <1> QED BY <1>1, <1>2, Openings DEF CreateJob, Good

LEMMA GoodRerun ==
  ASSUME NEW c \in Contents, NEW d \in Contents
  PROVE  /\ Good(BuildRerun(c, d))
         /\ Len(BuildRerun(c, d).history) = 3
         /\ ContentOf(BuildRerun(c, d), 2) = c
         /\ ContentOf(BuildRerun(c, d), 3) = d
  <1> DEFINE r0 == CreateRerun
             r1 == Advance(r0, c, TRUE)
             r2 == Advance(r1, d, TRUE)
  <1>1. /\ r0 \in JobState /\ ValidHistory(r0) /\ Len(r0.history) = 1
        /\ r0.reused_from = "checkpoint"
    BY Openings DEF Origin, CreateRerun
  <1> HIDE DEF r0
  <1>2. 1 \in 1 .. 9 /\ 2 \in 1 .. 9 /\ 1 + 1 = 2 /\ 2 + 1 = 3
    OBVIOUS
  <1>3. ReusedAt(r0, 2) = TRUE
    BY <1>1 DEF ReusedAt
  <1>4. /\ r1 \in JobState /\ Len(r1.history) = 2
        /\ r1.reused_from = "checkpoint"
        /\ ContentOf(r1, 2) = c
    <2>1. /\ r1 \in JobState /\ Len(r1.history) = 1 + 1
          /\ r1.reused_from = r0.reused_from
          /\ r1.history[1 + 1] = Record(JobStage[1 + 1], StateHash(r0), c, TRUE)
      BY <1>1, <1>2, AdvanceShape
    <2> HIDE DEF r1
    <2> QED BY <2>1, <1>1, <1>2 DEF ContentOf, Record
  <1>5. ValidHistory(r1)
    BY <1>1, <1>2, <1>3, AdvanceValid
  <1> HIDE DEF r1
  <1>6. ReusedAt(r1, 3) = TRUE
    BY <1>4 DEF ReusedAt
  <1>7. /\ r2 \in JobState /\ Len(r2.history) = 3
        /\ ContentOf(r2, 2) = ContentOf(r1, 2)
        /\ ContentOf(r2, 3) = d
    <2>1. /\ r2 \in JobState /\ Len(r2.history) = 2 + 1
          /\ \A i \in 1 .. 2 : r2.history[i] = r1.history[i]
          /\ r2.history[2 + 1] = Record(JobStage[2 + 1], StateHash(r1), d, TRUE)
      <3>1. 2 = Len(r1.history) /\ 2 \in 1 .. 9 /\ r1 \in JobState
        BY <1>4, <1>2
      <3> QED BY <3>1, AdvanceShape
    <2> HIDE DEF r2
    <2> QED BY <2>1, <1>2 DEF ContentOf, Record
  <1>8. ValidHistory(r2)
    BY <1>4, <1>5, <1>2, <1>6, AdvanceValid
  <1> HIDE DEF r2
  <1>9. Good(r2)
    BY <1>7, <1>8 DEF Good
  <1>10. BuildRerun(c, d) = r2
    BY DEF BuildRerun, r2, r1, r0
  <1> QED BY <1>4, <1>7, <1>9, <1>10

(* Snapshots with the same hash have the same contents.                    *)
LEMMA SameHash ==
  ASSUME NEW s, NEW t, Good(s), Good(t), StateHash(s) = StateHash(t)
  PROVE  /\ Len(s.history) = Len(t.history)
         /\ \A i \in 1 .. Len(s.history) : ContentOf(s, i) = ContentOf(t, i)
  <1> DEFINE n == Len(s.history)
             m == Len(t.history)
             f == [i \in 1 .. n |-> [stage |-> s.history[i].stage,
                                     content |-> s.history[i].content,
                                     reused |-> s.history[i].reused]]
             g == [i \in 1 .. m |-> [stage |-> t.history[i].stage,
                                     content |-> t.history[i].content,
                                     reused |-> t.history[i].reused]]
  <1>1. n \in 1 .. 10 /\ m \in 1 .. 10
    BY GoodFacts
  <1>2. f = g
    BY DEF StateHash
  <1>3. \A i \in 1 .. n : f[i].content = ContentOf(s, i)
    BY DEF ContentOf
  <1>4. \A i \in 1 .. m : g[i].content = ContentOf(t, i)
    BY DEF ContentOf
  <1>5. DOMAIN f = 1 .. n /\ DOMAIN g = 1 .. m
    OBVIOUS
  <1> HIDE DEF f, g, n, m
  <1>6. 1 .. n = 1 .. m
    BY <1>2, <1>5
  <1>7. n = m
    BY <1>1, <1>6
  <1>8. \A i \in 1 .. n : ContentOf(s, i) = ContentOf(t, i)
    BY <1>2, <1>3, <1>4, <1>7
  <1> QED BY <1>7, <1>8 DEF n, m
-------------------------------------------------------------------------------
LEMMA NoLedgerIsNoState == NoLedger \notin JobState
  BY NoLedgerAssumption

LEMMA BoundsOnStages == StageBound \in 3 .. 10
  BY StageBoundAssumption, TenStages

LEMMA InitTypeOK == Init => TypeOK
  BY NoContentAssumption DEF Init, TypeOK, PCs, Content

LEMMA GoodIsState == \A s : Good(s) => s \in JobState
  BY DEF Good

(* The index of the record that extends a snapshot is a stage.             *)
LEMMA AdvanceIndex ==
  ASSUME NEW s, Good(s), CanAdvance(s)
  PROVE  Len(s.history) \in 1 .. 9 /\ Len(s.history) + 1 \in StageIndex
  <1> DEFINE n == Len(s.history)
  <1>1. n \in 1 .. 10 /\ n < 10
    BY GoodFacts, TenStages DEF CanAdvance
  <1> HIDE DEF n
  <1>2. n \in 1 .. 9 /\ n + 1 \in 1 .. 10
    BY <1>1
  <1> QED BY <1>2, TenStages DEF n

LEMMA GoodLast ==
  ASSUME NEW s, Good(s)
  PROVE  Len(s.history) \in StageIndex /\ ContentOf(s, Len(s.history)) \in Content
  <1> DEFINE n == Len(s.history)
  <1>1. n \in 1 .. 10 /\ \A i \in 2 .. n : ContentOf(s, i) \in Contents
    BY GoodFacts
  <1>2. ContentOf(s, 1) = NoContent
    BY GoodFacts
  <1> HIDE DEF n
  <1>3. n = 1 \/ n \in 2 .. n
    BY <1>1
  <1> QED BY <1>1, <1>2, <1>3, TenStages DEF Content, n

LEMMA TypeStep ==
  ASSUME IInv, NEW w \in Writers, Step(w) \/ Crash(w)
  PROVE  TypeOK'
  <1> USE DEF TypeOK, PCs, work, files, locks, Goto, Drop, Fail, Begin
  <1>0. TypeOK /\ GoodHistories /\ LockDiscipline
    BY DEF IInv
  <1>1. CASE BeginCreate(w)
    BY <1>0, <1>1, GoodCreate, GoodIsState DEF BeginCreate
  <1>2. CASE BeginRerun(w)
    BY <1>0, <1>2, GoodRerun, GoodIsState, TenStages DEF BeginRerun
  <1>3. CASE LoadJobState(w)
    BY <1>0, <1>3 DEF LoadJobState
  <1>4. CASE BeginAdvance(w)
    <2> DEFINE s == snapshot[w]
    <2>1. Good(s)
      BY <1>0, <1>4 DEF GoodHistories, BeginAdvance, LockDiscipline
    <2>2. Len(s.history) \in 1 .. 9 /\ Len(s.history) + 1 \in StageIndex
      BY <2>1, <1>4, AdvanceIndex DEF BeginAdvance
    <2>3. \A c \in Contents : Advance(s, c, FALSE) \in JobState
      BY <2>1, <2>2, GoodAdvance, GoodIsState
    <2> HIDE DEF s
    <2>4. \E c \in Contents :
             Begin(w, Advance(s, c, FALSE), {Len(s.history) + 1}) /\ UNCHANGED snapshot
      BY <1>4 DEF BeginAdvance, s
    <2>5. PICK c \in Contents :
             Begin(w, Advance(s, c, FALSE), {Len(s.history) + 1}) /\ UNCHANGED snapshot
      BY <2>4
    <2> DEFINE t == Advance(s, c, FALSE)
               P == {Len(s.history) + 1}
    <2>6. t \in JobState /\ P \in SUBSET (StageIndex \ {1})
      <3>1. Len(s.history) + 1 # 1
        BY <2>2, NextNotFirst
      <3> QED BY <3>1, <2>2, <2>3
    <2>7. Begin(w, t, P) /\ UNCHANGED snapshot
      BY <2>5
    <2> HIDE DEF t, P
    <2> QED BY <2>6, <2>7, <1>0
  <1>5. CASE Forget(w)
    BY <1>0, <1>5 DEF Forget
  <1>6. CASE \E i \in StageIndex : LockArtifact(w, i)
    BY <1>0, <1>6 DEF LockArtifact
  <1>7. CASE \E i \in StageIndex : LinkArtifact(w, i)
    <2>1. PICK i \in StageIndex : LinkArtifact(w, i)
      BY <1>7
    <2>2. Good(next[w]) /\ i \in 2 .. Len(next[w].history)
      BY <2>1, <1>0 DEF LinkArtifact, GoodHistories, LockDiscipline, ArtifactStages
    <2>3. ContentOf(next[w], i) \in Content
      BY <2>2, GoodFacts DEF Content
    <2> QED BY <2>1, <2>3, <1>0 DEF LinkArtifact
  <1>8. CASE LockLedger(w)
    BY <1>0, <1>8 DEF LockLedger
  <1>9. CASE CompareLedger(w)
    BY <1>0, <1>9 DEF CompareLedger
  <1>10. CASE ReplaceLedger(w)
    BY <1>0, <1>10 DEF ReplaceLedger
  <1>11. CASE VerifyLedger(w)
    <2> DEFINE n == Len(next[w].history)
    <2>1. Good(next[w])
      BY <1>11, <1>0 DEF VerifyLedger, GoodHistories, LockDiscipline
    <2>2. n \in StageIndex /\ ContentOf(next[w], n) \in Content
      BY <2>1, GoodLast
    <2> QED BY <2>2, <1>11, <1>0 DEF VerifyLedger
  <1>12. CASE Crash(w)
    BY <1>0, <1>12 DEF Crash
  <1> QED BY <1>1, <1>2, <1>3, <1>4, <1>5, <1>6, <1>7, <1>8, <1>9, <1>10, <1>11, <1>12 DEF Step
-------------------------------------------------------------------------------
(* The histories that are read, held and written stay good.                *)
LEMMA HistoryStep ==
  ASSUME IInv, NEW w \in Writers, Step(w) \/ Crash(w)
  PROVE  GoodHistories'
  <1> USE DEF TypeOK, GoodHistories, work, files, locks, Goto, Drop, Fail, Begin
  <1>0. TypeOK /\ GoodHistories /\ LockDiscipline
    BY DEF IInv
  <1>1. CASE BeginCreate(w)
    BY <1>0, <1>1, GoodCreate DEF BeginCreate
  <1>2. CASE BeginRerun(w)
    BY <1>0, <1>2, GoodRerun DEF BeginRerun
  <1>3. CASE LoadJobState(w)
    BY <1>0, <1>3 DEF LoadJobState
  <1>4. CASE BeginAdvance(w)
    <2>1. Good(snapshot[w]) /\ Len(snapshot[w].history) \in 1 .. 9
      BY <1>0, <1>4, AdvanceIndex DEF LockDiscipline, BeginAdvance
    <2>2. \A c \in Contents : Good(Advance(snapshot[w], c, FALSE))
      BY <2>1, GoodAdvance
    <2>3. PICK c \in Contents :
             Begin(w, Advance(snapshot[w], c, FALSE), {Len(snapshot[w].history) + 1})
      BY <1>4 DEF BeginAdvance
    <2>4. snapshot' = snapshot
      BY <1>4 DEF BeginAdvance
    <2> DEFINE t == Advance(snapshot[w], c, FALSE)
    <2>5. Good(t) /\ next' = [next EXCEPT ![w] = t] /\ ledger' = ledger
      BY <2>2, <2>3
    <2> HIDE DEF t
    <2> QED BY <2>4, <2>5, <1>0
  <1>5. CASE Forget(w)
    BY <1>0, <1>5 DEF Forget
  <1>6. CASE \E i \in StageIndex : LockArtifact(w, i)
    BY <1>0, <1>6 DEF LockArtifact
  <1>7. CASE \E i \in StageIndex : LinkArtifact(w, i)
    BY <1>0, <1>7 DEF LinkArtifact
  <1>8. CASE LockLedger(w)
    BY <1>0, <1>8 DEF LockLedger
  <1>9. CASE CompareLedger(w)
    BY <1>0, <1>9 DEF CompareLedger
  <1>10. CASE ReplaceLedger(w)
    BY <1>0, <1>10 DEF ReplaceLedger
  <1>11. CASE VerifyLedger(w)
    BY <1>0, <1>11 DEF VerifyLedger
  <1>12. CASE Crash(w)
    BY <1>0, <1>12 DEF Crash
  <1> QED BY <1>1, <1>2, <1>3, <1>4, <1>5, <1>6, <1>7, <1>8, <1>9, <1>10, <1>11, <1>12 DEF Step

(* The ledger's lock is held exactly inside write_job_state.               *)
LEMMA LockStep ==
  ASSUME IInv, NEW w \in Writers, Step(w) \/ Crash(w)
  PROVE  LockDiscipline'
  <1> USE DEF TypeOK, LockDiscipline, Locked, work, files, locks, Goto, Drop, Fail, Begin
  <1>0. TypeOK /\ GoodHistories /\ LockDiscipline
    BY DEF IInv
  <1>1. CASE BeginCreate(w)
    <2>1. CreateJob # NoLedger
      BY GoodCreate, GoodFacts
    <2> QED BY <1>0, <1>1, <2>1 DEF BeginCreate
  <1>2. CASE BeginRerun(w)
    <2>1. PICK c \in Contents, d \in Contents : Begin(w, BuildRerun(c, d), {2, 3})
      BY <1>2 DEF BeginRerun
    <2> DEFINE t == BuildRerun(c, d)
    <2>2. t # NoLedger /\ {2, 3} \subseteq ArtifactStages(t)
      <3>1. Good(t) /\ Len(t.history) = 3
        BY GoodRerun
      <3> HIDE DEF t
      <3> QED BY <3>1, GoodFacts DEF ArtifactStages
    <2>3. /\ Begin(w, t, {2, 3}) /\ pc[w] = "idle"
          /\ snapshot' = [snapshot EXCEPT ![w] = NoLedger]
      BY <2>1, <1>2 DEF BeginRerun
    <2> HIDE DEF t
    <2> QED BY <1>0, <2>2, <2>3
  <1>3. CASE LoadJobState(w)
    BY <1>0, <1>3 DEF LoadJobState
  <1>4. CASE BeginAdvance(w)
    <2>1. Good(snapshot[w]) /\ Len(snapshot[w].history) \in 1 .. 9
      BY <1>0, <1>4, AdvanceIndex DEF GoodHistories, BeginAdvance
    <2>2. PICK c \in Contents :
             Begin(w, Advance(snapshot[w], c, FALSE), {Len(snapshot[w].history) + 1})
      BY <1>4 DEF BeginAdvance
    <2>3. snapshot' = snapshot /\ pc[w] = "loaded"
      BY <1>4 DEF BeginAdvance
    <2> DEFINE t == Advance(snapshot[w], c, FALSE)
               P == {Len(snapshot[w].history) + 1}
    <2>4. t # NoLedger /\ P \subseteq ArtifactStages(t)
      <3> DEFINE n == Len(snapshot[w].history)
      <3>1. Good(t) /\ Len(t.history) = n + 1 /\ n \in 1 .. 9 /\ P = {n + 1}
        BY <2>1, GoodAdvance
      <3> HIDE DEF t, n, P
      <3>2. n + 1 \in 2 .. n + 1
        BY <3>1
      <3> QED BY <3>1, <3>2, GoodFacts DEF ArtifactStages
    <2>5. Begin(w, t, P)
      BY <2>2
    <2> HIDE DEF t, P
    <2> QED BY <1>0, <2>3, <2>4, <2>5
  <1>5. CASE Forget(w)
    BY <1>0, <1>5 DEF Forget
  <1>6. CASE \E i \in StageIndex : LockArtifact(w, i)
    BY <1>0, <1>6, NoWriterAssumption DEF LockArtifact
  <1>7. CASE \E i \in StageIndex : LinkArtifact(w, i)
    BY <1>0, <1>7, NoWriterAssumption DEF LinkArtifact
  <1>8. CASE LockLedger(w)
    BY <1>0, <1>8, NoWriterAssumption DEF LockLedger
  <1>9. CASE CompareLedger(w)
    BY <1>0, <1>9, NoWriterAssumption DEF CompareLedger
  <1>10. CASE ReplaceLedger(w)
    BY <1>0, <1>10, NoWriterAssumption DEF ReplaceLedger
  <1>11. CASE VerifyLedger(w)
    BY <1>0, <1>11, NoWriterAssumption DEF VerifyLedger
  <1>12. CASE Crash(w)
    BY <1>0, <1>12, NoWriterAssumption DEF Crash
  <1> QED BY <1>1, <1>2, <1>3, <1>4, <1>5, <1>6, <1>7, <1>8, <1>9, <1>10, <1>11, <1>12 DEF Step

LEMMA ExtendsFrame ==
  ASSUME NEW v \in Writers, ledger' = ledger, snapshot'[v] = snapshot[v], next'[v] = next[v]
  PROVE  Extends(v)' <=> Extends(v)
  BY DEF Extends

(* A writer commits an opening state or a one-stage extension of what it   *)
(* read, and nothing moves the ledger between its comparison and its rename. *)
LEMMA CommitStep ==
  ASSUME IInv, NEW w \in Writers, Step(w) \/ Crash(w)
  PROVE  CommitsExtend'
  <1> USE DEF TypeOK, CommitsExtend, work, files, locks, Goto, Drop, Fail, Begin
  <1>0. TypeOK /\ LockDiscipline /\ CommitsExtend
    BY DEF IInv
  <1>1. CASE BeginCreate(w)
    <2>1. CreateJob \in OpeningStates
      BY DEF OpeningStates
    <2> QED BY <1>0, <1>1, <2>1, ExtendsFrame DEF BeginCreate
  <1>2. CASE BeginRerun(w)
    <2>1. \A c, d \in Contents : BuildRerun(c, d) \in OpeningStates
      BY DEF OpeningStates
    <2> QED BY <1>0, <1>2, <2>1, ExtendsFrame DEF BeginRerun
  <1>3. CASE LoadJobState(w)
    BY <1>0, <1>3, ExtendsFrame DEF LoadJobState, LockDiscipline
  <1>4. CASE BeginAdvance(w)
    <2>1. Good(snapshot[w]) /\ Len(snapshot[w].history) \in 1 .. 9
      BY <1>0, <1>4, AdvanceIndex DEF IInv, GoodHistories, LockDiscipline, BeginAdvance
    <2>2. PICK c \in Contents :
             Begin(w, Advance(snapshot[w], c, FALSE), {Len(snapshot[w].history) + 1})
      BY <1>4 DEF BeginAdvance
    <2> DEFINE t == Advance(snapshot[w], c, FALSE)
    <2>3. ExtendsByOne(snapshot[w], t)
      BY <2>1 DEF ExtendsByOne
    <2>4. /\ next' = [next EXCEPT ![w] = t] /\ snapshot' = snapshot /\ ledger' = ledger
          /\ pc' = [pc EXCEPT ![w] = "artifacts"]
          /\ snapshot[w] # NoLedger
      BY <2>2, <1>4, <1>0 DEF BeginAdvance, LockDiscipline
    <2> HIDE DEF t
    <2> QED BY <1>0, <2>3, <2>4, ExtendsFrame
  <1>5. CASE Forget(w)
    BY <1>0, <1>5, ExtendsFrame DEF Forget
  <1>6. CASE \E i \in StageIndex : LockArtifact(w, i)
    BY <1>0, <1>6, ExtendsFrame DEF LockArtifact
  <1>7. CASE \E i \in StageIndex : LinkArtifact(w, i)
    BY <1>0, <1>7, ExtendsFrame DEF LinkArtifact
  <1>8. CASE LockLedger(w)
    BY <1>0, <1>8, ExtendsFrame DEF LockLedger
  <1>9. CASE CompareLedger(w)
    BY <1>0, <1>9, ExtendsFrame DEF CompareLedger
  <1>10. CASE ReplaceLedger(w)
    <2>1. \A v \in Writers : v # w => pc[v] \notin {"replacing", "verifying"}
      BY <1>0, <1>10 DEF ReplaceLedger, LockDiscipline, Locked
    <2>2. \A v \in Writers : pc'[v] # "replacing"
      BY <1>0, <1>10, <2>1 DEF ReplaceLedger
    <2> QED BY <1>0, <1>10, <2>1, <2>2 DEF ReplaceLedger
  <1>11. CASE VerifyLedger(w)
    BY <1>0, <1>11, ExtendsFrame DEF VerifyLedger, LockDiscipline
  <1>12. CASE Crash(w)
    BY <1>0, <1>12, ExtendsFrame DEF Crash
  <1> QED BY <1>1, <1>2, <1>3, <1>4, <1>5, <1>6, <1>7, <1>8, <1>9, <1>10, <1>11, <1>12 DEF Step
-------------------------------------------------------------------------------
(* What write_immutable_bytes adds cannot unbind what was bound.           *)
LEMMA BoundFrame ==
  ASSUME NEW s, NEW U, artifact' = artifact, Bound(s, U)
  PROVE  \A i \in 2 .. Len(s.history) : i \notin U => artifact'[i] = ContentOf(s, i)
  BY DEF Bound

LEMMA BoundLink ==
  ASSUME TypeOK, NEW s, Good(s), NEW U, NEW j \in StageIndex,
         artifact[j] = NoContent, NEW c,
         artifact' = [artifact EXCEPT ![j] = c], Bound(s, U)
  PROVE  \A i \in 2 .. Len(s.history) : i \notin U => artifact'[i] = ContentOf(s, i)
  <1> SUFFICES ASSUME NEW i \in 2 .. Len(s.history), i \notin U
               PROVE  artifact'[i] = ContentOf(s, i)
    OBVIOUS
  <1>1. artifact[i] = ContentOf(s, i)
    BY DEF Bound
  <1>2. ContentOf(s, i) # NoContent
    BY GoodFacts, NoContentAssumption
  <1>3. i # j
    BY <1>1, <1>2
  <1>4. i \in StageIndex
    <2> DEFINE n == Len(s.history)
    <2>1. n \in 1 .. 10 /\ i \in 2 .. n
      BY GoodFacts
    <2> HIDE DEF n
    <2> QED BY <2>1, TenStages
  <1> QED BY <1>1, <1>3, <1>4 DEF TypeOK

LEMMA BoundAdvance ==
  ASSUME NEW s, Good(s), NEW n \in 1 .. 9, n = Len(s.history), NEW c \in Contents,
         Bound(s, {})
  PROVE  Bound(Advance(s, c, FALSE), {n + 1})
  <1> DEFINE t == Advance(s, c, FALSE)
  <1>1. Len(t.history) = n + 1 /\ \A i \in 1 .. n : ContentOf(t, i) = ContentOf(s, i)
    BY GoodAdvance
  <1>2. \A i \in 2 .. n : artifact[i] = ContentOf(s, i)
    BY DEF Bound
  <1> HIDE DEF t
  <1>3. \A i \in 2 .. n : artifact[i] = ContentOf(t, i)
    BY <1>1, <1>2, NextIndex
  <1>4. \A i \in 2 .. (n + 1) : i \notin {n + 1} => artifact[i] = ContentOf(t, i)
    BY <1>3, NextIndex
  <1> QED BY <1>1, <1>4 DEF Bound, t

LEMMA BoundOpening ==
  /\ Bound(CreateJob, {})
  /\ \A c, d \in Contents : Bound(BuildRerun(c, d), {2, 3})
  <1>1. Bound(CreateJob, {})
    BY GoodCreate DEF Bound
  <1>2. ASSUME NEW c \in Contents, NEW d \in Contents
        PROVE  Bound(BuildRerun(c, d), {2, 3})
    <2>1. Len(BuildRerun(c, d).history) = 3
      BY GoodRerun
    <2>2. \A i \in 2 .. 3 : i \in {2, 3}
      OBVIOUS
    <2> QED BY <2>1, <2>2 DEF Bound
  <1> QED BY <1>1, <1>2

(* The artifacts of what is read, held or persisted are on disk, those of  *)
(* what is being committed are there or still to be written.               *)
LEMMA BindingStep ==
  ASSUME IInv, NEW w \in Writers, Step(w) \/ Crash(w)
  PROVE  ArtifactsBound'
  <1> USE DEF TypeOK, ArtifactsBound, work, files, locks, Goto, Drop, Fail, Begin
  <1>0. TypeOK /\ GoodHistories /\ LockDiscipline /\ ArtifactsBound
    BY DEF IInv
  <1>1. CASE BeginCreate(w)
    BY <1>0, <1>1, BoundOpening DEF BeginCreate, Bound
  <1>2. CASE BeginRerun(w)
    BY <1>0, <1>2, BoundOpening DEF BeginRerun, Bound
  <1>3. CASE LoadJobState(w)
    BY <1>0, <1>3 DEF LoadJobState, Bound
  <1>4. CASE BeginAdvance(w)
    <2> DEFINE n == Len(snapshot[w].history)
    <2>1. Good(snapshot[w]) /\ n \in 1 .. 9 /\ Bound(snapshot[w], {})
      BY <1>0, <1>4, AdvanceIndex DEF GoodHistories, LockDiscipline, BeginAdvance
    <2>2. PICK c \in Contents : Begin(w, Advance(snapshot[w], c, FALSE), {n + 1})
      BY <1>4 DEF BeginAdvance
    <2> DEFINE t == Advance(snapshot[w], c, FALSE)
               P == {n + 1}
    <2>3. Bound(t, P)
      BY <2>1, BoundAdvance
    <2>4. /\ next' = [next EXCEPT ![w] = t] /\ pending' = [pending EXCEPT ![w] = P]
          /\ UNCHANGED << snapshot, ledger, artifact >>
      BY <2>2, <1>4 DEF BeginAdvance
    <2> HIDE DEF t, P
    <2> QED BY <1>0, <2>3, <2>4 DEF Bound
  <1>5. CASE Forget(w)
    BY <1>0, <1>5 DEF Forget, Bound
  <1>6. CASE \E i \in StageIndex : LockArtifact(w, i)
    BY <1>0, <1>6 DEF LockArtifact, Bound
  <1>7. CASE \E i \in StageIndex : LinkArtifact(w, i)
    <2>1. PICK i \in StageIndex : LinkArtifact(w, i)
      BY <1>7
    <2>2. CASE artifact' = artifact
      BY <1>0, <2>1, <2>2 DEF LinkArtifact, Bound
    <2>3. CASE artifact' # artifact
      <3>1. /\ artifact[i] = NoContent
            /\ artifact' = [artifact EXCEPT ![i] = ContentOf(next[w], i)]
            /\ pending' = [pending EXCEPT ![w] = pending[w] \ {i}]
            /\ UNCHANGED << snapshot, next, ledger >>
        BY <2>1, <2>3 DEF LinkArtifact
      <3>2. \A s, U : Good(s) /\ Bound(s, U) =>
               \A k \in 2 .. Len(s.history) : k \notin U => artifact'[k] = ContentOf(s, k)
        BY <1>0, <3>1, BoundLink
      <3>3. artifact'[i] = ContentOf(next[w], i)
        BY <1>0, <3>1
      <3>4. next[w] # NoLedger =>
               \A k \in 2 .. Len(next[w].history) :
                  k \notin pending[w] \ {i} => artifact'[k] = ContentOf(next[w], k)
        BY <1>0, <3>2, <3>3 DEF GoodHistories
      <3>5. \A v \in Writers : next[v] # NoLedger =>
               \A k \in 2 .. Len(next[v].history) :
                  k \notin pending'[v] => artifact'[k] = ContentOf(next[v], k)
        BY <1>0, <3>1, <3>2, <3>4 DEF GoodHistories
      <3> QED BY <1>0, <3>1, <3>2, <3>5 DEF GoodHistories, Bound
    <2> QED BY <2>2, <2>3
  <1>8. CASE LockLedger(w)
    BY <1>0, <1>8 DEF LockLedger, Bound
  <1>9. CASE CompareLedger(w)
    BY <1>0, <1>9 DEF CompareLedger, Bound
  <1>10. CASE ReplaceLedger(w)
    BY <1>0, <1>10 DEF ReplaceLedger, Bound, LockDiscipline, Locked
  <1>11. CASE VerifyLedger(w)
    BY <1>0, <1>11 DEF VerifyLedger, Bound, LockDiscipline, Locked
  <1>12. CASE Crash(w)
    BY <1>0, <1>12 DEF Crash, Bound
  <1> QED BY <1>1, <1>2, <1>3, <1>4, <1>5, <1>6, <1>7, <1>8, <1>9, <1>10, <1>11, <1>12 DEF Step
-------------------------------------------------------------------------------
(* Every action but the rename and its report leaves both alone.           *)
LEMMA QuietStep ==
  ASSUME TypeOK, NEW w \in Writers, Step(w) \/ Crash(w),
         ~ReplaceLedger(w), ~VerifyLedger(w)
  PROVE  /\ UNCHANGED << ledger, reported >>
         /\ \A v \in Writers : pc'[v] = "verifying" => pc[v] = "verifying"
  <1> USE DEF TypeOK, work, files, locks, Goto, Drop, Fail, Begin
  <1>1. CASE BeginCreate(w) \/ BeginRerun(w) \/ BeginAdvance(w)
    BY <1>1 DEF BeginCreate, BeginRerun, BeginAdvance
  <1>2. CASE LoadJobState(w) \/ Forget(w) \/ Crash(w)
    BY <1>2 DEF LoadJobState, Forget, Crash
  <1>3. CASE \E i \in StageIndex : LockArtifact(w, i) \/ LinkArtifact(w, i)
    BY <1>3 DEF LockArtifact, LinkArtifact
  <1>4. CASE LockLedger(w) \/ CompareLedger(w)
    BY <1>4 DEF LockLedger, CompareLedger
  <1> QED BY <1>1, <1>2, <1>3, <1>4 DEF Step

(* What is renamed over the ledger opens it or extends it by one record:   *)
(* the comparison made the writer's snapshot the ledger's.                 *)
LEMMA ReplacementExtends ==
  ASSUME IInv, NEW w \in Writers, ReplaceLedger(w), ledger' # ledger
  PROVE  /\ ledger' = next[w] /\ Good(next[w])
         /\ ledger = NoLedger => next[w] \in OpeningStates
         /\ ledger # NoLedger =>
              /\ Good(ledger)
              /\ Len(ledger.history) \in 1 .. 9
              /\ Len(next[w].history) = Len(ledger.history) + 1
              /\ ContentOf(next[w], Len(ledger.history) + 1) \in Contents
              /\ \A i \in 1 .. Len(ledger.history) :
                   ContentOf(next[w], i) = ContentOf(ledger, i)
  <1>0. TypeOK /\ GoodHistories /\ LockDiscipline /\ CommitsExtend
    BY DEF IInv
  <1>1. ledger' = next[w] /\ pc[w] = "replacing" /\ Extends(w)
    BY <1>0 DEF ReplaceLedger, CommitsExtend
  <1>2. next[w] # NoLedger /\ Good(next[w])
    BY <1>0, <1>1 DEF LockDiscipline, GoodHistories
  <1>3. CASE ledger = NoLedger
    BY <1>0, <1>1, <1>2, <1>3 DEF Extends, CommitsExtend
  <1>4. CASE ledger # NoLedger
    <2>1. snapshot[w] # NoLedger /\ StateHash(snapshot[w]) = StateHash(ledger)
      BY <1>1, <1>4 DEF Extends
    <2>2. Good(snapshot[w]) /\ Good(ledger)
      BY <1>0, <1>4, <2>1 DEF GoodHistories
    <2> DEFINE n == Len(snapshot[w].history)
    <2>3. /\ n = Len(ledger.history)
          /\ \A i \in 1 .. n : ContentOf(snapshot[w], i) = ContentOf(ledger, i)
      BY <2>1, <2>2, SameHash
    <2>4. PICK c \in Contents : n \in 1 .. 9 /\ next[w] = Advance(snapshot[w], c, FALSE)
      BY <1>0, <1>2, <2>1 DEF CommitsExtend, ExtendsByOne
    <2>5. /\ Len(next[w].history) = n + 1
          /\ \A i \in 1 .. n : ContentOf(next[w], i) = ContentOf(snapshot[w], i)
          /\ ContentOf(next[w], n + 1) = c
      <3> DEFINE t == Advance(snapshot[w], c, FALSE)
      <3>1. /\ Len(t.history) = n + 1
            /\ \A i \in 1 .. n : ContentOf(t, i) = ContentOf(snapshot[w], i)
            /\ ContentOf(t, n + 1) = c
        BY <2>2, <2>4, GoodAdvance
      <3> HIDE DEF t
      <3>2. next[w] = t
        BY <2>4 DEF t
      <3> QED BY <3>1, <3>2
    <2> HIDE DEF n
    <2> QED BY <1>1, <1>2, <1>4, <2>2, <2>3, <2>4, <2>5
  <1> QED BY <1>3, <1>4

(* What was reported stays in the ledger, each stage has one winner, and a *)
(* commit about to be reported is newer than every reported one.           *)
LEMMA ReportStep ==
  ASSUME IInv, NEW w \in Writers, Step(w) \/ Crash(w)
  PROVE  NoLostCommit' /\ OneWinnerPerStage' /\ ReportsFit'
  <1>0. /\ TypeOK /\ GoodHistories /\ LockDiscipline /\ CommitsExtend
        /\ NoLostCommit /\ OneWinnerPerStage /\ ReportsFit
    BY DEF IInv
  <1>1. \A v \in Writers : \A r \in reported[v] : r[1] \in StageIndex
    BY <1>0 DEF TypeOK
  <1>2. CASE ~ReplaceLedger(w) /\ ~VerifyLedger(w)
    <2>1. /\ UNCHANGED << ledger, reported >>
          /\ \A v \in Writers : pc'[v] = "verifying" => pc[v] = "verifying"
      BY <1>0, <1>2, QuietStep
    <2> QED BY <1>0, <2>1 DEF NoLostCommit, OneWinnerPerStage, ReportsFit
  <1>3. CASE ReplaceLedger(w)
    <2>1. reported' = reported
      BY <1>3 DEF ReplaceLedger
    <2>2. \A v \in Writers : v # w => pc'[v] # "verifying"
      BY <1>0, <1>3 DEF ReplaceLedger, LockDiscipline, Locked, TypeOK, Goto, Fail, Drop
    <2>3. CASE ledger' = ledger
      <3>1. pc'[w] = "verifying" => FALSE
        <4>1. ASSUME pc'[w] = "verifying"
              PROVE  FALSE
          <5>1. ledger' = next[w] /\ pc[w] = "replacing"
            BY <1>0, <1>3, <4>1 DEF ReplaceLedger, Goto, Fail, Drop, TypeOK
          <5>2. ledger = next[w] /\ next[w] # NoLedger /\ Good(ledger)
            BY <5>1, <2>3, <1>0 DEF LockDiscipline, GoodHistories
          <5>3. Extends(w)
            BY <5>1, <1>0 DEF CommitsExtend
          <5>4. snapshot[w] # NoLedger /\ StateHash(snapshot[w]) = StateHash(ledger)
            BY <5>2, <5>3 DEF Extends
          <5>5. Good(snapshot[w])
            BY <5>4, <1>0 DEF GoodHistories
          <5> DEFINE n == Len(snapshot[w].history)
                     m == Len(ledger.history)
          <5>6. n = m
            BY <5>2, <5>4, <5>5, SameHash
          <5>7. PICK c \in Contents : n \in 1 .. 9 /\ next[w] = Advance(snapshot[w], c, FALSE)
            BY <1>0, <5>2, <5>4 DEF CommitsExtend, ExtendsByOne
          <5>8. m = n + 1
            <6>1. Len(Advance(snapshot[w], c, FALSE).history) = n + 1
              BY <5>5, <5>7, GoodAdvance
            <6> QED BY <6>1, <5>7, <5>2
          <5> HIDE DEF n, m
          <5> QED BY <5>6, <5>7, <5>8
        <4> QED BY <4>1
      <3> QED BY <1>0, <2>1, <2>2, <2>3, <3>1 DEF NoLostCommit, OneWinnerPerStage, ReportsFit
    <2>4. CASE ledger' # ledger
      <3>1. /\ ledger' = next[w] /\ Good(next[w])
            /\ ledger # NoLedger =>
                 /\ Len(ledger.history) \in 1 .. 9
                 /\ Len(next[w].history) = Len(ledger.history) + 1
                 /\ \A i \in 1 .. Len(ledger.history) :
                      ContentOf(next[w], i) = ContentOf(ledger, i)
        BY <1>3, <2>4, ReplacementExtends
      <3>2. ASSUME NEW v \in Writers, NEW r \in reported[v]
            PROVE  /\ next[w] # NoLedger
                   /\ Len(next[w].history) >= r[1]
                   /\ Len(next[w].history) > r[1]
                   /\ ContentOf(next[w], r[1]) = r[2]
        <4> DEFINE n == Len(ledger.history)
        <4>1. ledger # NoLedger /\ n >= r[1] /\ ContentOf(ledger, r[1]) = r[2]
          BY <1>0 DEF NoLostCommit
        <4>2. r[1] \in 1 .. 10
          BY <1>1, TenStages
        <4>3. /\ n \in 1 .. 9 /\ Len(next[w].history) = n + 1
              /\ \A i \in 1 .. n : ContentOf(next[w], i) = ContentOf(ledger, i)
          BY <3>1, <4>1
        <4> HIDE DEF n
        <4>4. r[1] \in 1 .. n /\ n + 1 >= r[1] /\ n + 1 > r[1]
          BY <4>1, <4>2, <4>3
        <4> QED BY <3>1, <4>1, <4>3, <4>4, GoodFacts
      <3>3. NoLostCommit'
        BY <2>1, <3>1, <3>2 DEF NoLostCommit
      <3>4. ReportsFit'
        BY <2>1, <3>1, <3>2 DEF ReportsFit
      <3>5. OneWinnerPerStage'
        BY <1>0, <2>1 DEF OneWinnerPerStage
      <3> QED BY <3>3, <3>4, <3>5
    <2> QED BY <2>3, <2>4
  <1>4. CASE VerifyLedger(w)
    <2> DEFINE n == Len(next[w].history)
               e == << n, ContentOf(next[w], n) >>
    <2>1. /\ ledger' = ledger /\ pc[w] = "verifying" /\ ledger = next[w]
          /\ \A v \in Writers : v # w => reported'[v] = reported[v]
          /\ reported'[w] \subseteq reported[w] \cup {e}
      <3>1. ledger' = ledger /\ pc[w] = "verifying" /\ ledger = next[w]
        BY <1>0, <1>4 DEF VerifyLedger, CommitsExtend, files
      <3>2. \/ reported' = [reported EXCEPT ![w] = reported[w] \cup {e}]
            \/ reported' = reported
        BY <1>4 DEF VerifyLedger
      <3> HIDE DEF e
      <3> QED BY <3>1, <3>2, <1>0 DEF TypeOK
    <2>2. \A v \in Writers : pc'[v] # "verifying"
      BY <1>0, <1>4 DEF VerifyLedger, LockDiscipline, Locked, TypeOK, Goto, Fail, Drop
    <2>3. ledger # NoLedger /\ Good(ledger) /\ n \in StageIndex
      BY <1>0, <2>1, GoodLast DEF LockDiscipline, GoodHistories
    <2>4. ReportsFit'
      BY <2>2 DEF ReportsFit
    <2>5. e[1] = n /\ e[2] = ContentOf(ledger, n) /\ n = Len(ledger.history)
      BY <2>1
    <2>6. \A v \in Writers : \A r \in reported[v] : r[1] < n
      BY <1>0, <2>1 DEF ReportsFit
    <2> HIDE DEF n, e
    <2>7. n \in 1 .. 10
      BY <2>3, TenStages
    <2>8. NoLostCommit'
      <3> SUFFICES ASSUME NEW v \in Writers, NEW r \in reported'[v]
                   PROVE  /\ ledger # NoLedger
                          /\ Len(ledger.history) >= r[1]
                          /\ ContentOf(ledger, r[1]) = r[2]
        BY <2>1 DEF NoLostCommit
      <3>1. CASE r = e
        BY <3>1, <2>3, <2>5, <2>7
      <3>2. CASE r \in reported[v]
        BY <3>2, <1>0 DEF NoLostCommit
      <3> QED BY <2>1, <3>1, <3>2
    <2>9. OneWinnerPerStage'
      <3> SUFFICES ASSUME NEW u \in Writers, NEW v \in Writers,
                          NEW r \in reported'[u], NEW q \in reported'[v], r[1] = q[1], u # v
                   PROVE  FALSE
        BY DEF OneWinnerPerStage
      <3>1. r = e \/ r \in reported[u]
        BY <2>1
      <3>2. q = e \/ q \in reported[v]
        BY <2>1
      <3>3. ~(r \in reported[u] /\ q \in reported[v])
        BY <1>0 DEF OneWinnerPerStage
      <3>4. r \in reported[u] => r[1] \in 1 .. 10 /\ r[1] < n
        BY <1>1, <2>6, TenStages
      <3>5. q \in reported[v] => q[1] \in 1 .. 10 /\ q[1] < n
        BY <1>1, <2>6, TenStages
      <3>6. r = e /\ q = e => FALSE
        <4>1. u # w \/ v # w
          OBVIOUS
        <4>2. r = e /\ q = e => e \in reported[u] \/ e \in reported[v]
          BY <2>1, <4>1
        <4>3. \A x \in Writers : e \in reported[x] => FALSE
          BY <2>5, <2>6, <2>7
        <4> QED BY <4>2, <4>3
      <3> QED BY <3>1, <3>2, <3>3, <3>4, <3>5, <3>6, <2>5, <2>7
    <2> QED BY <2>4, <2>8, <2>9
  <1> QED BY <1>2, <1>3, <1>4
-------------------------------------------------------------------------------
LEMMA InitIInv == Init => IInv
  <1> SUFFICES ASSUME Init
               PROVE  IInv
    OBVIOUS
  <1>1. TypeOK
    BY InitTypeOK
  <1> USE DEF Init
  <1>2. GoodHistories /\ ArtifactsBound
    BY DEF GoodHistories, ArtifactsBound
  <1>3. LockDiscipline
    BY NoWriterAssumption DEF LockDiscipline, Locked
  <1>4. CommitsExtend /\ ReportsFit /\ NoLostCommit /\ OneWinnerPerStage
    BY DEF CommitsExtend, ReportsFit, NoLostCommit, OneWinnerPerStage
  <1> QED BY <1>1, <1>2, <1>3, <1>4 DEF IInv

LEMMA StutterIInv == IInv /\ UNCHANGED vars => IInv'
  BY DEF IInv, vars, TypeOK, GoodHistories, LockDiscipline, CommitsExtend, Extends,
         ArtifactsBound, Bound, NoLostCommit, OneWinnerPerStage, ReportsFit

(* IInv holds in every reachable state: it is kept by every step of every  *)
(* writer, crashes and failures included.                                  *)
THEOREM Invariance == Spec => []IInv
  <1>1. IInv /\ [Next]_vars => IInv'
    <2>1. ASSUME IInv, NEW w \in Writers, Step(w) \/ Crash(w)
          PROVE  IInv'
      BY <2>1, TypeStep, HistoryStep, LockStep, CommitStep, BindingStep, ReportStep DEF IInv
    <2> QED BY <2>1, StutterIInv DEF Next
  <1> QED BY InitIInv, <1>1, PTL DEF Spec

(* The variables keep their types.                                         *)
THEOREM TypeCorrect == Spec => []TypeOK
  <1>1. IInv => TypeOK
    BY DEF IInv
  <1> QED BY <1>1, Invariance, PTL

(* No interleaving of writers, crashes and failures makes a process read,  *)
(* hold or write a history that _validate_history would refuse.            *)
THEOREM HistoriesAlwaysValid == Spec => []HistoriesValid
  <1>1. IInv => HistoriesValid
    BY DEF IInv, GoodHistories, HistoriesValid, Good
  <1> QED BY <1>1, Invariance, PTL

(* A commit that write_job_state reported is never lost.                   *)
THEOREM CommitsAreDurable == Spec => []NoLostCommit
  <1>1. IInv => NoLostCommit
    BY DEF IInv
  <1> QED BY <1>1, Invariance, PTL

(* At most one writer is told that it committed a given stage.             *)
THEOREM OneWinner == Spec => []OneWinnerPerStage
  <1>1. IInv => OneWinnerPerStage
    BY DEF IInv
  <1> QED BY <1>1, Invariance, PTL

(* The lock on job-state.json is held only inside the critical section of  *)
(* write_job_state, whatever crashed, failed or conflicted before.         *)
THEOREM LockIsAlwaysLeft == Spec => []LockIsNeverLeft
  <1>1. IInv => LockIsNeverLeft
    BY DEF IInv, LockDiscipline, Locked, LockIsNeverLeft
  <1> QED BY <1>1, Invariance, PTL

(* The ledger never names bytes that are not on disk.                      *)
THEOREM LedgerIsBound == Spec => []LedgerBindsArtifacts
  <1>1. IInv => LedgerBindsArtifacts
    BY DEF IInv, ArtifactsBound, Bound, LedgerBindsArtifacts
  <1> QED BY <1>1, Invariance, PTL

(* Only the link writes an artifact, and it refuses an existing name.      *)
THEOREM ArtifactsNeverChange == Spec => ArtifactsImmutable
  <1> DEFINE Kept == \A i \in StageIndex : artifact[i] # NoContent => artifact'[i] = artifact[i]
  <1>1. IInv /\ [Next]_vars => [Kept]_vars
    <2> SUFFICES ASSUME IInv, Next
                 PROVE  Kept
      BY DEF vars
    <2>1. PICK w \in Writers : Step(w) \/ Crash(w)
      BY DEF Next
    <2>2. TypeOK
      BY DEF IInv
    <2>3. CASE \E i \in StageIndex : LinkArtifact(w, i)
      BY <2>2, <2>3 DEF LinkArtifact, TypeOK
    <2>4. CASE ~\E i \in StageIndex : LinkArtifact(w, i)
      <3>1. artifact' = artifact
        BY <2>1, <2>4 DEF Step, Crash, BeginCreate, BeginRerun, BeginAdvance, Begin,
             LoadJobState, Forget, LockArtifact, LockLedger, CompareLedger, ReplaceLedger,
             VerifyLedger, files
      <3> QED BY <3>1
    <2> QED BY <2>3, <2>4
  <1> QED BY <1>1, Invariance, PTL DEF Spec, ArtifactsImmutable
-------------------------------------------------------------------------------
(* What a reader of the ledger sees of a state.                            *)
View(state) == [i \in 1 .. Len(state.history) |-> ContentOf(state, i)]

LEMMA ViewOfOpening ==
  /\ View(CreateJob) = << NoContent >>
  /\ \A c, d \in Contents : View(BuildRerun(c, d)) = << NoContent, c, d >>
  <1>1. View(CreateJob) = << NoContent >>
    <2>1. Len(CreateJob.history) = 1 /\ ContentOf(CreateJob, 1) = NoContent
      BY GoodCreate, GoodFacts
    <2> QED BY <2>1 DEF View
  <1>2. ASSUME NEW c \in Contents, NEW d \in Contents
        PROVE  View(BuildRerun(c, d)) = << NoContent, c, d >>
    <2> DEFINE t == BuildRerun(c, d)
    <2>1. /\ Len(t.history) = 3 /\ ContentOf(t, 1) = NoContent
          /\ ContentOf(t, 2) = c /\ ContentOf(t, 3) = d
      BY GoodRerun, GoodFacts
    <2> HIDE DEF t
    <2>2. View(t) = [i \in 1 .. 3 |-> ContentOf(t, i)]
      BY <2>1 DEF View
    <2> QED BY <2>1, <2>2 DEF t
  <1> QED BY <1>1, <1>2

LEMMA ViewOfExtension ==
  ASSUME NEW s, Good(s), NEW t, Good(t), NEW n \in 1 .. 9, n = Len(s.history),
         Len(t.history) = n + 1, \A i \in 1 .. n : ContentOf(t, i) = ContentOf(s, i)
  PROVE  /\ View(s) # << >> /\ Len(View(s)) < 10
         /\ View(t) = Append(View(s), ContentOf(t, n + 1))
  <1> DEFINE f == View(s)
             g == View(t)
             e == ContentOf(t, n + 1)
  <1>1. f = [i \in 1 .. n |-> ContentOf(s, i)]
    BY DEF View
  <1>2. g = [i \in 1 .. (n + 1) |-> ContentOf(t, i)]
    BY DEF View
  <1>3. ContentOf(s, 1) \in Content /\ \A i \in 2 .. n : ContentOf(s, i) \in Content
    BY GoodFacts DEF Content
  <1> HIDE DEF f, g
  <1>4. f \in Seq(Content) /\ n \in Nat
    <2>1. \A i \in 1 .. n : i = 1 \/ i \in 2 .. n
      OBVIOUS
    <2>2. \A i \in 1 .. n : ContentOf(s, i) \in Content
      BY <1>3, <2>1
    <2> QED BY <1>1, <2>2
  <1>5. Len(f) = n
    BY <1>1, <1>4
  <1>6. f # << >>
    <2>1. Len(<< >>) = 0 /\ n # 0
      BY EmptyLength, NextIndex, Zenon
    <2> QED BY <2>1, <1>5, Zenon
  <1>7. Append(f, e) = [i \in 1 .. (n + 1) |-> IF i = n + 1 THEN e ELSE f[i]]
    BY <1>4, <1>5
  <1>8. \A i \in 1 .. (n + 1) :
           ContentOf(t, i) = IF i = n + 1 THEN e ELSE f[i]
    BY <1>1, NextIndex
  <1>9. g = Append(f, e)
    BY <1>2, <1>7, <1>8
  <1>10. n < 10
    BY NextIndex, Zenon
  <1>11. Len(f) < 10
    BY <1>5, <1>10, Zenon
  <1> QED BY <1>6, <1>9, <1>11, Zenon DEF f, g

(* Seen from outside, the ledger opens once and only ever grows by one     *)
(* record: JobLedger implements StageLog.                                  *)
THEOREM ImplementsLog == Spec => ImplementsStageLog
  <1> DEFINE seen == IF ledger = NoLedger THEN << >>
                     ELSE [i \in 1 .. Len(ledger.history) |-> ContentOf(ledger, i)]
  <1>1. Init => Log!Init
    BY DEF Init, Log!Init
  <1>2. IInv /\ [Next]_vars => [Log!Next]_seen
    <2> SUFFICES ASSUME IInv, [Next]_vars, ledger' # ledger
                 PROVE  Log!Next
      OBVIOUS
    <2>1. PICK w \in Writers : ReplaceLedger(w)
      <3>1. TypeOK
        BY DEF IInv
      <3>2. PICK w \in Writers : Step(w) \/ Crash(w)
        BY DEF Next, vars
      <3>3. ReplaceLedger(w) \/ VerifyLedger(w)
        BY <3>1, <3>2, QuietStep
      <3> QED BY <3>3 DEF VerifyLedger, files
    <2>2. /\ ledger' = next[w] /\ Good(next[w])
          /\ ledger = NoLedger => next[w] \in OpeningStates
          /\ ledger # NoLedger =>
               /\ Good(ledger)
               /\ Len(ledger.history) \in 1 .. 9
               /\ Len(next[w].history) = Len(ledger.history) + 1
               /\ ContentOf(next[w], Len(ledger.history) + 1) \in Contents
               /\ \A i \in 1 .. Len(ledger.history) :
                    ContentOf(next[w], i) = ContentOf(ledger, i)
      BY <2>1, ReplacementExtends
    <2>3. next[w] # NoLedger
      BY <2>2, GoodFacts
    <2>4. seen' = View(next[w])
      BY <2>2, <2>3 DEF View
    <2>5. CASE ledger = NoLedger
      <3>1. seen = << >> /\ View(next[w]) \in Log!Openings
        BY <2>2, <2>5, ViewOfOpening DEF OpeningStates, Log!Openings
      <3> QED BY <3>1, <2>4 DEF Log!Next, Log!Open
    <2>6. CASE ledger # NoLedger
      <3> DEFINE n == Len(ledger.history)
                 c == ContentOf(next[w], n + 1)
      <3>1. /\ View(ledger) # << >> /\ Len(View(ledger)) < 10
            /\ View(next[w]) = Append(View(ledger), c) /\ c \in Contents
        BY <2>2, <2>6, ViewOfExtension
      <3>2. seen = View(ledger)
        BY <2>6 DEF View
      <3> HIDE DEF c, seen
      <3>3. seen # << >> /\ Len(seen) < 10 /\ seen' = Append(seen, c)
        BY <2>4, <3>1, <3>2
      <3> QED BY <3>1, <3>3, TenStages DEF Log!Next, Log!Extend, seen
    <2> QED BY <2>5, <2>6
  <1> QED BY <1>1, <1>2, Invariance, PTL DEF Spec, ImplementsStageLog, Log!Spec
===============================================================================

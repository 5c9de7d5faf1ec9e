------------------------------ MODULE JobLedger ------------------------------
(***************************************************************************)
(* The job ledger job-state.json and the immutable artifacts it binds,     *)
(* as job/state.py and job/storage.py write them: any number of processes  *)
(* share one job directory, each loads the ledger, commits the artifact of *)
(* the next stage and compare-and-swaps the ledger under an advisory lock  *)
(* that never blocks.  A process may die between any two steps; the kernel *)
(* then releases the locks it held, and its temporary files hold nothing   *)
(* that another process reads.                                             *)
(*                                                                         *)
(* The artifacts a stage requires are written one after the other by the   *)
(* same code and bound by one record, so each stage has one artifact here. *)
(* prepare.py writes the artifacts of both extraction stages before the    *)
(* ledger exists; here each is written before the record that names it.    *)
(***************************************************************************)
EXTENDS Naturals, Sequences

CONSTANTS
    Writers,       \* the processes that share the job directory
    Contents,      \* the contents an artifact can have, told apart by digest
    NoContent,     \* no artifact: the initialized record, a missing file
    NoWriter,      \* the holder of a free lock
    NoLedger,      \* job-state.json does not exist
    StageBound     \* how many stages a run drives the job through

JobStage == << "initialized", "preflighted", "extracted", "translated",
               "reviewed", "annotated", "laid_out", "rendered", "validated",
               "finalized" >>

ASSUME StageBoundAssumption == StageBound \in 3 .. Len(JobStage)
ASSUME NoContentAssumption == NoContent \notin Contents
ASSUME NoWriterAssumption == NoWriter \notin Writers
ASSUME ContentsAssumption == Contents # {}

VARIABLES
    ledger,        \* the state in job-state.json, or NoLedger
    artifact,      \* per stage, the content of its artifact file
    ledgerLock,    \* the holder of the lock on job-state.json
    artifactLock,  \* per stage, the holder of the lock on its artifact
    pc,            \* where each writer is
    snapshot,      \* the state each writer last read or wrote
    next,          \* the state each writer is committing
    pending,       \* the stages whose artifacts it still has to write
    reported       \* the commits it was told succeeded: <<stage, content>>

vars == << ledger, artifact, ledgerLock, artifactLock, pc, snapshot, next,
           pending, reported >>

StageIndex == 1 .. Len(JobStage)

(* The values of a state file: a header and its history of stage records.  *)
StageName == {JobStage[i] : i \in StageIndex}
Content == Contents \cup {NoContent}
Origin == {"none", "checkpoint"}
Digest == [reused_from : Origin,
           records : Seq([stage : StageName, content : Content, reused : BOOLEAN])]
StageRecord == [stage : StageName, previous_state_hash : Digest,
                content : Content, reused : BOOLEAN]
JobState == [reused_from : Origin, history : Seq(StageRecord)]

ASSUME NoLedgerAssumption == NoLedger \notin JobState
-----------------------------------------------------------------------------
(* Pure state transitions (job/state.py).                                  *)

(* A snapshot's hash.  In every history that ValidHistory accepts, the     *)
(* previous_state_hash fields are determined by what precedes them, so the *)
(* contents identify the snapshot as its digest does.                      *)
StateHash(state) ==
    [reused_from |-> state.reused_from,
     records |-> [i \in 1 .. Len(state.history) |->
                    [stage |-> state.history[i].stage,
                     content |-> state.history[i].content,
                     reused |-> state.history[i].reused]]]

NoHash == [reused_from |-> "none", records |-> << >>]

Record(stage, hash, content, reused) ==
    [stage |-> stage, previous_state_hash |-> hash,
     content |-> content, reused |-> reused]

InitialRecord == Record(JobStage[1], NoHash, NoContent, FALSE)

Prefix(state, n) == [reused_from |-> state.reused_from, history |-> SubSeq(state.history, 1, n)]

(* A rerun marks exactly the two extraction stages as reused.              *)
ReusedAt(state, i) == state.reused_from # "none" /\ i \in {2, 3}

ValidHistory(state) ==
    LET h == state.history IN
    /\ Len(h) \in StageIndex
    /\ h[1] = InitialRecord
    /\ \A i \in 1 .. Len(h) : h[i].stage = JobStage[i]
    /\ \A i \in 2 .. Len(h) :
         /\ h[i].content \in Contents
         /\ h[i].previous_state_hash = StateHash(Prefix(state, i - 1))
         /\ h[i].reused = ReusedAt(state, i)

CreateJob == [reused_from |-> "none", history |-> << InitialRecord >>]

CreateRerun == [reused_from |-> "checkpoint", history |-> << InitialRecord >>]

CanAdvance(state) == ValidHistory(state) /\ Len(state.history) < Len(JobStage)

Advance(state, content, reused) ==
    [reused_from |-> state.reused_from,
     history |-> Append(state.history,
                        Record(JobStage[Len(state.history) + 1],
                               StateHash(state), content, reused))]

(* Fault: a rerun that does not mark what it reuses.                       *)
BuildRerunUnmarked(preflight, units) ==
    Advance(Advance(CreateRerun, preflight, FALSE),
            units, FALSE)

(* A rerun starts with the two records it reuses from the checkpoint.      *)
BuildRerun(preflight, units) ==
    Advance(Advance(CreateRerun, preflight, TRUE),
            units, TRUE)

ContentOf(state, i) == state.history[i].content
-----------------------------------------------------------------------------
Init ==
    /\ ledger = NoLedger
    /\ artifact = [i \in StageIndex |-> NoContent]
    /\ ledgerLock = NoWriter
    /\ artifactLock = [i \in StageIndex |-> NoWriter]
    /\ pc = [w \in Writers |-> "idle"]
    /\ snapshot = [w \in Writers |-> NoLedger]
    /\ next = [w \in Writers |-> NoLedger]
    /\ pending = [w \in Writers |-> {}]
    /\ reported = [w \in Writers |-> {}]

files == << ledger, artifact >>
locks == << ledgerLock, artifactLock >>

Goto(w, label) == pc' = [pc EXCEPT ![w] = label]

work == << snapshot, next, pending >>

Drop(w) == /\ snapshot' = [snapshot EXCEPT ![w] = NoLedger]
           /\ next' = [next EXCEPT ![w] = NoLedger]
           /\ pending' = [pending EXCEPT ![w] = {}]

(* The call raises (lock held, artifact exists, conflict, I/O error): its  *)
(* caller stops and keeps nothing of the work.                             *)
Fail(w) == Goto(w, "idle") /\ Drop(w)

Begin(w, state, stages) ==
    /\ next' = [next EXCEPT ![w] = state]
    /\ pending' = [pending EXCEPT ![w] = stages]
    /\ Goto(w, "artifacts")
    /\ UNCHANGED << files, locks, reported >>

(* prepare.py opens the ledger of a new job.                               *)
BeginCreate(w) ==
    /\ pc[w] = "idle"
    /\ Begin(w, CreateJob, {})
    /\ snapshot' = [snapshot EXCEPT ![w] = NoLedger]

(* recovery.py opens an attempt's ledger once the reused bytes are copied. *)
BeginRerun(w) ==
    /\ pc[w] = "idle"
    /\ \E c, d \in Contents : Begin(w, BuildRerun(c, d), {2, 3})
    /\ snapshot' = [snapshot EXCEPT ![w] = NoLedger]

LoadJobState(w) ==
    /\ pc[w] = "idle"
    /\ ledger # NoLedger
    /\ ValidHistory(ledger)
    /\ snapshot' = [snapshot EXCEPT ![w] = ledger]
    /\ Goto(w, "loaded")
    /\ UNCHANGED << files, locks, next, pending, reported >>

BeginAdvance(w) ==
    /\ pc[w] = "loaded"
    /\ CanAdvance(snapshot[w])
    /\ Len(snapshot[w].history) < StageBound
    /\ \E c \in Contents :
         Begin(w, Advance(snapshot[w], c, FALSE), {Len(snapshot[w].history) + 1})
    /\ UNCHANGED snapshot

(* The writer drops its snapshot: its work ends or it will read again.     *)
Forget(w) ==
    /\ pc[w] = "loaded"
    /\ Goto(w, "idle")
    /\ Drop(w)
    /\ UNCHANGED << files, locks, reported >>
-----------------------------------------------------------------------------
(* write_immutable_bytes: a complete temporary file, then the lock, then a *)
(* hard link that refuses an existing name.                                *)

LockArtifact(w, i) ==
    /\ pc[w] = "artifacts"
    /\ i \in pending[w]
    /\ \/ /\ artifactLock[i] = NoWriter
          /\ artifactLock' = [artifactLock EXCEPT ![i] = w]
          /\ Goto(w, "linking")
          /\ UNCHANGED work
       \/ /\ artifactLock[i] # NoWriter
          /\ Fail(w)
          /\ UNCHANGED artifactLock
    /\ UNCHANGED << files, ledgerLock, reported >>

(* Fault: an artifact that exists is taken for the one to be written.      *)
LinkArtifactAssuming(w, i) ==
    /\ pc[w] = "linking"
    /\ artifactLock[i] = w
    /\ artifactLock' = [artifactLock EXCEPT ![i] = NoWriter]
    /\ artifact' = [artifact EXCEPT ![i] = IF @ = NoContent THEN ContentOf(next[w], i)
                                                           ELSE @]
    /\ pending' = [pending EXCEPT ![w] = @ \ {i}]
    /\ Goto(w, "artifacts")
    /\ UNCHANGED << ledger, ledgerLock, snapshot, next, reported >>

LinkArtifact(w, i) ==
    /\ pc[w] = "linking"
    /\ artifactLock[i] = w
    /\ artifactLock' = [artifactLock EXCEPT ![i] = NoWriter]
    /\ \/ /\ artifact[i] = NoContent
          /\ artifact' = [artifact EXCEPT ![i] = ContentOf(next[w], i)]
          /\ pending' = [pending EXCEPT ![w] = @ \ {i}]
          /\ Goto(w, "artifacts")
          /\ UNCHANGED << snapshot, next >>
       \/ /\ artifact[i] # NoContent
          /\ Fail(w)
          /\ UNCHANGED artifact
    /\ UNCHANGED << ledger, ledgerLock, reported >>
-----------------------------------------------------------------------------
(* write_job_state: compare-and-swap under the ledger's lock.              *)

(* Fault: the ledger is written without waiting for its lock to be free.   *)
LockLedgerSkipping(w) ==
    /\ pc[w] = "artifacts"
    /\ pending[w] = {}
    /\ ledgerLock' = w
    /\ Goto(w, "comparing")
    /\ UNCHANGED << files, work, artifactLock, reported >>

LockLedger(w) ==
    /\ pc[w] = "artifacts"
    /\ pending[w] = {}
    /\ \/ /\ ledgerLock = NoWriter
          /\ ledgerLock' = w
          /\ Goto(w, "comparing")
          /\ UNCHANGED work
       \/ /\ ledgerLock # NoWriter
          /\ Fail(w)
          /\ UNCHANGED ledgerLock
    /\ UNCHANGED << files, artifactLock, reported >>

(* Fault: a writer that expects no ledger overwrites the one it finds.     *)
ExtendsUnchecked(w) ==
    snapshot[w] # NoLedger =>
        ledger # NoLedger /\ StateHash(snapshot[w]) = StateHash(ledger)

(* The comparison the code makes: what the writer expected, and what its   *)
(* new last record extends, must both be the persisted state.              *)
Extends(w) ==
    IF ledger = NoLedger
    THEN snapshot[w] = NoLedger
    ELSE /\ snapshot[w] # NoLedger
         /\ StateHash(snapshot[w]) = StateHash(ledger)
         /\ next[w].history[Len(next[w].history)].previous_state_hash
              = StateHash(ledger)

CompareLedger(w) ==
    /\ pc[w] = "comparing"
    /\ \/ /\ Extends(w)
          /\ Goto(w, "replacing")
          /\ UNCHANGED << ledgerLock, work >>
       \/ /\ ~Extends(w)
          /\ ledgerLock' = NoWriter
          /\ Fail(w)
    /\ UNCHANGED << files, artifactLock, reported >>

(* The new state is staged beside the ledger and renamed over it, or the   *)
(* staging fails and the ledger is as it was.                              *)
ReplaceLedger(w) ==
    /\ pc[w] = "replacing"
    /\ \/ /\ ledger' = next[w]
          /\ Goto(w, "verifying")
          /\ UNCHANGED << ledgerLock, work >>
       \/ /\ ledgerLock' = NoWriter
          /\ Fail(w)
          /\ UNCHANGED ledger
    /\ UNCHANGED << artifact, artifactLock, reported >>

(* The bytes are read back.  A failure here is reported as an error of a   *)
(* commit that has taken place.                                            *)
VerifyLedger(w) ==
    /\ pc[w] = "verifying"
    /\ ledgerLock' = NoWriter
    /\ \/ LET n == Len(next[w].history) IN
          /\ ledger = next[w]
          /\ reported' = [reported EXCEPT ![w] = @ \cup {<< n, ContentOf(next[w], n) >>}]
          /\ snapshot' = [snapshot EXCEPT ![w] = next[w]]
          /\ next' = [next EXCEPT ![w] = NoLedger]
          /\ Goto(w, "loaded")
          /\ UNCHANGED pending
       \/ /\ Fail(w)
          /\ UNCHANGED reported
    /\ UNCHANGED << files, artifactLock >>
-----------------------------------------------------------------------------
(* The process dies; the kernel closes its descriptors and so its locks.   *)
Crash(w) ==
    /\ pc[w] # "idle"
    /\ Fail(w)
    /\ ledgerLock' = IF ledgerLock = w THEN NoWriter ELSE ledgerLock
    /\ artifactLock' =
         [i \in StageIndex |-> IF artifactLock[i] = w THEN NoWriter
                                                      ELSE artifactLock[i]]
    /\ UNCHANGED << files, reported >>

Step(w) ==
    \/ BeginCreate(w) \/ BeginRerun(w) \/ LoadJobState(w) \/ BeginAdvance(w)
    \/ Forget(w)
    \/ \E i \in StageIndex : LockArtifact(w, i) \/ LinkArtifact(w, i)
    \/ LockLedger(w) \/ CompareLedger(w) \/ ReplaceLedger(w) \/ VerifyLedger(w)

Next == \E w \in Writers : Step(w) \/ Crash(w)

Spec == Init /\ [][Next]_vars
-----------------------------------------------------------------------------
(* The variables hold what the code can put there; the initialized stage   *)
(* has no artifact to write.                                               *)
PCs == {"idle", "loaded", "artifacts", "linking", "comparing", "replacing",
        "verifying"}

TypeOK ==
    /\ ledger \in JobState \cup {NoLedger}
    /\ artifact \in [StageIndex -> Content]
    /\ ledgerLock \in Writers \cup {NoWriter}
    /\ artifactLock \in [StageIndex -> Writers \cup {NoWriter}]
    /\ pc \in [Writers -> PCs]
    /\ snapshot \in [Writers -> JobState \cup {NoLedger}]
    /\ next \in [Writers -> JobState \cup {NoLedger}]
    /\ pending \in [Writers -> SUBSET (StageIndex \ {1})]
    /\ reported \in [Writers -> SUBSET (StageIndex \X Content)]

(* Whatever a process reads, holds or is about to write is a history that  *)
(* _validate_history accepts: no interleaving produces a skipped stage, a  *)
(* broken hash chain or a rerun whose reuse is not recorded.               *)
HistoriesValid ==
    /\ ledger # NoLedger => ValidHistory(ledger)
    /\ \A w \in Writers :
         /\ snapshot[w] # NoLedger => ValidHistory(snapshot[w])
         /\ next[w] # NoLedger => ValidHistory(next[w])

(* No committed stage is ever lost: what write_job_state reported to any   *)
(* caller stays recorded, at its stage, however the writers interleave.    *)
NoLostCommit ==
    \A w \in Writers : \A r \in reported[w] :
        /\ ledger # NoLedger
        /\ Len(ledger.history) >= r[1]
        /\ ContentOf(ledger, r[1]) = r[2]

(* Of the writers that race from the same state, at most one is told that  *)
(* its commit of the stage succeeded.                                      *)
OneWinnerPerStage ==
    \A v, w \in Writers : \A r \in reported[v], q \in reported[w] :
        r[1] = q[1] => v = w

(* The ledger names only bytes that are on disk: the artifact of each      *)
(* recorded stage exists and has the recorded content, at every instant at *)
(* which a crash could leave the job to be read again.                     *)
LedgerBindsArtifacts ==
    ledger # NoLedger =>
        \A i \in 2 .. Len(ledger.history) : artifact[i] = ContentOf(ledger, i)

(* An immutable artifact, once visible, keeps its content.                 *)
ArtifactsImmutable ==
    [][\A i \in StageIndex : artifact[i] # NoContent => artifact'[i] = artifact[i]]_vars

(* Seen from outside the ledger is a log that opens once and only grows.   *)
Log == INSTANCE StageLog WITH
         MaxEntries <- Len(JobStage),
         log <- IF ledger = NoLedger THEN << >>
                ELSE [i \in 1 .. Len(ledger.history) |-> ContentOf(ledger, i)]

ImplementsStageLog == Log!Spec

(* No crash, conflict or I/O error leaves the ledger locked: whoever holds *)
(* the lock on job-state.json is inside its critical section, so that a    *)
(* later commit can always be tried.                                       *)
LockIsNeverLeft ==
    \A w \in Writers : ledgerLock = w => pc[w] \in {"comparing", "replacing", "verifying"}
-----------------------------------------------------------------------------
(* The inductive invariant behind the proofs of the properties above.      *)

(* The states the operations build: valid, and never a rerun that has not  *)
(* reused both extraction stages.                                          *)
Good(s) == /\ s \in JobState
           /\ ValidHistory(s)
           /\ s.reused_from # "none" => Len(s.history) \in 3 .. 10

GoodHistories ==
    /\ ledger # NoLedger => Good(ledger)
    /\ \A w \in Writers : /\ snapshot[w] # NoLedger => Good(snapshot[w])
                          /\ next[w] # NoLedger => Good(next[w])

(* The lock is held exactly by the writer inside the critical section.     *)
ArtifactStages(state) == 2 .. Len(state.history)

Locked == {"comparing", "replacing", "verifying"}

LockDiscipline ==
    \A w \in Writers :
        /\ ledgerLock = w <=> pc[w] \in Locked
        /\ next[w] = NoLedger <=> pc[w] \in {"idle", "loaded"}
        /\ pc[w] = "loaded" => snapshot[w] # NoLedger
        /\ pc[w] \in Locked => pending[w] = {}
        /\ next[w] # NoLedger => pending[w] \subseteq ArtifactStages(next[w])
        /\ \A i \in StageIndex :
             artifactLock[i] = w =>
                 /\ pc[w] = "linking"
                 /\ i \in pending[w]
                 /\ \A j \in StageIndex : artifactLock[j] = w => i = j

(* What a writer is about to commit opens a ledger or extends its snapshot *)
(* by one stage, and once compared its snapshot is still the ledger.       *)
OpeningStates == {CreateJob} \cup {BuildRerun(c, d) : c, d \in Contents}

ExtendsByOne(old, new) ==
    \E c \in Contents : /\ Len(old.history) \in 1 .. 9
                        /\ new = Advance(old, c, FALSE)

CommitsExtend ==
    \A w \in Writers :
        /\ next[w] # NoLedger /\ snapshot[w] = NoLedger => next[w] \in OpeningStates
        /\ next[w] # NoLedger /\ snapshot[w] # NoLedger => ExtendsByOne(snapshot[w], next[w])
        /\ pc[w] = "replacing" => Extends(w)
        /\ pc[w] = "verifying" => ledger = next[w]

Bound(state, unwritten) ==
    \A i \in 2 .. Len(state.history) :
        i \notin unwritten => artifact[i] = ContentOf(state, i)

ArtifactsBound ==
    /\ ledger # NoLedger => Bound(ledger, {})
    /\ \A w \in Writers :
         /\ snapshot[w] # NoLedger => Bound(snapshot[w], {})
         /\ next[w] # NoLedger => Bound(next[w], pending[w])

ReportsFit ==
    \A w \in Writers : pc[w] = "verifying" =>
        \A v \in Writers : \A r \in reported[v] : r[1] < Len(ledger.history)

IInv == /\ TypeOK /\ GoodHistories /\ LockDiscipline /\ CommitsExtend
        /\ ArtifactsBound /\ NoLostCommit /\ OneWinnerPerStage /\ ReportsFit
=============================================================================

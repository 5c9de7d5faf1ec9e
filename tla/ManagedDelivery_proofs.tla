------------------------ MODULE ManagedDelivery_proofs ------------------------
(***************************************************************************)
(* What delivery promises for every number of deliverers, sweepers, jobs,  *)
(* targets and calls, on posix and on nt, whatever crashes, fails or is    *)
(* cancelled.                                                              *)
(***************************************************************************)
EXTENDS ManagedDelivery, TLAPS

(* A job is delivered by one caller: the runs of scripts/finish_job.py     *)
(* deliver the attempt each has made.  Anyone may sweep it.                *)
ExclusiveJobs == \A p, q \in Deliverers : p # q => JobsOf[p] \cap JobsOf[q] = {}

Cleaning == {"cleanup", "retaining", "unstaging", "listing", "unlinking"}

(* The locals of a call that runs, and of the last one that returned.      *)
DelivererIsKnown(p) ==
    /\ pc[p] # "idle" \/ result[p] # NoResult =>
          call[p] \in DeliveryCalls /\ Job(p) \in JobsOf[p]
    /\ result[p] # NoResult => pc[p] = "idle" /\ result[p] \in Results
    /\ pc[p] = "retaining" => call[p].keep

SweeperIsKnown(s) ==
    /\ pc[s] \in {"idle"} \cup Cleaning
    /\ pc[s] # "idle" => call[s] \in SweepCalls
    /\ pc[s] # "retaining"

(* Who copies has an incomplete staging file of its own.                   *)
CopyIsThere(p) == pc[p] = "copying" => staging[Job(p)] = File(p, FALSE)

(* A call that will succeed owns its staging file until it releases it.    *)
StagingIsReleased(p) ==
    /\ pc[p] \in {"owned", "published", "verified"} => own[p].owned
    /\ pc[p] = "finally" /\ own[p].code = "OK" => own[p].owned
    /\ \/ pc[p] \in Cleaning /\ own[p].code = "OK"
       \/ result[p] # NoResult /\ result[p].code = "OK"
       => staging[Job(p)] = NoFile \/ staging[Job(p)].by # p

JobIsRemoved(p) ==
    result[p] # NoResult /\ result[p].code = "OK" /\ ~call[p].keep =>
        directory[Job(p)] # "present"

VerifiedIsPublished(p) == pc[p] = "verified" => output[Target(p)] = Complete(Job(p))

DelivererHolds(p) ==
    /\ DelivererIsKnown(p) /\ CopyIsThere(p) /\ StagingIsReleased(p)
    /\ JobIsRemoved(p) /\ VerifiedIsPublished(p)

IInv == /\ TypeOK /\ FinalizedIsPublished
        /\ \A p \in Deliverers : DelivererHolds(p)
        /\ \A s \in Sweepers : SweeperIsKnown(s)

(* When nobody else delivers the job, what a call has staged is complete   *)
(* or has been removed, and what it publishes is complete.                 *)
StagedIsWhole(p) ==
    pc[p] \in {"staged", "owned"} => staging[Job(p)] = NoFile \/ Whole(staging[Job(p)])

OutcomeIsTrue(p) ==
    /\ pc[p] \in TryBody \ {"published", "verified"} => ~own[p].linked /\ ~own[p].delivered
    /\ pc[p] = "published" => output[Target(p)] = Complete(Job(p))
    /\ pc[p] = "verified" => own[p].delivered
    /\ pc[p] \in {"finally"} \cup Cleaning =>
          /\ own[p].linked => own[p].delivered
          /\ own[p].delivered => output[Target(p)] = Complete(Job(p))
          /\ own[p].code = "OK" => own[p].delivered /\ ledger[Job(p)] = "finalized"
    /\ result[p] # NoResult =>
          /\ result[p].linked => result[p].delivered
          /\ result[p].delivered => output[Target(p)] = Complete(Job(p))
          /\ result[p].code = "OK" => result[p].delivered /\ ledger[Job(p)] = "finalized"

NoPartialOutput ==
    \A t \in Targets, j \in Jobs : output[t] # [job |-> j, whole |-> FALSE]

TruthInv == /\ NoPartialOutput
            /\ \A p \in Deliverers : StagedIsWhole(p) /\ OutcomeIsTrue(p)

Unlinking(a, j) == pc[a] = "unlinking" /\ Job(a) = j

(* A directory that was removed, or made again by a late writer of the     *)
(* state, holds no text.                                                   *)
TextIsInJob == \A j \in Jobs : "candidate" \in files[j] => directory[j] = "present"

-----------------------------------------------------------------------------
(* The effects the actions are made of.                                    *)

Owns == [owned : BOOLEAN, linked : BOOLEAN, delivered : BOOLEAN, code : Codes]

Moving(a, label) ==
    /\ pc' \in [Actors -> PCs] /\ pc'[a] = label
    /\ \A b \in Actors \ {a} : pc'[b] = pc[b]

LEMMA Moves ==
  ASSUME TypeOK, NEW a \in Actors, NEW label \in PCs, Goto(a, label)
  PROVE  Moving(a, label)
BY DEF TypeOK, Goto, Moving

(* One actor's locals become o.                                            *)
Owning(a, o) ==
    /\ own' \in [Actors -> Owns] /\ own'[a] = o
    /\ \A b \in Actors \ {a} : own'[b] = own[b]

LEMMA BecomingOwned ==
  ASSUME TypeOK, NEW a \in Actors, NEW o \in Owns, own' = [own EXCEPT ![a] = o]
  PROVE  Owning(a, o)
BY DEF TypeOK, Owns, Owning

LEMMA IdleIsOwn == Idle \in Owns /\ Idle.code = "OK" /\ ~Idle.linked /\ ~Idle.delivered
BY DEF Idle, Owns, Codes

(* A change of some locals keeps the others.                               *)
LEMMA Locals ==
  ASSUME TypeOK, NEW a \in Actors, NEW code \in Codes, NEW b \in BOOLEAN
  PROVE  /\ own' = [own EXCEPT ![a].code = code] =>
               /\ Owning(a, own'[a]) /\ own'[a].code = code
               /\ own'[a].owned = own[a].owned /\ own'[a].linked = own[a].linked
               /\ own'[a].delivered = own[a].delivered
         /\ own' = [own EXCEPT ![a].owned = TRUE] =>
               /\ Owning(a, own'[a]) /\ own'[a].owned
               /\ own'[a].code = own[a].code /\ own'[a].linked = own[a].linked
               /\ own'[a].delivered = own[a].delivered
         /\ own' = [own EXCEPT ![a].linked = TRUE] =>
               /\ Owning(a, own'[a]) /\ own'[a].linked
               /\ own'[a].code = own[a].code /\ own'[a].owned = own[a].owned
               /\ own'[a].delivered = own[a].delivered
         /\ own' = [own EXCEPT ![a].code = code, ![a].delivered = b] =>
               /\ Owning(a, own'[a]) /\ own'[a].code = code /\ own'[a].delivered = b
               /\ own'[a].owned = own[a].owned /\ own'[a].linked = own[a].linked
         /\ own' = [own EXCEPT ![a].delivered = b, ![a].code = code] =>
               /\ Owning(a, own'[a]) /\ own'[a].code = code /\ own'[a].delivered = b
               /\ own'[a].owned = own[a].owned /\ own'[a].linked = own[a].linked
<1>1. own \in [Actors -> Owns] /\ own[a] \in Owns
  BY DEF TypeOK, Owns
<1>2. ASSUME own' = [own EXCEPT ![a].code = code]
      PROVE  /\ Owning(a, own'[a]) /\ own'[a].code = code
             /\ own'[a].owned = own[a].owned /\ own'[a].linked = own[a].linked
             /\ own'[a].delivered = own[a].delivered
  <2>1. own' = [own EXCEPT ![a] = [own[a] EXCEPT !.code = code]]
    BY <1>1, <1>2
  <2>2. LET o == [own[a] EXCEPT !.code = code]
        IN /\ o \in Owns /\ o.code = code /\ o.owned = own[a].owned
           /\ o.linked = own[a].linked /\ o.delivered = own[a].delivered
    BY <1>1 DEF Owns
  <2> QED
    BY <1>1, <2>1, <2>2 DEF Owning
<1>3. ASSUME own' = [own EXCEPT ![a].owned = TRUE]
      PROVE  /\ Owning(a, own'[a]) /\ own'[a].owned
             /\ own'[a].code = own[a].code /\ own'[a].linked = own[a].linked
             /\ own'[a].delivered = own[a].delivered
  <2>1. own' = [own EXCEPT ![a] = [own[a] EXCEPT !.owned = TRUE]]
    BY <1>1, <1>3
  <2>2. LET o == [own[a] EXCEPT !.owned = TRUE]
        IN /\ o \in Owns /\ o.owned /\ o.code = own[a].code
           /\ o.linked = own[a].linked /\ o.delivered = own[a].delivered
    BY <1>1 DEF Owns
  <2> QED
    BY <1>1, <2>1, <2>2 DEF Owning
<1>4. ASSUME own' = [own EXCEPT ![a].linked = TRUE]
      PROVE  /\ Owning(a, own'[a]) /\ own'[a].linked
             /\ own'[a].code = own[a].code /\ own'[a].owned = own[a].owned
             /\ own'[a].delivered = own[a].delivered
  <2>1. own' = [own EXCEPT ![a] = [own[a] EXCEPT !.linked = TRUE]]
    BY <1>1, <1>4
  <2>2. LET o == [own[a] EXCEPT !.linked = TRUE]
        IN /\ o \in Owns /\ o.linked /\ o.code = own[a].code
           /\ o.owned = own[a].owned /\ o.delivered = own[a].delivered
    BY <1>1 DEF Owns
  <2> QED
    BY <1>1, <2>1, <2>2 DEF Owning
<1> DEFINE n == [[own[a] EXCEPT !.code = code] EXCEPT !.delivered = b]
           m == [[own[a] EXCEPT !.delivered = b] EXCEPT !.code = code]
<1>5. /\ n \in Owns /\ n.code = code /\ n.delivered = b
      /\ n.owned = own[a].owned /\ n.linked = own[a].linked
  BY <1>1 DEF Owns
<1>6. /\ m \in Owns /\ m.code = code /\ m.delivered = b
      /\ m.owned = own[a].owned /\ m.linked = own[a].linked
  BY <1>1 DEF Owns
<1>7. ASSUME own' = [own EXCEPT ![a].code = code, ![a].delivered = b]
      PROVE  /\ Owning(a, own'[a]) /\ own'[a].code = code /\ own'[a].delivered = b
             /\ own'[a].owned = own[a].owned /\ own'[a].linked = own[a].linked
  <2>1. own' = [own EXCEPT ![a] = n]
    BY <1>1, <1>7
  <2> QED
    BY <1>1, <1>5, <2>1 DEF Owning
<1>8. ASSUME own' = [own EXCEPT ![a].delivered = b, ![a].code = code]
      PROVE  /\ Owning(a, own'[a]) /\ own'[a].code = code /\ own'[a].delivered = b
             /\ own'[a].owned = own[a].owned /\ own'[a].linked = own[a].linked
  <2>1. own' = [own EXCEPT ![a] = m]
    BY <1>1, <1>8
  <2> QED
    BY <1>1, <1>6, <2>1 DEF Owning
<1> QED
  BY <1>2, <1>3, <1>4, <1>7, <1>8

(* What a call returns.                                                    *)
Returned(a, cleaned) ==
    /\ Moving(a, "idle") /\ Owning(a, Idle)
    /\ held' \in [Jobs -> Actors \cup {NoActor}]
    /\ doomed' \in [Actors -> SUBSET (Names \cup {Intent})]
    /\ result' \in [Actors -> {NoResult} \cup Results] /\ result'[a] \in Results
    /\ \A b \in Actors \ {a} : result'[b] = result[b]
    /\ result'[a].code = IF own[a].code = "OK" /\ cleaned \notin {"OK", "RETAINED"}
                         THEN "CLEANUP_FAILED" ELSE own[a].code
    /\ result'[a].delivered = own[a].delivered /\ result'[a].linked = own[a].linked

LEMMA Returning ==
  ASSUME TypeOK, NEW a \in Actors, NEW cleaned \in Cleanups, Return(a, cleaned)
  PROVE  Returned(a, cleaned)
<1> DEFINE r == [code |-> IF own[a].code = "OK" /\ cleaned \notin {"OK", "RETAINED"}
                          THEN "CLEANUP_FAILED" ELSE own[a].code,
                 delivered |-> own[a].delivered, linked |-> own[a].linked,
                 cleanup |-> cleaned]
<1>1. own[a] \in Owns /\ "idle" \in PCs
  BY DEF TypeOK, Owns, PCs
<1>2. r \in Results
  BY <1>1 DEF Owns, Results, Codes
<1>3. /\ Goto(a, "idle") /\ CloseJob(a) /\ doomed' = [doomed EXCEPT ![a] = {}]
      /\ own' = [own EXCEPT ![a] = Idle] /\ result' = [result EXCEPT ![a] = r]
  BY DEF Return
<1>4. Moving(a, "idle") /\ Owning(a, Idle)
  BY <1>1, <1>3, Moves, BecomingOwned, IdleIsOwn
<1>5. /\ r.code = IF own[a].code = "OK" /\ cleaned \notin {"OK", "RETAINED"}
                  THEN "CLEANUP_FAILED" ELSE own[a].code
      /\ r.delivered = own[a].delivered /\ r.linked = own[a].linked
  OBVIOUS
<1> HIDE DEF r
<1>6. /\ held' \in [Jobs -> Actors \cup {NoActor}]
      /\ doomed' \in [Actors -> SUBSET (Names \cup {Intent})]
  BY <1>3 DEF TypeOK, CloseJob
<1>7. /\ result' \in [Actors -> {NoResult} \cup Results] /\ result'[a] = r
      /\ \A b \in Actors \ {a} : result'[b] = result[b]
  BY <1>2, <1>3 DEF TypeOK
<1> QED
  BY <1>2, <1>4, <1>5, <1>6, <1>7 DEF Returned
-----------------------------------------------------------------------------
(* What a step of one actor leaves alone: the others, complete outputs,    *)
(* ledgers that are finalized, directories that are gone, and the staging  *)
(* files others are copying; and a staging file it makes is its own.       *)

StagingFrame(a) ==
    \A j \in Jobs :
        \/ staging'[j] = staging[j]
        \/ /\ staging'[j] = NoFile
           /\ \A q \in Deliverers \ {a} : pc[q] = "copying" => staging[j] # File(q, FALSE)
        \/ /\ a \in Deliverers /\ j \in JobsOf[a]
           /\ staging'[j] \in {File(a, FALSE), File(a, TRUE)}
           /\ staging[j] \in {NoFile, File(a, FALSE)}

DiskOK ==
    /\ directory \in [Jobs -> {"present", "gone", "recreated"}]
    /\ files \in [Jobs -> SUBSET Names]
    /\ intent \in [Jobs -> {NoFile} \cup Intents]
    /\ ledger \in [Jobs -> {"validated", "finalized"}]
    /\ expired \in [Jobs -> BOOLEAN]
    /\ staging \in [Jobs -> {NoFile} \cup StagingFiles]
    /\ output \in [Targets -> {NoFile, Foreign} \cup OutputFiles]

Monotone ==
    /\ \A t \in Targets, j \in Jobs : output[t] = Complete(j) => output'[t] = Complete(j)
    /\ \A t \in Targets : output[t] = Foreign => output'[t] = Foreign
    /\ \A j \in Jobs :
          /\ ledger[j] = "finalized" => ledger'[j] = "finalized"
          /\ ledger'[j] = "finalized" =>
                ledger[j] = "finalized" \/ \E t \in Targets : output[t] = Complete(j)
          /\ directory[j] # "present" => directory'[j] # "present"

Frame(a) ==
    /\ TypeOK' /\ StagingFrame(a) /\ Monotone
    /\ \A b \in Actors \ {a} : /\ pc'[b] = pc[b] /\ call'[b] = call[b] /\ own'[b] = own[b]
                               /\ result'[b] = result[b]

LEMMA FrameKeepsIInv ==
  ASSUME IInv, NEW a, Frame(a), a \in Deliverers => DelivererHolds(a)',
         a \in Sweepers => SweeperIsKnown(a)'
  PROVE  IInv'
<1>1. FinalizedIsPublished'
  BY DEF IInv, FinalizedIsPublished, Frame, Monotone
<1>2. ASSUME NEW q \in Deliverers, q # a PROVE DelivererHolds(q)'
  <2>1. /\ q \in Actors /\ DelivererHolds(q) /\ pc'[q] = pc[q] /\ call'[q] = call[q]
        /\ own'[q] = own[q] /\ result'[q] = result[q]
        /\ Job(q)' = Job(q) /\ Target(q)' = Target(q)
    BY <1>2 DEF Frame, Monotone, IInv, Actors, Job, Target
  <2>2. DelivererIsKnown(q)'
    BY <2>1 DEF DelivererHolds, DelivererIsKnown
  <2>3. ASSUME pc[q] # "idle" \/ result[q] # NoResult
        PROVE  Job(q) \in Jobs /\ Target(q) \in Targets
    BY <2>1, <2>3 DEF DelivererHolds, DelivererIsKnown, DeliveryCalls, Job, Target
  <2>4. CopyIsThere(q)'
    <3> SUFFICES ASSUME pc[q] = "copying" PROVE staging'[Job(q)] = File(q, FALSE)
      BY <2>1 DEF CopyIsThere
    <3>1. staging[Job(q)] = File(q, FALSE) /\ Job(q) \in Jobs
      BY <2>1, <2>3 DEF DelivererHolds, CopyIsThere
    <3>2. File(q, FALSE) \in StagingFiles /\ File(q, FALSE).by = q /\ File(a, FALSE).by = a
      BY DEF File, StagingFiles
    <3>3. File(q, FALSE) # NoFile /\ File(q, FALSE) # File(a, FALSE)
      BY <1>2, <3>2, FilesAssumption
    <3> QED
      BY <1>2, <3>1, <3>3 DEF Frame, Monotone, StagingFrame
  <2>5. StagingIsReleased(q)'
    <3>1. ASSUME NEW j \in Jobs, staging[j] = NoFile \/ staging[j].by # q
          PROVE  staging'[j] = NoFile \/ staging'[j].by # q
      BY <1>2, <3>1 DEF Frame, Monotone, StagingFrame, File
    <3> QED
      BY <2>1, <2>3, <3>1 DEF DelivererHolds, StagingIsReleased, Cleaning
  <2>6. JobIsRemoved(q)'
    BY <2>1, <2>3 DEF DelivererHolds, JobIsRemoved, Frame, Monotone
  <2>7. VerifiedIsPublished(q)'
    BY <2>1, <2>3 DEF DelivererHolds, VerifiedIsPublished, Frame, Monotone
  <2> QED
    BY <2>2, <2>4, <2>5, <2>6, <2>7 DEF DelivererHolds
<1>3. ASSUME NEW s \in Sweepers, s # a PROVE SweeperIsKnown(s)'
  BY <1>3 DEF IInv, SweeperIsKnown, Frame, Monotone, Actors
<1> QED
  BY <1>1, <1>2, <1>3 DEF IInv, Frame, Monotone

(* What the user's folder is shown: User!Next, or nothing.                 *)
UserStep ==
    \/ output' = output
    \/ \E t \in Targets : /\ output[t] = NoFile
                          /\ \E f \in {Foreign} \cup {Complete(j) : j \in Jobs} :
                                output' = [output EXCEPT ![t] = f]

TruthHolds(p) == StagedIsWhole(p) /\ OutcomeIsTrue(p)

LEMMA FrameKeepsTruth ==
  ASSUME ExclusiveJobs, IInv, TruthInv, NEW a, Frame(a), UserStep,
         a \in Deliverers => TruthHolds(a)'
  PROVE  TruthInv'
<1>1. NoPartialOutput'
  <2> SUFFICES ASSUME NEW u \in Targets, NEW i \in Jobs
               PROVE  output'[u] # [job |-> i, whole |-> FALSE]
    BY DEF NoPartialOutput
  <2>1. output[u] # [job |-> i, whole |-> FALSE] /\ output \in [Targets -> {NoFile, Foreign} \cup OutputFiles]
    BY DEF TruthInv, NoPartialOutput, IInv, TypeOK
  <2>2. [job |-> i, whole |-> FALSE] \in OutputFiles /\ [job |-> i, whole |-> FALSE].whole = FALSE
    BY DEF OutputFiles
  <2>3. Foreign # [job |-> i, whole |-> FALSE]
    BY <2>2, FilesAssumption
  <2>4. ASSUME NEW j \in Jobs PROVE Complete(j) # [job |-> i, whole |-> FALSE]
    <3>1. Complete(j).whole = TRUE
      BY DEF Complete
    <3> QED
      BY <2>2, <3>1
  <2>5. output'[u] \in {output[u], Foreign} \cup {Complete(j) : j \in Jobs}
    BY <2>1 DEF UserStep
  <2> QED
    BY <2>1, <2>3, <2>4, <2>5
<1>2. ASSUME NEW q \in Deliverers, q # a PROVE TruthHolds(q)'
  <2>1. /\ q \in Actors /\ DelivererIsKnown(q) /\ pc'[q] = pc[q] /\ call'[q] = call[q]
        /\ own'[q] = own[q] /\ result'[q] = result[q]
        /\ Job(q)' = Job(q) /\ Target(q)' = Target(q) /\ StagedIsWhole(q) /\ OutcomeIsTrue(q)
    BY <1>2 DEF Frame, Monotone, IInv, DelivererHolds, TruthInv, Actors, Job, Target
  <2>2. ASSUME pc[q] # "idle" \/ result[q] # NoResult
        PROVE  Job(q) \in Jobs /\ Target(q) \in Targets /\ Job(q) \in JobsOf[q]
    BY <2>1, <2>2 DEF DelivererIsKnown, DeliveryCalls, Job, Target
  <2>3. StagedIsWhole(q)'
    <3> SUFFICES ASSUME pc[q] \in {"staged", "owned"}
                 PROVE  staging'[Job(q)] = NoFile \/ Whole(staging'[Job(q)])
      BY <2>1 DEF StagedIsWhole, Whole
    <3>1. a \notin Deliverers \/ Job(q) \notin JobsOf[a]
      BY <1>2, <2>2 DEF ExclusiveJobs
    <3>2. staging'[Job(q)] \in {NoFile, staging[Job(q)]}
      BY <2>2, <3>1 DEF Frame, Monotone, StagingFrame
    <3> QED
      BY <2>1, <3>2 DEF StagedIsWhole
  <2>4. OutcomeIsTrue(q)'
    <3>1. \A t \in Targets, j \in Jobs : output[t] = Complete(j) => output'[t] = Complete(j)
      BY DEF Frame, Monotone
    <3>2. \A j \in Jobs : ledger[j] = "finalized" => ledger'[j] = "finalized"
      BY DEF Frame, Monotone
    <3> QED
      BY <2>1, <2>2, <3>1, <3>2 DEF OutcomeIsTrue, TryBody, Cleaning
  <2> QED
    BY <2>3, <2>4 DEF TruthHolds
<1> QED
  BY <1>1, <1>2 DEF TruthInv, TruthHolds

-----------------------------------------------------------------------------
(* Every step of a deliverer keeps its invariant, and, if nobody else      *)
(* delivers its jobs, shows the user nothing but complete files.           *)

Keeps(p) ==
    /\ Frame(p) /\ DelivererHolds(p)'
    /\ ExclusiveJobs /\ TruthInv => UserStep /\ TruthHolds(p)'

LEMMA Busy ==
  ASSUME IInv, NEW p \in Deliverers, pc[p] # "idle", UNCHANGED call
  PROVE  /\ p \in Actors /\ TypeOK /\ result[p] = NoResult /\ DelivererHolds(p)
         /\ call[p] \in DeliveryCalls /\ Job(p) \in JobsOf[p]
         /\ Job(p) \in Jobs /\ Target(p) \in Targets /\ call[p].keep \in BOOLEAN
         /\ Job(p)' = Job(p) /\ Target(p)' = Target(p)
<1>1. p \in Actors /\ TypeOK /\ DelivererHolds(p)
  BY DEF IInv, Actors
<1>2. result[p] = NoResult /\ call[p] \in DeliveryCalls /\ Job(p) \in JobsOf[p]
  BY <1>1 DEF DelivererHolds, DelivererIsKnown
<1>3. Job(p) \in Jobs /\ Target(p) \in Targets /\ call[p].keep \in BOOLEAN
  BY <1>2 DEF DeliveryCalls, Job, Target
<1> QED
  BY <1>1, <1>2, <1>3 DEF Job, Target

LEMMA OwnedStill ==
  ASSUME TypeOK, NEW a \in Actors, UNCHANGED own
  PROVE  Owning(a, own'[a]) /\ own'[a] = own[a]
BY DEF TypeOK, Owning, Owns

(* A step of deliver_validated_pdf itself: what it must show.              *)
LEMMA TryStep ==
  ASSUME IInv, NEW p \in Deliverers, pc[p] \in TryBody \cup {"finally"},
         NEW label \in TryBody \cup {"finally", "cleanup"}, Moving(p, label),
         Owning(p, own'[p]), Quiet, DiskOK', StagingFrame(p), Monotone
  PROVE  Frame(p) /\ DelivererIsKnown(p)' /\ JobIsRemoved(p)'
<1>1. /\ p \in Actors /\ TypeOK /\ result[p] = NoResult /\ pc[p] # "idle"
      /\ call[p] \in DeliveryCalls /\ Job(p) \in JobsOf[p] /\ Job(p)' = Job(p)
  BY Busy DEF Quiet, TryBody
<1>2. pc' \in [Actors -> PCs] /\ own' \in [Actors -> Owns]
  BY DEF Moving, Owning
<1>3. TypeOK'
  BY <1>1, <1>2 DEF TypeOK, DiskOK, Quiet, Owns
<1>4. ASSUME NEW b \in Actors \ {p}
      PROVE  pc'[b] = pc[b] /\ call'[b] = call[b] /\ own'[b] = own[b] /\ result'[b] = result[b]
  BY <1>4 DEF Moving, Owning, Quiet
<1>5. Frame(p)
  BY <1>3, <1>4 DEF Frame
<1>6. label # "retaining" /\ result'[p] = NoResult /\ call'[p] = call[p]
  BY <1>1 DEF Quiet, TryBody
<1>7. DelivererIsKnown(p)' /\ JobIsRemoved(p)'
  BY <1>1, <1>6 DEF DelivererIsKnown, JobIsRemoved, Moving, Job
<1> QED
  BY <1>5, <1>7

LEMMA OutputStands ==
  ASSUME UNCHANGED output
  PROVE  UserStep /\ \A t \in Targets, j \in Jobs : output[t] = Complete(j) => output'[t] = Complete(j)
BY DEF UserStep

(* Raising in the try body.                                                *)
LEMMA Failing ==
  ASSUME TypeOK, NEW p \in Actors, NEW code \in Codes, Fail(p, code)
  PROVE  /\ Moving(p, "finally") /\ Owning(p, own'[p]) /\ own'[p].code = code
         /\ own'[p].owned = own[p].owned /\ own'[p].linked = own[p].linked
         /\ own'[p].delivered = own[p].delivered
<1>1. "finally" \in PCs
  BY DEF PCs
<1>2. Moving(p, "finally")
  BY <1>1, Moves DEF Fail
<1>3. own' = [own EXCEPT ![p].code = code] /\ TRUE \in BOOLEAN
  BY DEF Fail
<1> QED
  BY <1>2, <1>3, Locals

(* A step before publication that raises, or goes on to a label where no   *)
(* promise about the output or the staging file is due yet.                *)
LEMMA BeforePublishing ==
  ASSUME IInv, NEW p \in Deliverers, pc[p] \in TryBody \ {"published", "verified"}, Quiet,
         NEW label \in {"intending", "intended", "finally"}, Moving(p, label),
         Owning(p, own'[p]), own'[p].linked = own[p].linked,
         own'[p].delivered = own[p].delivered,
         label = "finally" => own'[p].code # "OK",
         DiskOK', StagingFrame(p), Monotone, UserStep
  PROVE  Keeps(p)
<1>1. label \in TryBody \cup {"finally", "cleanup"} /\ pc[p] \in TryBody
  BY DEF TryBody
<1>2. Frame(p) /\ DelivererIsKnown(p)' /\ JobIsRemoved(p)'
  BY <1>1, TryStep
<1>3. pc[p] # "idle" /\ UNCHANGED << call, result >>
  BY DEF TryBody, Quiet
<1>4. result'[p] = NoResult /\ pc'[p] = label
  BY <1>3, Busy DEF Moving
<1>5. CopyIsThere(p)' /\ VerifiedIsPublished(p)' /\ StagingIsReleased(p)'
  BY <1>4 DEF CopyIsThere, VerifiedIsPublished, StagingIsReleased, Cleaning
<1>6. ASSUME TruthInv PROVE TruthHolds(p)'
  <2>1. ~own'[p].linked /\ ~own'[p].delivered
    BY <1>6 DEF TruthInv, OutcomeIsTrue
  <2>2. OutcomeIsTrue(p)' /\ StagedIsWhole(p)'
    BY <2>1, <1>4 DEF OutcomeIsTrue, StagedIsWhole, TryBody, Cleaning
  <2> QED
    BY <2>2 DEF TruthHolds
<1> QED
  BY <1>2, <1>5, <1>6 DEF Keeps, DelivererHolds

LEMMA CreateIntentKeeps ==
  ASSUME IInv, NEW p \in Deliverers, CreateIntent(p)
  PROVE  Keeps(p)
<1>1. /\ pc[p] \in TryBody \ {"published", "verified"} /\ pc[p] # "idle" /\ Quiet
      /\ UNCHANGED << call, directory, ledger, staging, output >>
  BY DEF CreateIntent, Quiet, TryBody
<1>2. p \in Actors /\ TypeOK /\ Job(p) \in Jobs /\ Target(p) \in Targets
  BY <1>1, Busy
<1>3. StagingFrame(p) /\ Monotone /\ UserStep
  BY <1>1 DEF StagingFrame, Monotone, UserStep
<1>4. CASE /\ intent' = [intent EXCEPT ![Job(p)] =
                           [by |-> p, whole |-> FALSE, target |-> Target(p)]]
           /\ Goto(p, "intending") /\ UNCHANGED own
  <2>1. [by |-> p, whole |-> FALSE, target |-> Target(p)] \in Intents /\ "intending" \in PCs
    BY <1>2 DEF Intents, PCs, TryBody
  <2>2. DiskOK'
    BY <1>2, <1>4, <2>1 DEF CreateIntent, TypeOK, DiskOK
  <2>3. Moving(p, "intending") /\ Owning(p, own'[p]) /\ own'[p] = own[p]
    BY <1>2, <1>4, <2>1, Moves, OwnedStill
  <2> QED
    BY <1>1, <1>3, <2>2, <2>3, BeforePublishing
<1>5. CASE Fail(p, "STAGE_FAILED") /\ UNCHANGED intent
  <2>1. DiskOK'
    BY <1>2, <1>5 DEF CreateIntent, TypeOK, DiskOK
  <2>2. "STAGE_FAILED" \in Codes
    BY DEF Codes
  <2>3. /\ Moving(p, "finally") /\ Owning(p, own'[p]) /\ own'[p].code # "OK"
        /\ own'[p].linked = own[p].linked /\ own'[p].delivered = own[p].delivered
    BY <1>2, <1>5, <2>2, Failing
  <2> QED
    BY <1>1, <1>3, <2>1, <2>3, BeforePublishing
<1> QED
  BY <1>4, <1>5 DEF CreateIntent

LEMMA FillIntentKeeps ==
  ASSUME IInv, NEW p \in Deliverers, FillIntent(p)
  PROVE  Keeps(p)
<1>1. /\ pc[p] \in TryBody \ {"published", "verified"} /\ pc[p] # "idle" /\ Quiet
      /\ UNCHANGED << call, directory, files, ledger, expired, staging, output >>
  BY DEF FillIntent, Quiet, TryBody
<1>2. p \in Actors /\ TypeOK /\ Job(p) \in Jobs
  BY <1>1, Busy
<1>3. StagingFrame(p) /\ Monotone /\ UserStep
  BY <1>1 DEF StagingFrame, Monotone, UserStep
<1>4. CASE /\ intent' = IF intent[Job(p)] # NoFile /\ intent[Job(p)].by = p
                        THEN [intent EXCEPT ![Job(p)].whole = TRUE] ELSE intent
           /\ Goto(p, "intended") /\ UNCHANGED own
  <2>1. "intended" \in PCs /\ intent \in [Jobs -> {NoFile} \cup Intents]
    BY <1>2 DEF PCs, TryBody, TypeOK
  <2>2. intent' \in [Jobs -> {NoFile} \cup Intents]
    <3>1. CASE intent[Job(p)] # NoFile /\ intent[Job(p)].by = p
      <4>1. [intent[Job(p)] EXCEPT !.whole = TRUE] \in Intents
        BY <1>2, <2>1, <3>1 DEF Intents
      <4>2. intent' = [intent EXCEPT ![Job(p)] = [intent[Job(p)] EXCEPT !.whole = TRUE]]
        BY <1>2, <1>4, <2>1, <3>1
      <4> QED
        BY <2>1, <4>1, <4>2
    <3>2. CASE ~(intent[Job(p)] # NoFile /\ intent[Job(p)].by = p)
      BY <1>4, <2>1, <3>2
    <3> QED
      BY <3>1, <3>2
  <2>3. DiskOK'
    BY <1>1, <1>2, <2>2 DEF TypeOK, DiskOK
  <2>4. Moving(p, "intended") /\ Owning(p, own'[p]) /\ own'[p] = own[p]
    BY <1>2, <1>4, <2>1, Moves, OwnedStill
  <2> QED
    BY <1>1, <1>3, <2>3, <2>4, BeforePublishing
<1>5. CASE Fail(p, "STAGE_FAILED") /\ UNCHANGED intent
  <2>1. DiskOK' /\ "STAGE_FAILED" \in Codes
    BY <1>1, <1>2, <1>5 DEF TypeOK, DiskOK, Codes
  <2>2. /\ Moving(p, "finally") /\ Owning(p, own'[p]) /\ own'[p].code # "OK"
        /\ own'[p].linked = own[p].linked /\ own'[p].delivered = own[p].delivered
    BY <1>2, <1>5, <2>1, Failing
  <2> QED
    BY <1>1, <1>3, <2>1, <2>2, BeforePublishing
<1> QED
  BY <1>4, <1>5 DEF FillIntent

(* The copy that fails drops the intent and raises.                        *)
LEMMA CopyFailing ==
  ASSUME IInv, NEW p \in Deliverers, pc[p] \in {"intended", "copying"}, Quiet,
         FailCopy(p), UNCHANGED << directory, files, ledger, expired, output >>,
         staging' \in [Jobs -> {NoFile} \cup StagingFiles], StagingFrame(p)
  PROVE  Keeps(p)
<1>1. /\ pc[p] \in TryBody \ {"published", "verified"} /\ pc[p] # "idle" /\ UNCHANGED call
  BY DEF Quiet, TryBody
<1>2. p \in Actors /\ TypeOK /\ Job(p) \in Jobs
  BY <1>1, Busy
<1>3. Monotone /\ UserStep
  BY DEF Monotone, UserStep
<1>4. DiskOK' /\ "STAGE_FAILED" \in Codes
  <2>1. intent' \in [Jobs -> {NoFile} \cup Intents]
    BY <1>2 DEF TypeOK, FailCopy
  <2> QED
    BY <1>2, <2>1 DEF TypeOK, DiskOK, Codes
<1>5. /\ Moving(p, "finally") /\ Owning(p, own'[p]) /\ own'[p].code # "OK"
      /\ own'[p].linked = own[p].linked /\ own'[p].delivered = own[p].delivered
  BY <1>2, <1>4, Failing DEF FailCopy
<1> QED
  BY <1>1, <1>3, <1>4, <1>5, BeforePublishing

LEMMA CreateStagingKeeps ==
  ASSUME IInv, NEW p \in Deliverers, CreateStaging(p)
  PROVE  Keeps(p)
<1>1. /\ pc[p] = "intended" /\ pc[p] # "idle" /\ Quiet
      /\ UNCHANGED << call, result, directory, files, ledger, expired, output >>
  BY DEF CreateStaging, Quiet
<1>2. /\ p \in Actors /\ TypeOK /\ Job(p) \in Jobs /\ Job(p) \in JobsOf[p]
      /\ Job(p)' = Job(p) /\ result[p] = NoResult
  BY <1>1, Busy
<1>3. staging \in [Jobs -> {NoFile} \cup StagingFiles]
  BY <1>2 DEF TypeOK
<1>4. CASE /\ staging[Job(p)] = NoFile
           /\ staging' = [staging EXCEPT ![Job(p)] = File(p, FALSE)]
           /\ Goto(p, "copying") /\ UNCHANGED << intent, own >>
  <2>1. File(p, FALSE) \in StagingFiles /\ "copying" \in PCs
    BY DEF File, StagingFiles, PCs, TryBody
  <2>2. DiskOK' /\ staging'[Job(p)] = File(p, FALSE)
    BY <1>1, <1>2, <1>4, <2>1 DEF TypeOK, DiskOK
  <2>3. Moving(p, "copying") /\ Owning(p, own'[p]) /\ own'[p] = own[p]
    BY <1>2, <1>4, <2>1, Moves, OwnedStill
  <2>4. StagingFrame(p)
    BY <1>2, <1>3, <1>4 DEF StagingFrame
  <2>5. Monotone /\ UserStep
    BY <1>1 DEF Monotone, UserStep
  <2>6. Frame(p) /\ DelivererIsKnown(p)' /\ JobIsRemoved(p)'
    <3>1. "copying" \in TryBody \cup {"finally", "cleanup"} /\ pc[p] \in TryBody \cup {"finally"}
      BY <1>1 DEF TryBody
    <3> QED
      BY <1>1, <2>2, <2>3, <2>4, <2>5, <3>1, TryStep
  <2>7. pc'[p] = "copying" /\ result'[p] = NoResult
    BY <1>1, <1>2, <2>3 DEF Moving
  <2>8. CopyIsThere(p)' /\ VerifiedIsPublished(p)' /\ StagingIsReleased(p)'
    BY <1>2, <2>2, <2>7 DEF CopyIsThere, VerifiedIsPublished, StagingIsReleased, Cleaning
  <2>9. ASSUME TruthInv PROVE TruthHolds(p)'
    <3>1. ~own'[p].linked /\ ~own'[p].delivered
      BY <1>1, <2>3, <2>9 DEF TruthInv, OutcomeIsTrue, TryBody
    <3> QED
      BY <2>7, <3>1 DEF TruthHolds, OutcomeIsTrue, StagedIsWhole, Cleaning
  <2> QED
    BY <2>5, <2>6, <2>8, <2>9 DEF Keeps, DelivererHolds
<1>5. CASE FailCopy(p) /\ UNCHANGED staging
  BY <1>1, <1>3, <1>5, CopyFailing DEF StagingFrame
<1> QED
  BY <1>4, <1>5 DEF CreateStaging

(* Nobody else is copying into the staging file one copies into.           *)
LEMMA CopyIsOwn ==
  ASSUME IInv, NEW p \in Deliverers, pc[p] = "copying", NEW q \in Deliverers \ {p}
  PROVE  staging[Job(p)] # File(q, FALSE)
<1>1. staging[Job(p)] = File(p, FALSE)
  BY DEF IInv, DelivererHolds, CopyIsThere
<1>2. File(p, FALSE).by = p /\ File(q, FALSE).by = q
  BY DEF File
<1> QED
  BY <1>1, <1>2

LEMMA Abandoning ==
  ASSUME IInv, NEW p \in Deliverers, pc[p] = "copying", Job(p) \in Jobs, AbandonStaging(p)
  PROVE  staging' \in [Jobs -> {NoFile} \cup StagingFiles] /\ StagingFrame(p)
<1>1. staging \in [Jobs -> {NoFile} \cup StagingFiles]
  BY DEF IInv, TypeOK
<1>2. staging' = staging \/ staging' = [staging EXCEPT ![Job(p)] = NoFile]
  BY DEF AbandonStaging
<1> QED
  BY <1>1, <1>2, CopyIsOwn DEF StagingFrame

LEMMA FillStagingKeeps ==
  ASSUME IInv, NEW p \in Deliverers, FillStaging(p)
  PROVE  Keeps(p)
<1>1. /\ pc[p] = "copying" /\ pc[p] # "idle" /\ Quiet
      /\ UNCHANGED << call, result, directory, files, ledger, expired >>
  BY DEF FillStaging, Quiet
<1>2. /\ p \in Actors /\ TypeOK /\ Job(p) \in Jobs /\ Job(p) \in JobsOf[p]
      /\ Job(p)' = Job(p) /\ result[p] = NoResult /\ DelivererHolds(p)
  BY <1>1, Busy
<1>3. staging \in [Jobs -> {NoFile} \cup StagingFiles] /\ staging[Job(p)] = File(p, FALSE)
  BY <1>1, <1>2 DEF TypeOK, DelivererHolds, CopyIsThere
<1>4. CASE /\ staging' = [staging EXCEPT ![Job(p)].whole = TRUE]
           /\ output' = [t \in Targets |->
                           IF output[t] = [job |-> Job(p), whole |-> FALSE]
                           THEN Complete(Job(p)) ELSE output[t]]
           /\ Goto(p, "staged") /\ UNCHANGED << intent, own >>
  <2>1. File(p, TRUE) \in StagingFiles /\ "staged" \in PCs /\ Complete(Job(p)) \in OutputFiles
    BY <1>2 DEF File, StagingFiles, PCs, TryBody, Complete, OutputFiles
  <2>2. staging' = [staging EXCEPT ![Job(p)] = File(p, TRUE)]
    <3>1. [File(p, FALSE) EXCEPT !.whole = TRUE] = File(p, TRUE)
      <4>1. File(p, FALSE) \in StagingFiles
        BY DEF File, StagingFiles
      <4> DEFINE f == [File(p, FALSE) EXCEPT !.whole = TRUE]
      <4>2. f \in StagingFiles /\ f.by = p /\ f.whole = TRUE
        BY <4>1 DEF StagingFiles, File
      <4> HIDE DEF f
      <4>3. f = [by |-> f.by, whole |-> f.whole]
        BY <4>2 DEF StagingFiles
      <4> QED
        BY <4>2, <4>3 DEF File, f
    <3> QED
      BY <1>2, <1>3, <1>4, <3>1
  <2>3. staging' \in [Jobs -> {NoFile} \cup StagingFiles] /\ staging'[Job(p)] = File(p, TRUE)
    BY <1>2, <1>3, <2>1, <2>2
  <2>4. output' \in [Targets -> {NoFile, Foreign} \cup OutputFiles]
    BY <1>2, <1>4, <2>1 DEF TypeOK
  <2>5. DiskOK'
    BY <1>1, <1>2, <1>4, <2>3, <2>4 DEF TypeOK, DiskOK
  <2>6. Moving(p, "staged") /\ Owning(p, own'[p]) /\ own'[p] = own[p]
    BY <1>2, <1>4, <2>1, Moves, OwnedStill
  <2>7. StagingFrame(p)
    BY <1>2, <1>3, <2>2 DEF StagingFrame
  <2>8. Monotone
    <3>1. ASSUME NEW t \in Targets, NEW j \in Jobs, output[t] = Complete(j)
          PROVE  output'[t] = Complete(j)
      <4>1. Complete(j).whole = TRUE
        BY DEF Complete
      <4>2. output[t] # [job |-> Job(p), whole |-> FALSE]
        BY <3>1, <4>1
      <4> QED
        BY <1>4, <3>1, <4>2
    <3>2. ASSUME NEW t \in Targets, output[t] = Foreign PROVE output'[t] = Foreign
      <4>1. [job |-> Job(p), whole |-> FALSE] \in OutputFiles
        BY <1>2 DEF OutputFiles
      <4> QED
        BY <1>4, <3>2, <4>1, FilesAssumption
    <3> QED
      BY <1>1, <3>1, <3>2 DEF Monotone
  <2>9. Frame(p) /\ DelivererIsKnown(p)' /\ JobIsRemoved(p)'
    <3>1. "staged" \in TryBody \cup {"finally", "cleanup"} /\ pc[p] \in TryBody \cup {"finally"}
      BY <1>1 DEF TryBody
    <3> QED
      BY <1>1, <2>5, <2>6, <2>7, <2>8, <3>1, TryStep
  <2>10. pc'[p] = "staged" /\ result'[p] = NoResult
    BY <1>1, <1>2, <2>6 DEF Moving
  <2>11. CopyIsThere(p)' /\ VerifiedIsPublished(p)' /\ StagingIsReleased(p)'
    BY <2>10 DEF CopyIsThere, VerifiedIsPublished, StagingIsReleased, Cleaning
  <2>12. ASSUME TruthInv PROVE UserStep /\ TruthHolds(p)'
    <3>1. ~own'[p].linked /\ ~own'[p].delivered
      BY <1>1, <2>6, <2>12 DEF TruthInv, OutcomeIsTrue, TryBody
    <3>2. Whole(staging'[Job(p)])
      <4>1. File(p, TRUE) # NoFile
        BY <2>1, FilesAssumption
      <4>2. File(p, TRUE).whole
        BY DEF File
      <4> QED
        BY <2>3, <4>1, <4>2 DEF Whole
    <3>3. TruthHolds(p)'
      BY <1>2, <2>10, <3>1, <3>2 DEF TruthHolds, OutcomeIsTrue, StagedIsWhole, Whole, Cleaning, TryBody
    <3>4. output' = output
      BY <1>2, <1>4, <2>12 DEF TruthInv, NoPartialOutput, TypeOK
    <3> QED
      BY <3>3, <3>4 DEF UserStep
  <2> QED
    BY <2>9, <2>11, <2>12 DEF Keeps, DelivererHolds
<1>5. CASE AbandonStaging(p) /\ FailCopy(p) /\ UNCHANGED output
  BY <1>1, <1>2, <1>5, Abandoning, CopyFailing
<1> QED
  BY <1>4, <1>5 DEF FillStaging

LEMMA OwnStagingKeeps ==
  ASSUME IInv, NEW p \in Deliverers, OwnStaging(p)
  PROVE  Keeps(p)
<1>1. pc[p] = "staged" /\ pc[p] # "idle" /\ Quiet /\ UNCHANGED << call, result, onDisk >>
  BY DEF OwnStaging, Quiet
<1>2. /\ p \in Actors /\ TypeOK /\ Job(p)' = Job(p) /\ result[p] = NoResult
      /\ "owned" \in PCs /\ "OK" \in Codes /\ TRUE \in BOOLEAN
  BY <1>1, Busy DEF PCs, TryBody, Codes
<1>3. /\ Moving(p, "owned") /\ Owning(p, own'[p]) /\ own'[p].owned
      /\ own'[p].linked = own[p].linked /\ own'[p].delivered = own[p].delivered
  BY <1>2, Moves, Locals DEF OwnStaging
<1>4. DiskOK' /\ StagingFrame(p) /\ Monotone /\ UserStep
  BY <1>1, <1>2 DEF onDisk, TypeOK, DiskOK, StagingFrame, Monotone, UserStep
<1>5. Frame(p) /\ DelivererIsKnown(p)' /\ JobIsRemoved(p)'
  <2>1. "owned" \in TryBody \cup {"finally", "cleanup"} /\ pc[p] \in TryBody \cup {"finally"}
    BY <1>1 DEF TryBody
  <2> QED
    BY <1>1, <1>3, <1>4, <2>1, TryStep
<1>6. pc'[p] = "owned" /\ result'[p] = NoResult
  BY <1>1, <1>2, <1>3 DEF Moving
<1>7. CopyIsThere(p)' /\ VerifiedIsPublished(p)' /\ StagingIsReleased(p)'
  BY <1>3, <1>6 DEF CopyIsThere, VerifiedIsPublished, StagingIsReleased, Cleaning
<1>8. ASSUME TruthInv PROVE TruthHolds(p)'
  <2>1. ~own'[p].linked /\ ~own'[p].delivered
    BY <1>1, <1>3, <1>8 DEF TruthInv, OutcomeIsTrue, TryBody
  <2>2. StagedIsWhole(p)'
    BY <1>1, <1>2, <1>8 DEF TruthInv, StagedIsWhole, onDisk, Whole
  <2> QED
    BY <1>6, <2>1, <2>2 DEF TruthHolds, OutcomeIsTrue, Cleaning, TryBody
<1> QED
  BY <1>4, <1>5, <1>7, <1>8 DEF Keeps, DelivererHolds

(* A step that raises once the staging file may be owned: the output, what *)
(* has been recorded and the outcome known so far stand.                   *)
LEMMA Raising ==
  ASSUME IInv, NEW p \in Deliverers, pc[p] \in TryBody, Quiet, Moving(p, "finally"),
         Owning(p, own'[p]), own'[p].code # "OK",
         UNCHANGED << output, ledger >>, DiskOK', StagingFrame(p), Monotone,
         TruthInv => /\ own'[p].linked => own'[p].delivered
                     /\ own'[p].delivered => output[Target(p)] = Complete(Job(p))
  PROVE  Keeps(p)
<1>1. pc[p] # "idle" /\ UNCHANGED << call, result >>
  BY DEF TryBody, Quiet
<1>2. Job(p)' = Job(p) /\ Target(p)' = Target(p) /\ result[p] = NoResult
  BY <1>1, Busy
<1>3. pc'[p] = "finally" /\ result'[p] = NoResult
  BY <1>1, <1>2 DEF Moving
<1>4. Frame(p) /\ DelivererIsKnown(p)' /\ JobIsRemoved(p)'
  BY TryStep
<1>5. CopyIsThere(p)' /\ VerifiedIsPublished(p)' /\ StagingIsReleased(p)'
  BY <1>3 DEF CopyIsThere, VerifiedIsPublished, StagingIsReleased, Cleaning
<1>6. ASSUME TruthInv PROVE TruthHolds(p)'
  BY <1>2, <1>3, <1>6 DEF TruthHolds, OutcomeIsTrue, StagedIsWhole, Cleaning, TryBody
<1> QED
  BY <1>4, <1>5, <1>6 DEF Keeps, DelivererHolds, UserStep

(* What raises without touching the files or the outcome.                  *)
LEMMA RaisingOnly ==
  ASSUME IInv, NEW p \in Deliverers, pc[p] \in TryBody \ {"published"}, NEW code \in Codes, code # "OK",
         Quiet, Fail(p, code), UNCHANGED << output, ledger, staging >>, DiskOK', Monotone
  PROVE  Keeps(p)
<1>1. pc[p] # "idle" /\ UNCHANGED call
  BY DEF TryBody, Quiet
<1>2. p \in Actors /\ TypeOK
  BY <1>1, Busy
<1>3. /\ Moving(p, "finally") /\ Owning(p, own'[p]) /\ own'[p].code # "OK"
      /\ own'[p].linked = own[p].linked /\ own'[p].delivered = own[p].delivered
  BY <1>2, Failing
<1>4. StagingFrame(p)
  BY DEF StagingFrame
<1>5. ASSUME TruthInv
      PROVE  /\ own'[p].linked => own'[p].delivered
             /\ own'[p].delivered => output[Target(p)] = Complete(Job(p))
  <2>1. OutcomeIsTrue(p)
    BY <1>5 DEF TruthInv
  <2>2. CASE pc[p] \in TryBody \ {"published", "verified"}
    BY <1>3, <2>1, <2>2 DEF OutcomeIsTrue
  <2>3. CASE pc[p] = "verified"
    <3>1. output[Target(p)] = Complete(Job(p)) /\ own[p].delivered
      BY <2>1, <2>3 DEF OutcomeIsTrue, IInv, DelivererHolds, VerifiedIsPublished
    <3> QED
      BY <1>3, <3>1
  <2> QED
    BY <2>2, <2>3
<1> QED
  BY <1>3, <1>4, <1>5, Raising

LEMMA PublishKeeps ==
  ASSUME IInv, NEW p \in Deliverers, Publish(p)
  PROVE  Keeps(p)
<1>1. /\ pc[p] = "owned" /\ pc[p] # "idle" /\ Quiet
      /\ UNCHANGED << call, result, directory, files, intent, ledger, expired >>
  BY DEF Publish, PublishTo, Quiet
<1>2. /\ p \in Actors /\ TypeOK /\ Job(p) \in Jobs /\ Target(p) \in Targets /\ DelivererHolds(p)
      /\ Job(p)' = Job(p) /\ Target(p)' = Target(p) /\ result[p] = NoResult
  BY <1>1, Busy
<1>3. /\ staging \in [Jobs -> {NoFile} \cup StagingFiles]
      /\ output \in [Targets -> {NoFile, Foreign} \cup OutputFiles]
  BY <1>2 DEF TypeOK
<1> DEFINE shown == [job |-> Job(p), whole |-> staging[Job(p)].whole]
<1>4. CASE /\ staging[Job(p)] # NoFile /\ ~BeingWritten(Job(p)) /\ output[Target(p)] = NoFile
           /\ output' = [output EXCEPT ![Target(p)] = shown]
           /\ staging' = IF Platform = "nt" THEN [staging EXCEPT ![Job(p)] = NoFile] ELSE staging
           /\ own' = [own EXCEPT ![p].linked = TRUE]
           /\ Goto(p, "published")
  <2>1. shown \in OutputFiles /\ "published" \in PCs /\ "OK" \in Codes /\ TRUE \in BOOLEAN
    BY <1>2, <1>3, <1>4 DEF OutputFiles, StagingFiles, PCs, TryBody, Codes
  <2>2. /\ Moving(p, "published") /\ Owning(p, own'[p])
        /\ own'[p].owned = own[p].owned
    BY <1>2, <1>4, <2>1, Moves, Locals
  <2>3. /\ staging' \in [Jobs -> {NoFile} \cup StagingFiles]
        /\ output' \in [Targets -> {NoFile, Foreign} \cup OutputFiles]
    BY <1>2, <1>3, <1>4, <2>1
  <2>4. DiskOK'
    BY <1>1, <1>2, <2>3 DEF TypeOK, DiskOK
  <2>5. StagingFrame(p)
    <3>1. CASE Platform = "nt"
      <4>1. ASSUME NEW q \in Deliverers, pc[q] = "copying" PROVE staging[Job(p)] # File(q, FALSE)
        <5>1. File(q, FALSE).by = q /\ File(q, FALSE).whole = FALSE
          BY DEF File
        <5> QED
          BY <1>4, <3>1, <4>1, <5>1 DEF BeingWritten, Partial
      <4> QED
        BY <1>2, <1>3, <1>4, <3>1, <4>1 DEF StagingFrame
    <3>2. CASE Platform # "nt"
      BY <1>4, <3>2 DEF StagingFrame
    <3> QED
      BY <3>1, <3>2
  <2>6. Monotone
    <3>1. ASSUME NEW j \in Jobs PROVE Complete(j) # NoFile
      <4>1. Complete(j) \in OutputFiles
        BY DEF Complete, OutputFiles
      <4> QED
        BY <4>1, FilesAssumption
    <3>2. ASSUME NEW t \in Targets, NEW j \in Jobs, output[t] = Complete(j)
          PROVE  output'[t] = Complete(j)
      BY <1>3, <1>4, <3>1, <3>2
    <3>3. ASSUME NEW t \in Targets, output[t] = Foreign PROVE output'[t] = Foreign
      BY <1>3, <1>4, <3>3, FilesAssumption
    <3> QED
      BY <1>1, <3>2, <3>3 DEF Monotone
  <2>7. Frame(p) /\ DelivererIsKnown(p)' /\ JobIsRemoved(p)'
    <3>1. "published" \in TryBody \cup {"finally", "cleanup"} /\ pc[p] \in TryBody \cup {"finally"}
      BY <1>1 DEF TryBody
    <3> QED
      BY <1>1, <2>2, <2>4, <2>5, <2>6, <3>1, TryStep
  <2>8. pc'[p] = "published" /\ result'[p] = NoResult
    BY <1>1, <1>2, <2>2 DEF Moving
  <2>9. own'[p].owned
    BY <1>1, <1>2, <2>2 DEF DelivererHolds, StagingIsReleased
  <2>10. CopyIsThere(p)' /\ VerifiedIsPublished(p)' /\ StagingIsReleased(p)'
    BY <2>8, <2>9 DEF CopyIsThere, VerifiedIsPublished, StagingIsReleased, Cleaning
  <2>11. ASSUME TruthInv PROVE UserStep /\ TruthHolds(p)'
    <3>1. staging[Job(p)].whole = TRUE
      BY <1>1, <1>2, <1>3, <1>4, <2>11 DEF TruthInv, StagedIsWhole, Whole, StagingFiles
    <3>2. shown = Complete(Job(p))
      BY <3>1 DEF Complete
    <3>3. output' = [output EXCEPT ![Target(p)] = Complete(Job(p))]
      BY <1>4, <3>2
    <3>4. UserStep
      BY <1>2, <1>4, <3>3 DEF UserStep
    <3>5. output'[Target(p)] = Complete(Job(p))
      BY <1>2, <1>3, <3>3
    <3> QED
      BY <1>2, <2>8, <3>4, <3>5 DEF TruthHolds, OutcomeIsTrue, StagedIsWhole, Cleaning, TryBody
  <2> QED
    BY <2>7, <2>10, <2>11 DEF Keeps, DelivererHolds
<1>5. ASSUME NEW code \in {"OUTPUT_EXISTS", "COMMIT_FAILED"}, Fail(p, code),
             UNCHANGED << output, staging >>
      PROVE  Keeps(p)
  <2>1. code \in Codes /\ code # "OK" /\ pc[p] \in TryBody \ {"published"}
    BY <1>1, <1>5 DEF Codes, TryBody
  <2>2. DiskOK' /\ Monotone
    BY <1>1, <1>2, <1>5 DEF TypeOK, DiskOK, Monotone
  <2> QED
    BY <1>1, <1>5, <2>1, <2>2, RaisingOnly
<1> QED
  BY <1>4, <1>5 DEF Publish, PublishTo

LEMMA VerifyKeeps ==
  ASSUME IInv, NEW p \in Deliverers, Verify(p)
  PROVE  Keeps(p)
<1>1. pc[p] = "published" /\ pc[p] # "idle" /\ Quiet /\ UNCHANGED << call, result, onDisk >>
  BY DEF Verify, Quiet
<1>2. /\ p \in Actors /\ TypeOK /\ Job(p) \in Jobs /\ Target(p) \in Targets /\ DelivererHolds(p)
      /\ Job(p)' = Job(p) /\ Target(p)' = Target(p) /\ result[p] = NoResult
  BY <1>1, Busy
<1>3. DiskOK' /\ StagingFrame(p) /\ Monotone /\ UserStep
  BY <1>1, <1>2 DEF onDisk, TypeOK, DiskOK, StagingFrame, Monotone, UserStep
<1>4. ASSUME NEW code \in Codes, Delivered(p, code)
      PROVE  /\ Owning(p, own'[p]) /\ own'[p].code = code /\ own'[p].delivered
             /\ own'[p].owned = own[p].owned
  <2>1. own' = [own EXCEPT ![p].delivered = TRUE, ![p].code = code] /\ TRUE \in BOOLEAN
    BY <1>4 DEF Delivered
  <2> QED
    BY <1>2, <2>1, Locals
<1>5. CASE output[Target(p)] = Complete(Job(p)) /\ Goto(p, "verified") /\ Delivered(p, "OK")
  <2>1. "verified" \in PCs /\ "OK" \in Codes
    BY DEF PCs, TryBody, Codes
  <2>2. /\ Moving(p, "verified") /\ Owning(p, own'[p]) /\ own'[p].delivered
        /\ own'[p].owned = own[p].owned
    BY <1>2, <1>4, <1>5, <2>1, Moves
  <2>3. Frame(p) /\ DelivererIsKnown(p)' /\ JobIsRemoved(p)'
    <3>1. "verified" \in TryBody \cup {"finally", "cleanup"} /\ pc[p] \in TryBody \cup {"finally"}
      BY <1>1 DEF TryBody
    <3> QED
      BY <1>1, <1>3, <2>2, <3>1, TryStep
  <2>4. pc'[p] = "verified" /\ result'[p] = NoResult
    BY <1>1, <1>2, <2>2 DEF Moving
  <2>5. own'[p].owned
    BY <1>1, <1>2, <2>2 DEF DelivererHolds, StagingIsReleased
  <2>6. output'[Target(p)'] = Complete(Job(p)')
    BY <1>1, <1>2, <1>5 DEF onDisk
  <2>7. CopyIsThere(p)' /\ VerifiedIsPublished(p)' /\ StagingIsReleased(p)'
    BY <1>2, <2>4, <2>5, <2>6 DEF CopyIsThere, VerifiedIsPublished, StagingIsReleased, Cleaning
  <2>8. TruthHolds(p)'
    BY <2>2, <2>4 DEF TruthHolds, OutcomeIsTrue, StagedIsWhole, Cleaning, TryBody
  <2> QED
    BY <1>3, <2>3, <2>7, <2>8 DEF Keeps, DelivererHolds
<1>6. ASSUME NEW code \in {"VERIFY_FAILED", "COMMIT_FAILED"}, Goto(p, "finally"), Delivered(p, code)
      PROVE  Keeps(p)
  <2>1. code \in Codes /\ code # "OK" /\ "finally" \in PCs /\ pc[p] \in TryBody
    BY <1>1, <1>6 DEF Codes, PCs, TryBody
  <2>2. /\ Moving(p, "finally") /\ Owning(p, own'[p]) /\ own'[p].code # "OK" /\ own'[p].delivered
    BY <1>2, <1>4, <1>6, <2>1, Moves
  <2>3. TruthInv => output[Target(p)] = Complete(Job(p))
    BY <1>1 DEF TruthInv, OutcomeIsTrue
  <2> QED
    BY <1>1, <1>3, <2>1, <2>2, <2>3, Raising DEF onDisk
<1> QED
  BY <1>5, <1>6 DEF Verify

LEMMA FinalizeKeeps ==
  ASSUME IInv, NEW p \in Deliverers, Finalize(p)
  PROVE  Keeps(p)
<1>1. /\ pc[p] = "verified" /\ pc[p] # "idle" /\ Quiet
      /\ UNCHANGED << call, result, intent, expired, staging, output >>
  BY DEF Finalize, Quiet
<1>2. /\ p \in Actors /\ TypeOK /\ Job(p) \in Jobs /\ Target(p) \in Targets /\ DelivererHolds(p)
      /\ Job(p)' = Job(p) /\ Target(p)' = Target(p) /\ result[p] = NoResult
  BY <1>1, Busy
<1>3. output[Target(p)] = Complete(Job(p)) /\ own[p].owned
  BY <1>1, <1>2 DEF DelivererHolds, VerifiedIsPublished, StagingIsReleased
<1>4. /\ directory \in [Jobs -> {"present", "gone", "recreated"}]
      /\ files \in [Jobs -> SUBSET Names] /\ ledger \in [Jobs -> {"validated", "finalized"}]
  BY <1>2 DEF TypeOK
<1>5. /\ directory' \in [Jobs -> {"present", "gone", "recreated"}]
      /\ files' \in [Jobs -> SUBSET Names]
      /\ \A j \in Jobs : directory[j] # "present" => directory'[j] # "present"
  <2>1. CASE directory[Job(p)] = "gone"
    BY <1>2, <1>4, <2>1 DEF Finalize, Names
  <2>2. CASE directory[Job(p)] # "gone"
    <3>1. directory' = directory
      BY <2>2 DEF Finalize
    <3>2. \E new \in {files[Job(p)], files[Job(p)] \cup {"lock"}} :
             files' = [files EXCEPT ![Job(p)] = new]
      BY <2>2, <1>2, <1>4 DEF Finalize
    <3>3. files[Job(p)] \in SUBSET Names /\ files[Job(p)] \cup {"lock"} \in SUBSET Names
      BY <1>2, <1>4 DEF Names
    <3> QED
      BY <1>4, <3>1, <3>2, <3>3
  <2> QED
    BY <2>1, <2>2
<1>6. StagingFrame(p) /\ UserStep
  BY <1>1 DEF StagingFrame, UserStep
<1>7. ASSUME ledger' = ledger \/ ledger' = [ledger EXCEPT ![Job(p)] = "finalized"]
      PROVE  DiskOK' /\ Monotone
  <2>1. ledger' \in [Jobs -> {"validated", "finalized"}]
    BY <1>2, <1>4, <1>7
  <2>2. DiskOK'
    BY <1>1, <1>2, <1>5, <2>1 DEF TypeOK, DiskOK
  <2>3. ASSUME NEW j \in Jobs
        PROVE  /\ ledger[j] = "finalized" => ledger'[j] = "finalized"
               /\ ledger'[j] = "finalized" => ledger[j] = "finalized" \/ j = Job(p)
    BY <1>2, <1>4, <1>7, <2>3
  <2> QED
    BY <1>1, <1>2, <1>3, <1>5, <2>2, <2>3 DEF Monotone
<1>8. CASE ledger' = [ledger EXCEPT ![Job(p)] = "finalized"] /\ \E code \in {"OK", "STATE_FAILED"} : Fail(p, code)
  <2>1. PICK code \in {"OK", "STATE_FAILED"} : Fail(p, code)
    BY <1>8
  <2>2. code \in Codes
    BY DEF Codes
  <2>3. /\ Moving(p, "finally") /\ Owning(p, own'[p]) /\ own'[p].owned = own[p].owned
        /\ own'[p].delivered = own[p].delivered
    BY <1>2, <2>1, <2>2, Failing
  <2>4. ledger'[Job(p)] = "finalized"
    BY <1>2, <1>4, <1>8
  <2>5. Frame(p) /\ DelivererIsKnown(p)' /\ JobIsRemoved(p)'
    <3>1. pc[p] \in TryBody \cup {"finally"}
      BY <1>1 DEF TryBody
    <3> QED
      BY <1>1, <1>6, <1>7, <1>8, <2>3, <3>1, TryStep
  <2>6. pc'[p] = "finally" /\ result'[p] = NoResult
    BY <1>1, <1>2, <2>3 DEF Moving
  <2>7. CopyIsThere(p)' /\ VerifiedIsPublished(p)' /\ StagingIsReleased(p)'
    BY <1>3, <2>3, <2>6 DEF CopyIsThere, VerifiedIsPublished, StagingIsReleased, Cleaning
  <2>8. ASSUME TruthInv PROVE TruthHolds(p)'
    <3>1. own'[p].delivered /\ output'[Target(p)'] = Complete(Job(p)')
      BY <1>1, <1>2, <1>3, <2>3, <2>8 DEF TruthInv, OutcomeIsTrue
    <3>2. ledger'[Job(p)'] = "finalized"
      BY <1>2, <2>4
    <3> QED
      BY <2>6, <3>1, <3>2 DEF TruthHolds, OutcomeIsTrue, StagedIsWhole, Cleaning, TryBody
  <2> QED
    BY <1>6, <2>5, <2>7, <2>8 DEF Keeps, DelivererHolds
<1>9. CASE ledger' = ledger /\ Fail(p, "STATE_FAILED")
  <2>1. "STATE_FAILED" \in Codes /\ pc[p] \in TryBody \ {"published"}
    BY <1>1 DEF Codes, TryBody
  <2> QED
    BY <1>1, <1>7, <1>9, <2>1, RaisingOnly
<1> QED
  BY <1>8, <1>9 DEF Finalize

LEMMA InterruptKeeps ==
  ASSUME IInv, NEW p \in Deliverers, Interrupt(p)
  PROVE  Keeps(p)
<1>1. /\ pc[p] \in TryBody /\ pc[p] # "idle" /\ Quiet
      /\ UNCHANGED << call, directory, files, intent, ledger, expired, output >>
  BY DEF Interrupt, Quiet, TryBody
<1>2. p \in Actors /\ TypeOK /\ Job(p) \in Jobs
  BY <1>1, Busy
<1> DEFINE there == output[Target(p)] = Complete(Job(p))
<1>3. "CANCELLED" \in Codes /\ "finally" \in PCs /\ there \in BOOLEAN
  BY DEF Codes, PCs
<1>4. own' = [own EXCEPT ![p].code = "CANCELLED", ![p].delivered = there]
  BY DEF Interrupt
<1> HIDE DEF there
<1>5. /\ Moving(p, "finally") /\ Owning(p, own'[p]) /\ own'[p].code = "CANCELLED"
      /\ own'[p].delivered = there /\ own'[p].linked = own[p].linked
  <2>1. Moving(p, "finally")
    BY <1>2, <1>3, Moves DEF Interrupt
  <2> QED
    BY <1>2, <1>3, <1>4, <2>1, Locals
<1>6. staging' \in [Jobs -> {NoFile} \cup StagingFiles] /\ StagingFrame(p)
  <2>1. CASE pc[p] = "copying"
    BY <1>2, <2>1, Abandoning DEF Interrupt
  <2>2. CASE pc[p] # "copying"
    BY <1>2, <2>2 DEF Interrupt, TypeOK, StagingFrame
  <2> QED
    BY <2>1, <2>2
<1>7. DiskOK' /\ Monotone
  BY <1>1, <1>2, <1>6 DEF TypeOK, DiskOK, Monotone
<1>8. ASSUME TruthInv
      PROVE  /\ own'[p].linked => own'[p].delivered
             /\ own'[p].delivered => output[Target(p)] = Complete(Job(p))
  <2>1. OutcomeIsTrue(p) /\ VerifiedIsPublished(p)
    BY <1>8 DEF TruthInv, IInv, DelivererHolds
  <2>2. own[p].linked => there
    BY <1>1, <2>1 DEF OutcomeIsTrue, VerifiedIsPublished, there
  <2> QED
    BY <1>5, <2>2 DEF there
<1>9. own'[p].code # "OK"
  BY <1>5
<1> QED
  BY <1>1, <1>5, <1>6, <1>7, <1>8, <1>9, Raising

LEMMA ReleaseKeeps ==
  ASSUME IInv, NEW p \in Deliverers, Release(p)
  PROVE  Keeps(p)
<1>1. /\ pc[p] = "finally" /\ pc[p] # "idle" /\ Quiet /\ Goto(p, "cleanup")
      /\ UNCHANGED << call, result, directory, files, intent, ledger, expired, output >>
  BY DEF Release, ReleaseTo, Quiet
<1>2. /\ p \in Actors /\ TypeOK /\ Job(p) \in Jobs /\ DelivererHolds(p)
      /\ Job(p)' = Job(p) /\ Target(p)' = Target(p) /\ result[p] = NoResult
  BY <1>1, Busy
<1>3. staging \in [Jobs -> {NoFile} \cup StagingFiles]
  BY <1>2 DEF TypeOK
<1>4. Moving(p, "cleanup")
  <2>1. "cleanup" \in PCs
    BY DEF PCs
  <2> QED
    BY <1>1, <1>2, <2>1, Moves
<1>5. /\ Owning(p, own'[p]) /\ own'[p].linked = own[p].linked
      /\ own'[p].delivered = own[p].delivered
      /\ own'[p].code = "OK" => own[p].code = "OK" /\ staging'[Job(p)] = NoFile
      /\ StagingFrame(p) /\ staging' \in [Jobs -> {NoFile} \cup StagingFiles]
  <2>1. CASE /\ Whole(staging[Job(p)])
             /\ staging' = [staging EXCEPT ![Job(p)] = NoFile] /\ UNCHANGED own
    <3>1. ASSUME NEW q \in Deliverers PROVE staging[Job(p)] # File(q, FALSE)
      BY <2>1 DEF Whole, File
    <3>2. StagingFrame(p)
      BY <1>2, <1>3, <2>1, <3>1 DEF StagingFrame
    <3> QED
      BY <1>2, <1>3, <2>1, <3>2, OwnedStill
  <2>2. CASE (~own[p].owned \/ staging[Job(p)] = NoFile) /\ UNCHANGED << staging, own >>
    <3>1. own[p].code = "OK" => staging[Job(p)] = NoFile
      BY <1>1, <1>2, <2>2 DEF DelivererHolds, StagingIsReleased
    <3>2. StagingFrame(p)
      BY <2>2 DEF StagingFrame
    <3> QED
      BY <1>2, <1>3, <2>2, <3>1, <3>2, OwnedStill
  <2>3. CASE /\ own' = [own EXCEPT ![p].code = IF @ = "OK" THEN "CLEANUP_FAILED" ELSE @]
             /\ UNCHANGED staging
    <3> DEFINE code == IF own[p].code = "OK" THEN "CLEANUP_FAILED" ELSE own[p].code
    <3>1. own \in [Actors -> Owns]
      BY <1>2 DEF TypeOK, Owns
    <3>2. code \in Codes /\ code # "OK" /\ TRUE \in BOOLEAN
      BY <1>2, <3>1 DEF Owns, Codes
    <3>3. own' = [own EXCEPT ![p].code = code]
      BY <1>2, <2>3, <3>1
    <3> HIDE DEF code
    <3>4. /\ Owning(p, own'[p]) /\ own'[p].code = code /\ own'[p].linked = own[p].linked
          /\ own'[p].delivered = own[p].delivered
      BY <1>2, <3>2, <3>3, Locals
    <3>5. StagingFrame(p)
      BY <2>3 DEF StagingFrame
    <3> QED
      BY <1>3, <2>3, <3>2, <3>4, <3>5
  <2> QED
    BY <2>1, <2>2, <2>3 DEF Release, ReleaseTo
<1>6. DiskOK' /\ Monotone /\ UserStep
  BY <1>1, <1>2, <1>5 DEF TypeOK, DiskOK, Monotone, UserStep
<1>7. Frame(p) /\ DelivererIsKnown(p)' /\ JobIsRemoved(p)'
  BY <1>1, <1>4, <1>5, <1>6, TryStep
<1>8. pc'[p] = "cleanup" /\ result'[p] = NoResult
  BY <1>1, <1>2, <1>4 DEF Moving
<1>9. CopyIsThere(p)' /\ VerifiedIsPublished(p)' /\ StagingIsReleased(p)'
  BY <1>2, <1>5, <1>8 DEF CopyIsThere, VerifiedIsPublished, StagingIsReleased, Cleaning
<1>10. ASSUME TruthInv PROVE TruthHolds(p)'
  <2>1. OutcomeIsTrue(p)
    BY <1>10 DEF TruthInv
  <2> QED
    BY <1>1, <1>2, <1>5, <1>8, <2>1
    DEF TruthHolds, OutcomeIsTrue, StagedIsWhole, Cleaning, TryBody
<1> QED
  BY <1>6, <1>7, <1>9, <1>10 DEF Keeps, DelivererHolds

LEMMA CheckKeeps ==
  ASSUME IInv, NEW p \in Deliverers, Check(p)
  PROVE  Keeps(p)
<1>0. PICK j \in JobsOf[p], t \in Targets, keep \in KeepChoices :
        \E code \in {CheckCode(j, t), "CANCELLED"} :
           /\ call' = [call EXCEPT ![p] = [job |-> j, target |-> t, keep |-> keep]]
           /\ own' = [own EXCEPT ![p] = [Idle EXCEPT !.code = code]]
           /\ Goto(p, IF code = "OK" THEN "checked" ELSE "finally")
  BY DEF Check
<1>1. PICK code \in {CheckCode(j, t), "CANCELLED"} :
        /\ call' = [call EXCEPT ![p] = [job |-> j, target |-> t, keep |-> keep]]
        /\ own' = [own EXCEPT ![p] = [Idle EXCEPT !.code = code]]
        /\ Goto(p, IF code = "OK" THEN "checked" ELSE "finally")
  BY <1>0
<1>2. /\ pc[p] = "idle" /\ calls[p] < MaxCalls /\ calls' = [calls EXCEPT ![p] = @ + 1]
      /\ result' = [result EXCEPT ![p] = NoResult] /\ UNCHANGED << onDisk, held, doomed >>
  BY DEF Check
<1>3. p \in Actors /\ TypeOK /\ j \in Jobs /\ keep \in BOOLEAN
  BY <1>1, JobsOfAssumption, CallsAssumption DEF IInv, Actors
<1> DEFINE c == [job |-> j, target |-> t, keep |-> keep]
           o == [Idle EXCEPT !.code = code]
           label == IF code = "OK" THEN "checked" ELSE "finally"
<1>4. code \in Codes
  BY DEF CheckCode, Codes
<1>5. o \in Owns /\ o.code = code /\ ~o.linked /\ ~o.delivered
  BY <1>4 DEF Owns, Idle
<1>6. c \in DeliveryCalls /\ c.job = j
  BY <1>3 DEF DeliveryCalls
<1>7. label \in PCs /\ label \in {"checked", "finally"} /\ (label = "finally" => code # "OK")
  BY DEF PCs, TryBody
<1> HIDE DEF c, o, label
<1>8. Moving(p, label) /\ Owning(p, o)
  BY <1>1, <1>3, <1>5, <1>7, Moves, BecomingOwned DEF o, label
<1>9. /\ call' \in [Actors -> {NoResult} \cup DeliveryCalls \cup SweepCalls] /\ call'[p] = c
      /\ \A b \in Actors \ {p} : call'[b] = call[b]
  BY <1>1, <1>3, <1>6 DEF TypeOK, c
<1>10. calls' \in [Deliverers -> 0 .. MaxCalls]
  BY <1>2, <1>3, CallsAssumption DEF TypeOK
<1>11. /\ result' \in [Actors -> {NoResult} \cup Results] /\ result'[p] = NoResult
       /\ \A b \in Actors \ {p} : result'[b] = result[b]
  BY <1>2, <1>3 DEF TypeOK
<1>12. TypeOK'
  BY <1>2, <1>3, <1>8, <1>9, <1>10, <1>11 DEF TypeOK, onDisk, Moving, Owning, Owns
<1>13. StagingFrame(p) /\ Monotone /\ UserStep
  BY <1>2 DEF onDisk, StagingFrame, Monotone, UserStep
<1>14. Frame(p)
  BY <1>8, <1>9, <1>11, <1>12, <1>13 DEF Frame, Moving, Owning
<1>15. /\ pc'[p] = label /\ label \in {"checked", "finally"} /\ own'[p].code = code
       /\ ~own'[p].linked /\ ~own'[p].delivered /\ (label = "finally" => code # "OK")
  BY <1>5, <1>7, <1>8 DEF Moving, Owning
<1>16. DelivererHolds(p)'
  <2>1. DelivererIsKnown(p)' /\ JobIsRemoved(p)'
    BY <1>1, <1>6, <1>9, <1>11, <1>15 DEF DelivererIsKnown, JobIsRemoved, Job
  <2>2. CopyIsThere(p)' /\ VerifiedIsPublished(p)' /\ StagingIsReleased(p)'
    BY <1>11, <1>15 DEF CopyIsThere, VerifiedIsPublished, StagingIsReleased, Cleaning
  <2> QED
    BY <2>1, <2>2 DEF DelivererHolds
<1>17. TruthHolds(p)'
  BY <1>11, <1>15 DEF TruthHolds, OutcomeIsTrue, StagedIsWhole, Cleaning, TryBody
<1> QED
  BY <1>13, <1>14, <1>16, <1>17 DEF Keeps
-----------------------------------------------------------------------------
(* The steps of a cleanup, a deliverer's or a sweeper's: the user's folder *)
(* is shown nothing, and staging files can only disappear.                 *)

CleanKeeps(a) ==
    /\ Frame(a) /\ UserStep
    /\ a \in Deliverers => DelivererHolds(a)' /\ (TruthInv => TruthHolds(a)')
    /\ a \in Sweepers => SweeperIsKnown(a)'

Shrinking(a) == /\ StagingFrame(a) /\ \A j \in Jobs : staging'[j] \in {staging[j], NoFile}
                /\ \A j \in Jobs : directory[j] # "present" => directory'[j] # "present"
                /\ UNCHANGED << call, calls, ledger, output >>

LEMMA BusyCleaner ==
  ASSUME IInv, NEW a \in Actors, pc[a] \in Cleaning
  PROVE  /\ TypeOK /\ Job(a) \in Jobs /\ call[a].keep \in BOOLEAN
         /\ UNCHANGED call => Job(a)' = Job(a) /\ Target(a)' = Target(a)
         /\ a \in Deliverers => /\ DelivererHolds(a) /\ result[a] = NoResult
                                /\ call[a] \in DeliveryCalls /\ Job(a) \in JobsOf[a]
         /\ a \in Sweepers => SweeperIsKnown(a) /\ call[a] \in SweepCalls
<1>1. TypeOK /\ pc[a] # "idle"
  BY DEF IInv, Cleaning
<1>2. a \in Deliverers => /\ DelivererHolds(a) /\ result[a] = NoResult
                          /\ call[a] \in DeliveryCalls /\ Job(a) \in JobsOf[a]
  BY <1>1 DEF IInv, DelivererHolds, DelivererIsKnown
<1>3. a \in Sweepers => SweeperIsKnown(a) /\ call[a] \in SweepCalls
  BY <1>1 DEF IInv, SweeperIsKnown
<1>4. Job(a) \in Jobs /\ call[a].keep \in BOOLEAN
  BY <1>2, <1>3 DEF Actors, DeliveryCalls, SweepCalls, Job
<1>5. UNCHANGED call => Job(a)' = Job(a) /\ Target(a)' = Target(a)
  BY DEF Job, Target
<1> QED
  BY <1>1, <1>2, <1>3, <1>4, <1>5

LEMMA MonotoneShrinking ==
  ASSUME NEW a, Shrinking(a)
  PROVE  Monotone /\ UserStep
BY DEF Shrinking, Monotone, UserStep

(* A step within the cleanup.                                              *)
LEMMA CleanStep ==
  ASSUME IInv, NEW a \in Actors, pc[a] \in Cleaning, NEW label \in Cleaning, Moving(a, label),
         label = "retaining" => call[a].keep, Shrinking(a), DiskOK', UNCHANGED << own, result >>,
         held' \in [Jobs -> Actors \cup {NoActor}],
         doomed' \in [Actors -> SUBSET (Names \cup {Intent})]
  PROVE  CleanKeeps(a)
<1>1. /\ TypeOK /\ Job(a) \in Jobs /\ Job(a)' = Job(a) /\ Target(a)' = Target(a)
      /\ a \in Deliverers => /\ DelivererHolds(a) /\ result[a] = NoResult
                             /\ call[a] \in DeliveryCalls /\ Job(a) \in JobsOf[a]
      /\ a \in Sweepers => SweeperIsKnown(a) /\ call[a] \in SweepCalls
  BY BusyCleaner DEF Shrinking
<1>2. /\ pc' \in [Actors -> PCs] /\ pc'[a] = label
      /\ call'[a] = call[a] /\ own'[a] = own[a] /\ result'[a] = result[a]
  BY DEF Moving, Shrinking
<1>3. TypeOK'
  BY <1>1, <1>2 DEF TypeOK, DiskOK, Shrinking
<1>4. Frame(a) /\ UserStep
  BY <1>3, MonotoneShrinking DEF Frame, Shrinking, Moving
<1>5. ASSUME a \in Deliverers PROVE DelivererHolds(a)'
  <2>1. DelivererIsKnown(a)' /\ JobIsRemoved(a)'
    BY <1>1, <1>2, <1>5 DEF DelivererIsKnown, JobIsRemoved, Cleaning
  <2>2. CopyIsThere(a)' /\ VerifiedIsPublished(a)'
    BY <1>2 DEF CopyIsThere, VerifiedIsPublished, Cleaning
  <2>3. StagingIsReleased(a)'
    BY <1>1, <1>2, <1>5 DEF DelivererHolds, StagingIsReleased, Shrinking, Cleaning
  <2> QED
    BY <2>1, <2>2, <2>3 DEF DelivererHolds
<1>6. ASSUME a \in Deliverers, TruthInv PROVE TruthHolds(a)'
  <2>1. OutcomeIsTrue(a)
    BY <1>6 DEF TruthInv
  <2>2. pc[a] \in Cleaning /\ label \in Cleaning /\ result[a] = NoResult
    BY <1>1, <1>6
  <2> QED
    BY <1>1, <1>2, <2>1, <2>2
    DEF TruthHolds, OutcomeIsTrue, StagedIsWhole, Shrinking, Cleaning, TryBody
<1>7. ASSUME a \in Sweepers PROVE SweeperIsKnown(a)'
  BY <1>1, <1>2, <1>7 DEF SweeperIsKnown, SweepCalls
<1> QED
  BY <1>4, <1>5, <1>6, <1>7 DEF CleanKeeps

(* A cleanup that ends the call.                                           *)
LEMMA CleanReturn ==
  ASSUME IInv, NEW a \in Actors, pc[a] \in Cleaning, NEW cleaned \in Cleanups, Return(a, cleaned),
         Shrinking(a), DiskOK', cleaned = "OK" => directory'[Job(a)] # "present",
         cleaned = "RETAINED" => call[a].keep
  PROVE  CleanKeeps(a)
<1>1. /\ TypeOK /\ Job(a) \in Jobs /\ Job(a)' = Job(a) /\ Target(a)' = Target(a)
      /\ a \in Deliverers => /\ DelivererHolds(a) /\ result[a] = NoResult
                             /\ call[a] \in DeliveryCalls /\ Job(a) \in JobsOf[a]
      /\ a \in Sweepers => SweeperIsKnown(a) /\ call[a] \in SweepCalls
  BY BusyCleaner DEF Shrinking
<1>2. Returned(a, cleaned)
  BY <1>1, Returning
<1>3. pc'[a] = "idle" /\ call'[a] = call[a] /\ pc' \in [Actors -> PCs] /\ own' \in [Actors -> Owns]
  BY <1>2 DEF Returned, Moving, Owning, Shrinking
<1>4. TypeOK'
  BY <1>1, <1>2, <1>3 DEF TypeOK, DiskOK, Shrinking, Returned, Owns
<1>5. Frame(a) /\ UserStep
  BY <1>2, <1>4, MonotoneShrinking DEF Frame, Shrinking, Returned, Moving, Owning
<1>6. /\ result'[a].code = "OK" => own[a].code = "OK" /\ cleaned \in {"OK", "RETAINED"}
      /\ result'[a].delivered = own[a].delivered /\ result'[a].linked = own[a].linked
      /\ result'[a] \in Results
  BY <1>2 DEF Returned
<1>7. ASSUME a \in Deliverers PROVE DelivererHolds(a)'
  <2>1. DelivererIsKnown(a)'
    BY <1>1, <1>3, <1>6, <1>7 DEF DelivererIsKnown
  <2>2. CopyIsThere(a)' /\ VerifiedIsPublished(a)'
    BY <1>3 DEF CopyIsThere, VerifiedIsPublished
  <2>3. StagingIsReleased(a)'
    BY <1>1, <1>3, <1>6, <1>7 DEF DelivererHolds, StagingIsReleased, Shrinking, Cleaning
  <2>4. JobIsRemoved(a)'
    BY <1>1, <1>3, <1>6 DEF JobIsRemoved
  <2> QED
    BY <2>1, <2>2, <2>3, <2>4 DEF DelivererHolds
<1>8. ASSUME a \in Deliverers, TruthInv PROVE TruthHolds(a)'
  <2>1. OutcomeIsTrue(a)
    BY <1>8 DEF TruthInv
  <2> QED
    BY <1>1, <1>3, <1>6, <2>1
    DEF TruthHolds, OutcomeIsTrue, StagedIsWhole, Shrinking, Cleaning, TryBody
<1>9. ASSUME a \in Sweepers PROVE SweeperIsKnown(a)'
  BY <1>3 DEF SweeperIsKnown
<1> QED
  BY <1>5, <1>7, <1>8, <1>9 DEF CleanKeeps

LEMMA DiskStays ==
  ASSUME TypeOK, NEW a, UNCHANGED onDisk, UNCHANGED << call, calls >>
  PROVE  DiskOK' /\ Shrinking(a)
BY DEF TypeOK, DiskOK, onDisk, Shrinking, StagingFrame

LEMMA OpenJobKeeps ==
  ASSUME IInv, NEW a \in Actors, OpenJob(a)
  PROVE  CleanKeeps(a)
<1>1. pc[a] \in Cleaning
  BY DEF OpenJob, Cleaning
<1>2. TypeOK /\ Job(a) \in Jobs /\ DiskOK' /\ Shrinking(a)
  BY <1>1, BusyCleaner, DiskStays DEF OpenJob, Still
<1>3. CASE /\ held' = IF Platform = "nt" THEN [held EXCEPT ![Job(a)] = a] ELSE held
           /\ Goto(a, IF call[a].keep THEN "retaining" ELSE "unstaging")
           /\ UNCHANGED << doomed, own, result >>
  <2> DEFINE label == IF call[a].keep THEN "retaining" ELSE "unstaging"
  <2>1. label \in PCs /\ label \in Cleaning /\ (label = "retaining" => call[a].keep)
    BY DEF PCs, Cleaning
  <2>2. Moving(a, label)
    BY <1>2, <1>3, <2>1, Moves
  <2> HIDE DEF label
  <2>3. held' \in [Jobs -> Actors \cup {NoActor}] /\ doomed' \in [Actors -> SUBSET (Names \cup {Intent})]
    BY <1>2, <1>3 DEF TypeOK
  <2> QED
    BY <1>1, <1>2, <1>3, <2>1, <2>2, <2>3, CleanStep
<1>4. CASE Return(a, "INVALID_SCOPE")
  <2>1. "INVALID_SCOPE" \in Cleanups
    BY DEF Cleanups
  <2> QED
    BY <1>1, <1>2, <1>4, <2>1, CleanReturn
<1> QED
  BY <1>3, <1>4 DEF OpenJob

LEMMA RetainKeeps ==
  ASSUME IInv, NEW a \in Actors, Retain(a)
  PROVE  CleanKeeps(a)
<1>1. pc[a] \in Cleaning /\ pc[a] = "retaining"
  BY DEF Retain, Cleaning
<1>2. TypeOK /\ Job(a) \in Jobs
  BY <1>1, BusyCleaner
<1>3. call[a].keep
  BY <1>1, BusyCleaner DEF DelivererHolds, DelivererIsKnown, SweeperIsKnown, Actors
<1>4. Shrinking(a)
  BY DEF Retain, Still, Shrinking, StagingFrame
<1>5. DiskOK'
  <2>1. CASE /\ files' = [files EXCEPT ![Job(a)] = @ \cup {"sentinel"}]
             /\ expired' = [expired EXCEPT ![Job(a)] = FALSE]
    BY <1>2, <2>1 DEF Retain, TypeOK, DiskOK, Names, JobFiles
  <2>2. CASE UNCHANGED << files, expired >>
    BY <1>2, <2>2 DEF Retain, TypeOK, DiskOK
  <2> QED
    BY <2>1, <2>2 DEF Retain
<1>6. ASSUME NEW cleaned \in {"RETAINED", "IO_FAILED"}, Return(a, cleaned) PROVE CleanKeeps(a)
  <2>1. cleaned \in Cleanups /\ cleaned # "OK"
    BY <1>6 DEF Cleanups
  <2> QED
    BY <1>1, <1>3, <1>4, <1>5, <1>6, <2>1, CleanReturn
<1> QED
  BY <1>6 DEF Retain

LEMMA RemoveStagingKeeps ==
  ASSUME IInv, NEW a \in Actors, RemoveStaging(a)
  PROVE  CleanKeeps(a)
<1>1. /\ pc[a] \in Cleaning /\ UNCHANGED << directory, files, intent, ledger, expired, output >>
      /\ UNCHANGED << call, calls >>
  BY DEF RemoveStaging, Cleaning, Still
<1>2. TypeOK /\ Job(a) \in Jobs /\ staging \in [Jobs -> {NoFile} \cup StagingFiles]
  BY <1>1, BusyCleaner DEF TypeOK
<1>3. /\ \/ UNCHANGED staging
         \/ /\ Whole(staging[Job(a)])
            /\ staging' = [staging EXCEPT ![Job(a)] = NoFile]
      /\ \/ Going(a, "listing")
         \/ \E cleaned \in {"UNSAFE_PATH", "IO_FAILED", "INVALID_SCOPE"} : Return(a, cleaned)
  BY DEF RemoveStaging
<1>4. Shrinking(a) /\ DiskOK'
  <2>1. CASE UNCHANGED staging
    BY <1>1, <1>2, <2>1 DEF Shrinking, StagingFrame, DiskOK, TypeOK
  <2>2. CASE Whole(staging[Job(a)]) /\ staging' = [staging EXCEPT ![Job(a)] = NoFile]
    <3>1. ASSUME NEW q \in Deliverers PROVE staging[Job(a)] # File(q, FALSE)
      BY <2>2 DEF Whole, File
    <3> QED
      BY <1>1, <1>2, <2>2, <3>1 DEF Shrinking, StagingFrame, DiskOK, TypeOK
  <2> QED
    BY <1>3, <2>1, <2>2
<1>5. CASE Going(a, "listing")
  <2>1. "listing" \in PCs /\ "listing" \in Cleaning
    BY DEF PCs, Cleaning
  <2>2. Moving(a, "listing") /\ UNCHANGED << held, doomed, own, result >>
    BY <1>2, <1>5, <2>1, Moves DEF Going
  <2>3. held' \in [Jobs -> Actors \cup {NoActor}] /\ doomed' \in [Actors -> SUBSET (Names \cup {Intent})]
    BY <1>2, <2>2 DEF TypeOK
  <2> QED
    BY <1>1, <1>4, <2>1, <2>2, <2>3, CleanStep
<1>6. ASSUME NEW cleaned \in {"UNSAFE_PATH", "IO_FAILED", "INVALID_SCOPE"}, Return(a, cleaned)
      PROVE  CleanKeeps(a)
  <2>1. cleaned \in Cleanups /\ cleaned # "OK" /\ cleaned # "RETAINED"
    BY <1>6 DEF Cleanups
  <2> QED
    BY <1>1, <1>4, <1>6, <2>1, CleanReturn
<1> QED
  BY <1>3, <1>5, <1>6

LEMMA ListJobKeeps ==
  ASSUME IInv, NEW a \in Actors, ListJob(a)
  PROVE  CleanKeeps(a)
<1>1. /\ pc[a] \in Cleaning /\ UNCHANGED << held, own, result >> /\ Goto(a, "unlinking")
      /\ doomed' = [doomed EXCEPT ![a] = Entries(Job(a))]
  BY DEF ListJob, Cleaning
<1>2. TypeOK /\ Job(a) \in Jobs /\ DiskOK' /\ Shrinking(a)
  BY <1>1, BusyCleaner, DiskStays DEF ListJob, Still
<1>3. "unlinking" \in PCs /\ "unlinking" \in Cleaning
  BY DEF PCs, Cleaning
<1>4. Moving(a, "unlinking")
  BY <1>1, <1>2, <1>3, Moves
<1>5. Entries(Job(a)) \in SUBSET (Names \cup {Intent})
  BY <1>2 DEF Entries, TypeOK
<1>6. held' \in [Jobs -> Actors \cup {NoActor}] /\ doomed' \in [Actors -> SUBSET (Names \cup {Intent})]
  BY <1>1, <1>2, <1>5 DEF TypeOK
<1> QED
  BY <1>1, <1>2, <1>3, <1>4, <1>6, CleanStep

LEMMA UnlinkKeeps ==
  ASSUME IInv, NEW a \in Actors, NEW n \in Names \cup {Intent}, Unlink(a, n)
  PROVE  CleanKeeps(a)
<1>1. /\ pc[a] \in Cleaning /\ pc[a] = "unlinking"
      /\ UNCHANGED << directory, ledger, expired, staging, output, call, calls >>
  BY DEF Unlink, UnlinkOr, Cleaning, Still
<1>2. TypeOK /\ Job(a) \in Jobs
  BY <1>1, BusyCleaner
<1>3. Shrinking(a)
  BY <1>1 DEF Shrinking, StagingFrame
<1>4. CASE /\ IF n = Intent
              THEN intent' = [intent EXCEPT ![Job(a)] = NoFile] /\ UNCHANGED files
              ELSE files' = [files EXCEPT ![Job(a)] = @ \ {n}] /\ UNCHANGED intent
           /\ doomed' = [doomed EXCEPT ![a] = @ \ {n}]
           /\ UNCHANGED << pc, held, own, result >>
  <2>1. DiskOK'
    <3>1. CASE n = Intent
      BY <1>1, <1>2, <1>4, <3>1 DEF TypeOK, DiskOK
    <3>2. CASE n # Intent
      <4>1. files \in [Jobs -> SUBSET Names] /\ files' = [files EXCEPT ![Job(a)] = @ \ {n}]
        BY <1>2, <1>4, <3>2 DEF TypeOK
      <4>2. files[Job(a)] \ {n} \in SUBSET Names
        BY <1>2, <4>1
      <4>3. files' \in [Jobs -> SUBSET Names]
        BY <4>1, <4>2
      <4> QED
        BY <1>1, <1>2, <1>4, <3>2, <4>3 DEF TypeOK, DiskOK
    <3> QED
      BY <3>1, <3>2
  <2>2. Moving(a, "unlinking") /\ "unlinking" \in Cleaning
    BY <1>1, <1>2, <1>4 DEF Moving, TypeOK
  <2>3. held' \in [Jobs -> Actors \cup {NoActor}] /\ doomed' \in [Actors -> SUBSET (Names \cup {Intent})]
    <3>1. doomed \in [Actors -> SUBSET (Names \cup {Intent})] /\ held' = held
      BY <1>2, <1>4 DEF TypeOK
    <3>2. doomed[a] \ {n} \in SUBSET (Names \cup {Intent})
      BY <3>1
    <3>3. doomed' = [doomed EXCEPT ![a] = doomed[a] \ {n}]
      BY <1>4, <3>1
    <3> QED
      BY <1>2, <3>1, <3>2, <3>3 DEF TypeOK
  <2> QED
    BY <1>1, <1>3, <1>4, <2>1, <2>2, <2>3, CleanStep
<1>5. CASE Return(a, "IO_FAILED") /\ UNCHANGED << files, intent >>
  <2>1. "IO_FAILED" \in Cleanups /\ DiskOK'
    BY <1>1, <1>2, <1>5 DEF Cleanups, TypeOK, DiskOK
  <2> QED
    BY <1>1, <1>3, <1>5, <2>1, CleanReturn
<1> QED
  BY <1>4, <1>5 DEF Unlink, UnlinkOr

LEMMA RemoveDirectoryKeeps ==
  ASSUME IInv, NEW a \in Actors, RemoveDirectory(a)
  PROVE  CleanKeeps(a)
<1>1. /\ pc[a] \in Cleaning
      /\ UNCHANGED << files, intent, ledger, expired, staging, output, call, calls >>
  BY DEF RemoveDirectory, Cleaning, Still
<1>2. TypeOK /\ Job(a) \in Jobs /\ directory \in [Jobs -> {"present", "gone", "recreated"}]
  BY <1>1, BusyCleaner DEF TypeOK
<1>3. \/ directory' = [directory EXCEPT ![Job(a)] = "gone"] /\ Return(a, "OK")
      \/ UNCHANGED directory /\ \E cleaned \in {"IO_FAILED", "UNSAFE_PATH"} : Return(a, cleaned)
  BY DEF RemoveDirectory
<1>4. DiskOK' /\ Shrinking(a)
  BY <1>1, <1>2, <1>3 DEF TypeOK, DiskOK, Shrinking, StagingFrame
<1>5. PICK cleaned \in Cleanups \ {"RETAINED"} :
         Return(a, cleaned) /\ (cleaned = "OK" => directory'[Job(a)] # "present")
  BY <1>2, <1>3 DEF Cleanups
<1> QED
  BY <1>1, <1>4, <1>5, CleanReturn
-----------------------------------------------------------------------------
(* What happens to an actor, and around them all.                          *)

LEMMA CrashKeeps ==
  ASSUME IInv, NEW a \in Actors, Crash(a)
  PROVE  CleanKeeps(a)
<1>1. /\ pc[a] # "idle" /\ Goto(a, "idle") /\ own' = [own EXCEPT ![a] = Idle]
      /\ UNCHANGED << onDisk, call, calls, result >>
  BY DEF Crash
<1>2. TypeOK /\ "idle" \in PCs
  BY DEF IInv, PCs
<1>3. Moving(a, "idle") /\ Owning(a, Idle)
  BY <1>1, <1>2, Moves, BecomingOwned, IdleIsOwn
<1>4. /\ held' \in [Jobs -> Actors \cup {NoActor}]
      /\ doomed' \in [Actors -> SUBSET (Names \cup {Intent})]
  BY <1>2 DEF Crash, TypeOK, CloseJob
<1>5. DiskOK' /\ Shrinking(a)
  BY <1>1, <1>2, DiskStays
<1>6. TypeOK'
  BY <1>1, <1>2, <1>3, <1>4, <1>5 DEF TypeOK, DiskOK, Moving, Owning, Owns
<1>7. Frame(a) /\ UserStep
  BY <1>1, <1>3, <1>5, <1>6, MonotoneShrinking DEF Frame, Shrinking, Moving, Owning
<1>8. pc'[a] = "idle"
  BY <1>3 DEF Moving
<1>9. ASSUME a \in Deliverers PROVE DelivererHolds(a)' /\ TruthHolds(a)'
  <2>1. result'[a] = NoResult
    BY <1>1, <1>9 DEF IInv, DelivererHolds, DelivererIsKnown
  <2>2. DelivererIsKnown(a)' /\ CopyIsThere(a)' /\ JobIsRemoved(a)' /\ VerifiedIsPublished(a)'
    BY <1>8, <2>1 DEF DelivererIsKnown, CopyIsThere, JobIsRemoved, VerifiedIsPublished
  <2>3. StagingIsReleased(a)'
    BY <1>8, <2>1 DEF StagingIsReleased, Cleaning
  <2>4. TruthHolds(a)'
    BY <1>8, <2>1 DEF TruthHolds, StagedIsWhole, OutcomeIsTrue, TryBody, Cleaning
  <2> QED
    BY <2>2, <2>3, <2>4 DEF DelivererHolds
<1>10. ASSUME a \in Sweepers PROVE SweeperIsKnown(a)'
  BY <1>8 DEF SweeperIsKnown
<1> QED
  BY <1>7, <1>9, <1>10 DEF CleanKeeps

LEMMA SweepKeeps ==
  ASSUME IInv, NEW s \in Sweepers, NEW j \in Jobs, Sweep(s, j)
  PROVE  CleanKeeps(s)
<1>1. /\ pc[s] = "idle" /\ call' = [call EXCEPT ![s] = [job |-> j, keep |-> FALSE]]
      /\ Goto(s, "cleanup") /\ UNCHANGED << onDisk, held, calls, own, doomed, result >>
  BY DEF Sweep
<1>2. s \in Actors /\ s \notin Deliverers /\ TypeOK /\ "cleanup" \in PCs
  BY ActorsAssumption DEF Actors, IInv, PCs
<1>3. Moving(s, "cleanup")
  BY <1>1, <1>2, Moves
<1>4. [job |-> j, keep |-> FALSE] \in SweepCalls
  BY DEF SweepCalls
<1>5. /\ call' \in [Actors -> {NoResult} \cup DeliveryCalls \cup SweepCalls]
      /\ call'[s] = [job |-> j, keep |-> FALSE]
      /\ \A b \in Actors \ {s} : call'[b] = call[b]
  BY <1>1, <1>2, <1>4 DEF TypeOK
<1>6. TypeOK'
  BY <1>1, <1>2, <1>3, <1>5 DEF TypeOK, onDisk, Moving
<1>7. StagingFrame(s) /\ Monotone /\ UserStep
  BY <1>1 DEF onDisk, StagingFrame, Monotone, UserStep
<1>8. Frame(s)
  BY <1>1, <1>3, <1>5, <1>6, <1>7 DEF Frame, Moving
<1>9. SweeperIsKnown(s)'
  BY <1>3, <1>4, <1>5 DEF SweeperIsKnown, Moving, Cleaning
<1> QED
  BY <1>2, <1>7, <1>8, <1>9 DEF CleanKeeps

LEMMA OthersKeep ==
  ASSUME IInv, \/ \E j \in Jobs : Expire(j)
               \/ \E t \in Targets : Intrude(t)
               \/ UNCHANGED vars
  PROVE  Frame(NoActor) /\ UserStep
<1>1. /\ UNCHANGED << directory, files, intent, ledger, staging, held, pc, call, calls, own,
                      doomed, result >>
      /\ \/ UNCHANGED << expired, output >>
         \/ UNCHANGED output /\ \E j \in Jobs : expired' = [expired EXCEPT ![j] = TRUE]
         \/ UNCHANGED expired /\ \E t \in Targets : output[t] = NoFile
                                    /\ output' = [output EXCEPT ![t] = Foreign]
  BY DEF Expire, Intrude, vars, onDisk
<1>2. TypeOK
  BY DEF IInv
<1>3. expired' \in [Jobs -> BOOLEAN] /\ output' \in [Targets -> {NoFile, Foreign} \cup OutputFiles]
  BY <1>1, <1>2 DEF TypeOK
<1>4. TypeOK'
  BY <1>1, <1>2, <1>3 DEF TypeOK
<1>5. UserStep
  BY <1>1 DEF UserStep
<1>6. Monotone
  <2>1. ASSUME NEW t \in Targets, NEW j \in Jobs, output[t] = Complete(j)
        PROVE  output'[t] = Complete(j)
    <3>1. Complete(j) \in OutputFiles
      BY DEF Complete, OutputFiles
    <3>2. Complete(j) # NoFile
      BY <3>1, FilesAssumption
    <3> QED
      BY <1>1, <1>2, <2>1, <3>2 DEF TypeOK
  <2>2. ASSUME NEW t \in Targets, output[t] = Foreign PROVE output'[t] = Foreign
    BY <1>1, <1>2, <2>2, FilesAssumption DEF TypeOK
  <2> QED
    BY <1>1, <2>1, <2>2 DEF Monotone
<1>7. StagingFrame(NoActor)
  BY <1>1 DEF StagingFrame
<1> QED
  BY <1>1, <1>4, <1>5, <1>6, <1>7 DEF Frame
-----------------------------------------------------------------------------
(* Where the text of a job lies, and who gives up removing it.             *)

(* A step of an actor that was not unlinking, and leaves the names of the  *)
(* jobs alone or puts some there, strands no text.                         *)
Harmless(a) ==
    /\ a \in Actors => pc[a] # "unlinking"
    /\ \A b \in Actors : b # a => pc'[b] = pc[b] /\ call'[b] = call[b]

NamesStay == \A j \in Jobs :
    Has(j, "candidate")' => Has(j, "candidate") /\ (Managed(j) => Managed(j)')

Reported(a, j) ==
    /\ Unlinking(a, j) /\ pc'[a] = "idle"
    /\ \/ result'[a] # NoResult /\ result'[a].cleanup = "IO_FAILED"
       \/ "crash" \in Faults /\ UNCHANGED result

StrandsNothing ==
    /\ TextIsInJob'
    /\ \A j \in Jobs : ~Stranded(j) /\ Stranded(j)' => \E a \in Actors : Reported(a, j)

LEMMA HarmlessStep ==
  ASSUME NEW a, Harmless(a), NamesStay, NEW j \in Jobs, ~Stranded(j)
  PROVE  ~Stranded(j)'
<1> SUFFICES ASSUME Stranded(j)' PROVE FALSE
  OBVIOUS
<1>1. Has(j, "candidate") /\ ~Managed(j)
  BY DEF Stranded, NamesStay
<1>2. PICK b \in Actors : pc[b] = "unlinking" /\ Job(b) = j
  BY <1>1 DEF Stranded
<1>3. pc'[b] = "unlinking" /\ Job(b)' = j
  BY <1>2 DEF Harmless, Job
<1> QED
  BY <1>3 DEF Stranded

(* Most steps change no name of a job's directory.                         *)
LEMMA SameNames ==
  ASSUME TextIsInJob, NEW a, Harmless(a), UNCHANGED << directory, files >>
  PROVE  StrandsNothing
<1>1. NamesStay
  BY DEF NamesStay, Has, Managed
<1>2. TextIsInJob'
  BY DEF TextIsInJob
<1> QED
  BY <1>1, <1>2, HarmlessStep DEF StrandsNothing

LEMMA GoingIsHarmless ==
  ASSUME TypeOK, NEW a \in Actors, pc[a] # "unlinking", NEW label, Goto(a, label), UNCHANGED call
  PROVE  Harmless(a)
BY DEF Goto, Harmless, TypeOK

LEMMA DeliveryStrandsNothing ==
  ASSUME IInv, TextIsInJob, NEW p \in Deliverers, Check(p) \/ Deliver(p) \/ Interrupt(p)
  PROVE  StrandsNothing
<1>1. p \in Actors /\ TypeOK
  BY DEF IInv, Actors
<1>2. CASE Check(p)
  <2>1. Harmless(p)
    BY <1>1, <1>2 DEF Check, Goto, Harmless, TypeOK
  <2> QED
    BY <1>2, <2>1, SameNames DEF Check, onDisk
<1>3. CASE CreateIntent(p) \/ FillIntent(p) \/ CreateStaging(p) \/ FillStaging(p)
  <2>1. pc[p] # "unlinking" /\ UNCHANGED << call, directory, files >>
    BY <1>3 DEF CreateIntent, FillIntent, CreateStaging, FillStaging, Quiet
  <2>2. \E label : Goto(p, label)
    BY <1>3 DEF CreateIntent, FillIntent, CreateStaging, FillStaging, FailCopy, Fail
  <2> QED
    BY <1>1, <2>1, <2>2, GoingIsHarmless, SameNames
<1>4. CASE OwnStaging(p) \/ Publish(p) \/ Verify(p) \/ Release(p)
  <2>1. pc[p] # "unlinking" /\ UNCHANGED << call, directory, files >>
    BY <1>4 DEF OwnStaging, Publish, PublishTo, Verify, Release, ReleaseTo, Quiet, onDisk
  <2>2. \E label : Goto(p, label)
    BY <1>4 DEF OwnStaging, Publish, PublishTo, Verify, Release, ReleaseTo, Fail
  <2> QED
    BY <1>1, <2>1, <2>2, GoingIsHarmless, SameNames
<1>5. CASE Interrupt(p)
  <2>1. pc[p] # "unlinking" /\ UNCHANGED << call, directory, files >> /\ Goto(p, "finally")
    BY <1>5 DEF Interrupt, TryBody, Quiet
  <2> QED
    BY <1>1, <2>1, GoingIsHarmless, SameNames
<1>6. CASE Finalize(p)
  <2>1. pc[p] \notin {"idle", "unlinking"} /\ UNCHANGED call /\ Goto(p, "finally")
    BY <1>6 DEF Finalize, Fail, Quiet
  <2>2. Harmless(p)
    BY <1>1, <2>1, GoingIsHarmless
  <2>3. Job(p) \in Jobs
    BY <1>6, <2>1, Busy DEF Finalize
  <2>4. CASE directory[Job(p)] = "gone"
    <3>1. /\ directory' = [directory EXCEPT ![Job(p)] = "recreated"]
          /\ files' = [files EXCEPT ![Job(p)] = {"lock"}]
      BY <1>6, <2>4 DEF Finalize
    <3>2. NamesStay
      BY <1>1, <2>3, <3>1 DEF NamesStay, Has, Managed, TypeOK
    <3>3. TextIsInJob'
      BY <1>1, <2>3, <3>1 DEF TextIsInJob, TypeOK
    <3> QED
      BY <2>2, <3>2, <3>3, HarmlessStep DEF StrandsNothing
  <2>5. CASE directory[Job(p)] # "gone"
    <3>1. /\ files' = [files EXCEPT ![Job(p)] = IF "ledger" \in @ THEN @ ELSE @ \cup {"lock"}]
          /\ UNCHANGED directory
      BY <1>6, <2>5 DEF Finalize
    <3>2. ASSUME NEW j \in Jobs
          PROVE  /\ "candidate" \in files'[j] <=> "candidate" \in files[j]
                 /\ "sentinel" \in files'[j] <=> "sentinel" \in files[j]
      BY <1>1, <2>3, <3>1 DEF TypeOK
    <3>3. NamesStay /\ TextIsInJob'
      BY <3>1, <3>2 DEF NamesStay, Has, Managed, TextIsInJob
    <3> QED
      BY <2>2, <3>3, HarmlessStep DEF StrandsNothing
  <2> QED
    BY <2>4, <2>5
<1> QED
  BY <1>2, <1>3, <1>4, <1>5, <1>6 DEF Deliver

(* A call that returns tells its caller, and nobody else moves.            *)
LEMMA Answered ==
  ASSUME TypeOK, NEW a \in Actors, NEW cleaned, Return(a, cleaned), Still
  PROVE  /\ pc'[a] = "idle" /\ result'[a].cleanup = cleaned /\ result'[a] # NoResult
         /\ \A b \in Actors : b # a => pc'[b] = pc[b]
         /\ UNCHANGED call
<1> DEFINE r == [code |-> IF own[a].code = "OK" /\ cleaned \notin {"OK", "RETAINED"}
                          THEN "CLEANUP_FAILED" ELSE own[a].code,
                 delivered |-> own[a].delivered, linked |-> own[a].linked,
                 cleanup |-> cleaned]
<1>1. own[a].code \in Codes
  BY DEF TypeOK
<1>2. r.code # "none" /\ NoResult.code = "none"
  BY <1>1 DEF Codes, NoResult
<1>3. r # NoResult /\ r.cleanup = cleaned
  BY <1>2
<1>4. result' = [result EXCEPT ![a] = r]
  BY DEF Return
<1> HIDE DEF r
<1> QED
  BY <1>3, <1>4 DEF Return, Goto, Still, TypeOK

(* Who gives up strands nothing but the job it was removing, and not in    *)
(* silence.                                                                *)
LEMMA UnlinkerStops ==
  ASSUME NEW a \in Actors, pc[a] = "unlinking", pc'[a] = "idle",
         \A b \in Actors : b # a => pc'[b] = pc[b],
         UNCHANGED << directory, files, call >>,
         \/ result'[a] # NoResult /\ result'[a].cleanup = "IO_FAILED"
         \/ "crash" \in Faults /\ UNCHANGED result,
         NEW j \in Jobs, ~Stranded(j), Stranded(j)'
  PROVE  \E b \in Actors : Reported(b, j)
<1>1. Has(j, "candidate") /\ ~Managed(j)
  BY DEF Stranded, Has, Managed
<1>2. PICK b \in Actors : pc[b] = "unlinking" /\ Job(b) = j
  BY <1>1 DEF Stranded
<1>3. b = a
  BY <1>2 DEF Stranded, Job
<1> QED
  BY <1>2, <1>3 DEF Reported, Unlinking

LEMMA PreparingStrandsNothing ==
  ASSUME IInv, TextIsInJob, NEW a \in Actors,
         OpenJob(a) \/ Retain(a) \/ RemoveStaging(a) \/ ListJob(a)
  PROVE  StrandsNothing
<1>1. TypeOK
  BY DEF IInv
<1>2. pc[a] # "unlinking" /\ UNCHANGED call /\ \E label : Goto(a, label)
  BY DEF OpenJob, Retain, RemoveStaging, ListJob, Return, Going, Still
<1>3. Harmless(a)
  BY <1>1, <1>2, GoingIsHarmless
<1>4. CASE UNCHANGED << directory, files >>
  BY <1>3, <1>4, SameNames
<1>5. CASE Retain(a) /\ files' = [files EXCEPT ![Job(a)] = @ \cup {"sentinel"}]
  <2>1. UNCHANGED directory /\ \A j \in Jobs : files[j] \subseteq files'[j]
    BY <1>1, <1>5 DEF Retain, TypeOK
  <2>2. \A j \in Jobs : "candidate" \in files'[j] => "candidate" \in files[j]
    BY <1>1, <1>5 DEF TypeOK
  <2>3. NamesStay /\ TextIsInJob'
    BY <2>1, <2>2 DEF NamesStay, Has, Managed, TextIsInJob
  <2> QED
    BY <1>3, <2>3, HarmlessStep DEF StrandsNothing
<1> QED
  BY <1>4, <1>5 DEF OpenJob, Retain, RemoveStaging, ListJob, onDisk

(* Who unlinks is still there after the step, or has told its caller.      *)
LEMMA UnlinkStrandsNothing ==
  ASSUME IInv, TextIsInJob, NEW a \in Actors, NEW n \in Names \cup {Intent}, Unlink(a, n)
  PROVE  StrandsNothing
<1>1. TypeOK
  BY DEF IInv
<1>2. pc[a] = "unlinking" /\ Still /\ UNCHANGED directory
  BY DEF Unlink, UnlinkOr
<1>3. CASE /\ files' = [files EXCEPT ![Job(a)] = @ \ {n}] \/ UNCHANGED files
           /\ UNCHANGED pc
  <2>1. \A j \in Jobs : files'[j] \subseteq files[j]
    BY <1>1, <1>3 DEF TypeOK
  <2>2. TextIsInJob'
    BY <1>2, <2>1 DEF TextIsInJob
  <2>3. ASSUME NEW j \in Jobs, Stranded(j)' PROVE Stranded(j)
    <3>1. Job(a) # j
      BY <1>2, <1>3, <2>3 DEF Stranded, Still, Job
    <3>2. files'[j] = files[j]
      BY <1>1, <1>3, <3>1 DEF TypeOK
    <3> QED
      BY <1>2, <1>3, <2>3, <3>2 DEF Stranded, Has, Managed, Still, Job
  <2> QED
    BY <2>2, <2>3 DEF StrandsNothing
<1>4. CASE Return(a, "IO_FAILED") /\ UNCHANGED files
  <2>1. /\ pc'[a] = "idle" /\ result'[a] # NoResult /\ result'[a].cleanup = "IO_FAILED"
        /\ \A b \in Actors : b # a => pc'[b] = pc[b]
        /\ UNCHANGED call
    BY <1>1, <1>2, <1>4, Answered
  <2>2. TextIsInJob'
    BY <1>2, <1>4 DEF TextIsInJob
  <2> QED
    BY <1>2, <1>4, <2>1, <2>2, UnlinkerStops DEF StrandsNothing
<1> QED
  BY <1>3, <1>4 DEF Unlink, UnlinkOr

LEMMA RemoveDirectoryStrandsNothing ==
  ASSUME IInv, TextIsInJob, NEW a \in Actors, RemoveDirectory(a)
  PROVE  StrandsNothing
<1>1. TypeOK
  BY DEF IInv
<1>2. pc[a] = "unlinking" /\ Still /\ UNCHANGED files /\ Job(a) \in Jobs
  BY BusyCleaner DEF RemoveDirectory, Cleaning
<1>3. CASE /\ directory[Job(a)] = "present" /\ Entries(Job(a)) = {}
           /\ directory' = [directory EXCEPT ![Job(a)] = "gone"] /\ Return(a, "OK")
  <2>1. files[Job(a)] = {}
    BY <1>3 DEF Entries
  <2>2. \A j \in Jobs : j # Job(a) => directory'[j] = directory[j]
    BY <1>1, <1>2, <1>3 DEF TypeOK
  <2>3. TextIsInJob'
    BY <1>2, <2>1, <2>2 DEF TextIsInJob
  <2>4. ASSUME NEW j \in Jobs, Stranded(j)' PROVE Stranded(j)
    <3>1. j # Job(a)
      BY <1>2, <2>1, <2>4 DEF Stranded, Has
    <3>2. Has(j, "candidate") /\ ~Managed(j)
      BY <1>2, <2>2, <2>4, <3>1 DEF Stranded, Has, Managed
    <3>3. UNCHANGED call /\ \A b \in Actors : b # a => pc'[b] = pc[b]
      BY <1>1, <1>2, <1>3, Answered
    <3> QED
      BY <2>4, <3>1, <3>2, <3>3 DEF Stranded, Job
  <2> QED
    BY <2>3, <2>4 DEF StrandsNothing
<1>4. CASE Return(a, "IO_FAILED") /\ UNCHANGED directory
  <2>1. /\ pc'[a] = "idle" /\ result'[a] # NoResult /\ result'[a].cleanup = "IO_FAILED"
        /\ \A b \in Actors : b # a => pc'[b] = pc[b]
        /\ UNCHANGED call
    BY <1>1, <1>2, <1>4, Answered
  <2>2. TextIsInJob'
    BY <1>2, <1>4 DEF TextIsInJob
  <2> QED
    BY <1>2, <1>4, <2>1, <2>2, UnlinkerStops DEF StrandsNothing
<1>5. CASE directory[Job(a)] = "recreated" /\ Return(a, "UNSAFE_PATH") /\ UNCHANGED directory
  <2>1. UNCHANGED call /\ \A b \in Actors : b # a => pc'[b] = pc[b]
    BY <1>1, <1>2, <1>5, Answered
  <2>2. TextIsInJob'
    BY <1>2, <1>5 DEF TextIsInJob
  <2>3. ASSUME NEW j \in Jobs, Stranded(j)' PROVE Stranded(j)
    <3>1. Has(j, "candidate") /\ ~Managed(j)
      BY <1>2, <1>5, <2>3 DEF Stranded, Has, Managed
    <3>2. j # Job(a)
      BY <1>2, <1>5, <3>1 DEF Has, TextIsInJob
    <3> QED
      BY <2>1, <2>3, <3>1, <3>2 DEF Stranded, Job
  <2> QED
    BY <2>2, <2>3 DEF StrandsNothing
<1> QED
  BY <1>3, <1>4, <1>5 DEF RemoveDirectory

LEMMA CrashStrandsNothing ==
  ASSUME IInv, TextIsInJob, NEW a \in Actors, Crash(a)
  PROVE  StrandsNothing
<1>1. /\ "crash" \in Faults /\ UNCHANGED << directory, files, call, result >>
      /\ pc'[a] = "idle" /\ \A b \in Actors : b # a => pc'[b] = pc[b]
  BY DEF Crash, Goto, onDisk, IInv, TypeOK
<1>2. CASE pc[a] = "unlinking"
  <2>1. TextIsInJob'
    BY <1>1 DEF TextIsInJob
  <2> QED
    BY <1>1, <1>2, <2>1, UnlinkerStops DEF StrandsNothing
<1>3. CASE pc[a] # "unlinking"
  <2>1. Harmless(a)
    BY <1>1, <1>3 DEF Harmless
  <2> QED
    BY <1>1, <2>1, SameNames
<1> QED
  BY <1>2, <1>3

LEMMA NextStrandsNothing ==
  ASSUME IInv, TextIsInJob, [Next]_vars
  PROVE  StrandsNothing
<1>1. ASSUME NEW a \in Actors, Clean(a) PROVE StrandsNothing
  BY <1>1, PreparingStrandsNothing, UnlinkStrandsNothing, RemoveDirectoryStrandsNothing DEF Clean
<1>2. ASSUME NEW s \in Sweepers, NEW j \in Jobs, Sweep(s, j) PROVE StrandsNothing
  <2>1. Harmless(s)
    BY <1>2 DEF Sweep, Goto, Harmless, Actors, IInv, TypeOK
  <2> QED
    BY <1>2, <2>1, SameNames DEF Sweep, onDisk
<1>3. ASSUME \/ \E j \in Jobs : Expire(j)
             \/ \E t \in Targets : Intrude(t)
             \/ UNCHANGED vars
      PROVE  StrandsNothing
  <2>1. UNCHANGED << directory, files, pc, call >>
    BY <1>3 DEF Expire, Intrude, vars, onDisk
  <2>2. Harmless(NoActor)
    BY <2>1, ActorsAssumption DEF Harmless
  <2> QED
    BY <2>1, <2>2, SameNames
<1> QED
  BY <1>1, <1>2, <1>3, DeliveryStrandsNothing, CrashStrandsNothing DEF Next

-----------------------------------------------------------------------------
(* The theorems.                                                           *)

LEMMA InitIInv == Init => IInv /\ TruthInv
<1> SUFFICES ASSUME Init PROVE IInv /\ TruthInv
  OBVIOUS
<1>1. Idle \in Owns /\ "idle" \in PCs /\ JobFiles \in SUBSET Names
  BY IdleIsOwn DEF PCs, Names
<1>2. TypeOK
  BY <1>1, CallsAssumption DEF Init, TypeOK, Owns
<1>3. FinalizedIsPublished
  BY DEF Init, FinalizedIsPublished
<1>4. ASSUME NEW p \in Deliverers PROVE DelivererHolds(p) /\ TruthHolds(p)
  <2>1. pc[p] = "idle" /\ result[p] = NoResult
    BY DEF Init, Actors
  <2>2. DelivererIsKnown(p) /\ CopyIsThere(p) /\ JobIsRemoved(p) /\ VerifiedIsPublished(p)
    BY <2>1 DEF DelivererIsKnown, CopyIsThere, JobIsRemoved, VerifiedIsPublished
  <2>3. StagingIsReleased(p) /\ TruthHolds(p)
    BY <2>1 DEF StagingIsReleased, TruthHolds, StagedIsWhole, OutcomeIsTrue, TryBody, Cleaning
  <2> QED
    BY <2>2, <2>3 DEF DelivererHolds
<1>5. ASSUME NEW s \in Sweepers PROVE SweeperIsKnown(s)
  BY DEF Init, Actors, SweeperIsKnown
<1>6. NoPartialOutput
  <2>1. ASSUME NEW j \in Jobs PROVE NoFile # [job |-> j, whole |-> FALSE]
    <3>1. [job |-> j, whole |-> FALSE] \in OutputFiles
      BY DEF OutputFiles
    <3> QED
      BY <3>1, FilesAssumption
  <2> QED
    BY <2>1 DEF Init, NoPartialOutput
<1> QED
  BY <1>2, <1>3, <1>4, <1>5, <1>6 DEF IInv, TruthInv, TruthHolds

(* Every step is a step of somebody, and keeps what it has to.             *)
LEMMA SomebodySteps ==
  ASSUME IInv, [Next]_vars
  PROVE  \/ \E p \in Deliverers : Keeps(p)
         \/ \E a \in Actors : CleanKeeps(a)
         \/ Frame(NoActor) /\ UserStep
<1>1. ASSUME NEW p \in Deliverers, Check(p) \/ Deliver(p) \/ Interrupt(p) PROVE Keeps(p)
  BY <1>1, CheckKeeps, CreateIntentKeeps, FillIntentKeeps, CreateStagingKeeps, FillStagingKeeps,
     OwnStagingKeeps, PublishKeeps, VerifyKeeps, FinalizeKeeps, ReleaseKeeps, InterruptKeeps
     DEF Deliver
<1>2. ASSUME NEW s \in Sweepers, NEW j \in Jobs, Sweep(s, j) PROVE s \in Actors /\ CleanKeeps(s)
  BY <1>2, SweepKeeps DEF Actors
<1>3. ASSUME NEW a \in Actors, Clean(a) \/ Crash(a) PROVE CleanKeeps(a)
  BY <1>3, OpenJobKeeps, RetainKeeps, RemoveStagingKeeps, ListJobKeeps, UnlinkKeeps,
     RemoveDirectoryKeeps, CrashKeeps DEF Clean
<1> QED
  BY <1>1, <1>2, <1>3, OthersKeep DEF Next

LEMMA NextIInv == IInv /\ [Next]_vars => IInv'
<1> SUFFICES ASSUME IInv, [Next]_vars PROVE IInv'
  OBVIOUS
<1>1. ASSUME NEW p \in Deliverers, Keeps(p) PROVE IInv'
  <2>1. p \notin Sweepers
    BY ActorsAssumption
  <2> QED
    BY <1>1, <2>1, FrameKeepsIInv DEF Keeps
<1>2. ASSUME NEW a \in Actors, CleanKeeps(a) PROVE IInv'
  BY <1>2, FrameKeepsIInv DEF CleanKeeps
<1>3. ASSUME Frame(NoActor) PROVE IInv'
  BY <1>3, FrameKeepsIInv, ActorsAssumption DEF Actors
<1> QED
  BY <1>1, <1>2, <1>3, SomebodySteps

(* When nobody else delivers one's jobs, no step shows the user's folder   *)
(* anything but a complete file under a free name.                         *)
LEMMA NextTruth ==
  ASSUME ExclusiveJobs, IInv, TruthInv, [Next]_vars
  PROVE  TruthInv' /\ UserStep
<1>1. ASSUME NEW p \in Deliverers, Keeps(p) PROVE TruthInv' /\ UserStep
  BY <1>1, FrameKeepsTruth DEF Keeps
<1>2. ASSUME NEW a \in Actors, CleanKeeps(a) PROVE TruthInv' /\ UserStep
  BY <1>2, FrameKeepsTruth DEF CleanKeeps
<1>3. ASSUME Frame(NoActor), UserStep PROVE TruthInv'
  BY <1>3, FrameKeepsTruth, ActorsAssumption DEF Actors
<1> QED
  BY <1>1, <1>2, <1>3, SomebodySteps

(* The invariant the promises rest on holds of every behaviour.            *)
THEOREM Invariance == Spec => []IInv
BY InitIInv, NextIInv, PTL DEF Spec

(* Every variable keeps its type: the directories, the user's folder, and  *)
(* the locals and results of every caller.                                 *)
THEOREM TypeCorrect == Spec => []TypeOK
<1>1. IInv => TypeOK
  BY DEF IInv
<1> QED
  BY <1>1, Invariance, PTL

(* A ledger says finalized only when the job's bytes stand in the user's   *)
(* folder, whoever else delivers or sweeps the job and whatever fails.     *)
THEOREM FinalizedAlwaysPublished == Spec => []FinalizedIsPublished
<1>1. IInv => FinalizedIsPublished
  BY DEF IInv
<1> QED
  BY <1>1, Invariance, PTL

(* A call that reports success has left no staging file of its own and     *)
(* no job it was not told to keep: neither can come back later.            *)
THEOREM SuccessAlwaysClean == Spec => []SuccessIsClean
<1>1. IInv => SuccessIsClean
  BY DEF IInv, DelivererHolds, StagingIsReleased, JobIsRemoved, SuccessIsClean
<1> QED
  BY <1>1, Invariance, PTL

(* A foreign file and a complete one are never replaced or removed, also   *)
(* when several processes deliver the same job to the same names.          *)
THEOREM NothingIsEverReplaced ==
  Spec => [][\A t \in Targets :
                output[t] = Foreign \/ (\E j \in Jobs : output[t] = Complete(j))
                    => output'[t] = output[t]]_vars
<1>1. IInv /\ [Next]_vars =>
        [\A t \in Targets :
            output[t] = Foreign \/ (\E j \in Jobs : output[t] = Complete(j))
                => output'[t] = output[t]]_vars
  <2> SUFFICES ASSUME IInv, [Next]_vars, NEW t \in Targets
               PROVE  /\ output[t] = Foreign => output'[t] = Foreign
                      /\ \A j \in Jobs : output[t] = Complete(j) => output'[t] = Complete(j)
    OBVIOUS
  <2>1. Monotone
    BY SomebodySteps DEF Keeps, CleanKeeps, Frame
  <2> QED
    BY <2>1 DEF Monotone
<1> QED
  BY <1>1, Invariance, PTL DEF Spec

(* When each job has one deliverer, outcomes and outputs are true.         *)
THEOREM Truth ==
  ASSUME ExclusiveJobs
  PROVE  Spec => [](IInv /\ TruthInv)
<1>1. IInv /\ TruthInv /\ [Next]_vars => (IInv /\ TruthInv)'
  BY NextIInv, NextTruth
<1>2. Init => IInv /\ TruthInv
  BY InitIInv
<1> QED
  BY <1>1, <1>2, PTL DEF Spec

(* No output ever shows a part of a candidate's bytes.                     *)
THEOREM OutputsAlwaysWhole ==
  ASSUME ExclusiveJobs
  PROVE  Spec => []OutputsAreWhole
<1>1. TruthInv => OutputsAreWhole
  BY DEF TruthInv, NoPartialOutput, OutputsAreWhole
<1> QED
  BY <1>1, Truth, PTL

(* The delivered flag a caller gets is true to the disk, also after a      *)
(* failed verification, an i/o error or a cancellation.                    *)
THEOREM ResultAlwaysTruthful ==
  ASSUME ExclusiveJobs
  PROVE  Spec => []ResultIsTruthful
<1>1. IInv /\ TruthInv => ResultIsTruthful
  BY DEF TruthInv, OutcomeIsTrue, ResultIsTruthful
<1> QED
  BY <1>1, Truth, PTL

(* Delivery implements Publication: the user's folder sees complete files  *)
(* appear once under free names, and nothing else.                         *)
THEOREM DeliveryImplementsPublication ==
  ASSUME ExclusiveJobs
  PROVE  Spec => ImplementsPublication
<1>1. Init => User!Init
  BY DEF Init, User!Init
<1>2. IInv /\ TruthInv /\ [Next]_vars => [User!Next]_output
  <2> SUFFICES ASSUME IInv, TruthInv, [Next]_vars PROVE [User!Next]_output
    OBVIOUS
  <2>1. UserStep
    BY NextTruth
  <2> QED
    BY <2>1 DEF UserStep, User!Next, User!Appear, User!Complete, Complete
<1> QED
  BY <1>1, <1>2, Truth, PTL DEF Spec, ImplementsPublication, User!Spec

(* Text that no sweep finds any more was left by the step of one who was   *)
(* removing it, and who died or told its caller so: on posix and on nt,    *)
(* however many deliveries and sweeps of the job meet, fail or are         *)
(* cancelled.                                                              *)
THEOREM StrandedAlwaysReported == Spec => StrandedIsReported
<1>1. Init => TextIsInJob
  BY DEF Init, TextIsInJob
<1>2. IInv /\ TextIsInJob /\ [Next]_vars => TextIsInJob'
  BY NextStrandsNothing DEF StrandsNothing
<1>3. IInv /\ TextIsInJob /\ [Next]_vars =>
        [\A j \in Jobs : ~Stranded(j) /\ Stranded(j)' =>
            \E a \in Actors :
               /\ pc[a] = "unlinking" /\ Job(a) = j /\ pc'[a] = "idle"
               /\ \/ result'[a] # NoResult /\ result'[a].cleanup = "IO_FAILED"
                  \/ "crash" \in Faults /\ UNCHANGED result]_vars
  BY NextStrandsNothing DEF StrandsNothing, Reported, Unlinking
<1> QED
  BY <1>1, <1>2, <1>3, Invariance, PTL DEF Spec, StrandedIsReported
=============================================================================

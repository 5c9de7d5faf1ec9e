------------------------- MODULE FinishOrchestration -------------------------
(***************************************************************************)
(* The two production commands over one job id: prepare_managed_job builds *)
(* the extracted checkpoint, finish_managed_job completes it in a fresh    *)
(* attempt directory and then removes or retains both.  Each command is a  *)
(* sequence of steps between which it can crash, be cancelled or meet      *)
(* another command.                                                        *)
(*                                                                         *)
(* A cleanup is one step here and its system calls are in ManagedDelivery; *)
(* a commit of a stage is one step and its compare-and-swap is in          *)
(* JobLedger.  What the pipeline computes is abstracted to whether a stage *)
(* accepts its input, and a retention period to whether it has ended.      *)
(***************************************************************************)
EXTENDS Naturals

CONSTANTS
    Checkpoint,    \* the directory of the prepared job
    Finishers,     \* processes that run scripts/finish_job.py
    Preparers,     \* processes that run scripts/prepare_job.py
    Sweepers,      \* processes that run sweep_expired_jobs
    Outputs,       \* output paths the user may ask for
    MaxFinishes,   \* how many times a finisher runs the command at most
    MaxPrepares,   \* how many times each preparer runs the command
    Settings,      \* in what circumstances the commands run: see setting
    NoFile,        \* no output file of that name
    Foreign        \* an output file that is not ours

Actors == Finishers \cup Preparers \cup Sweepers

(* Every run of the command makes a directory attempt-<uuid> of its own.   *)
Attempts == Finishers \X (1 .. MaxFinishes)
Dirs == {Checkpoint} \cup Attempts

ASSUME SettingsAssumption ==
    Settings \subseteq [overlap : BOOLEAN, debug : SUBSET BOOLEAN, outputs : SUBSET Outputs,
                       finishes : [Finishers -> 0 .. MaxFinishes],
                       faults : SUBSET {"crash", "io", "interrupt"}]
ASSUME RunsAssumption == MaxFinishes \in Nat /\ MaxPrepares \in Nat
ASSUME CheckpointAssumption == Checkpoint \notin Attempts
ASSUME FilesAssumption == NoFile \notin Attempts
ASSUME ActorsAssumption == /\ Finishers \cap Preparers = {} /\ Finishers \cap Sweepers = {}
                           /\ Preparers \cap Sweepers = {}

(* The stages of a ledger by their index in JobLedger's JobStage; 0 is a   *)
(* directory without a ledger.                                             *)
INITIALIZED == 1
EXTRACTED == 3
VALIDATED == 9
FINALIZED == 10

VARIABLES
    setting,       \* whether a command may start while another runs, whether
                   \* --retain-debug may be given, the outputs that may be asked
                   \* for, how often finish is run, and which faults may happen
    dir,           \* "absent", "bare" (never had a valid sentinel), "managed",
                   \* or "torn": a removal broke off after the sentinel
    text,          \* the artifacts with paper text in a directory
    stage,         \* the stage its ledger records
    expired,       \* whether its sentinel's retention period has ended
    output,        \* per output path, the attempt whose PDF stands there
    pc,            \* where each command is
    call,          \* the locals of each command
    runs,          \* how often each command has been run
    result         \* what each command's last run reported

(* What a preparation leaves: what its workers made of the PDF, and the    *)
(* source and units made of that.  An attempt adds its own.                *)
Prepared == {"extraction", "units"}
Artifacts == Prepared \cup {"translation"}

onDisk == << dir, text, stage, expired, output >>
vars == << setting, onDisk, pc, call, runs, result >>

Overlap == setting.overlap
Faults == setting.faults

NoResult == [code |-> "none"]

IO == "io" \in Faults

(* What breaks a step of a preparation off: an error or a cancellation.    *)
Broken == IO \/ "interrupt" \in Faults

Init ==
    /\ setting \in Settings
    /\ dir = [d \in Dirs |-> "absent"]
    /\ text = [d \in Dirs |-> {}]
    /\ stage = [d \in Dirs |-> 0]
    /\ expired = [d \in Dirs |-> FALSE]
    /\ output \in [setting.outputs -> {NoFile, Foreign}]
    /\ pc = [a \in Actors |-> "idle"]
    /\ call = [a \in Actors |-> NoResult]
    /\ runs = [a \in Actors |-> 0]
    /\ result = [a \in Actors |-> NoResult]

Goto(a, label) == pc' = [pc EXCEPT ![a] = label]

(* A command that raises keeps the error for its handlers.                 *)
Raise(a, label, code) == /\ Goto(a, label)
                         /\ call' = [call EXCEPT ![a].code = code]

Report(a, r) == /\ Goto(a, "idle")
                /\ result' = [result EXCEPT ![a] = r]
                /\ UNCHANGED << call, runs >>

MayStart(a) == /\ pc[a] = "idle"
               /\ Overlap \/ \A b \in Finishers \cup Preparers : pc[b] = "idle"
-----------------------------------------------------------------------------
(* Effects on a directory.                                                 *)

(* A writer makes the directory where it is missing, without a sentinel.   *)
WriteText(d, artifacts) ==
    /\ dir' = [dir EXCEPT ![d] = IF @ = "absent" THEN "bare" ELSE @]
    /\ text' = [text EXCEPT ![d] = @ \cup artifacts]

Remove(d) ==
    /\ dir' = [dir EXCEPT ![d] = "absent"]
    /\ text' = [text EXCEPT ![d] = {}]
    /\ stage' = [stage EXCEPT ![d] = 0]
    /\ UNCHANGED expired

Retain(d) == /\ expired' = [expired EXCEPT ![d] = FALSE]
             /\ UNCHANGED << dir, text, stage >>

(* cleanup_after_job: CLEANUP_OK or CLEANUP_RETAINED.                      *)
CleanupSucceeds(d, keep) ==
    /\ dir[d] = "managed"
    /\ IF keep THEN Retain(d) ELSE Remove(d)

(* Any other code: out of scope, or stopped by an I/O error or by a file   *)
(* that another command has open, maybe with the sentinel already gone.    *)
CleanupFails(d, keep) ==
    \/ /\ dir[d] # "managed" \/ IO \/ Overlap
       /\ UNCHANGED << dir, text, stage, expired >>
    \/ /\ dir[d] = "managed" /\ ~keep
       /\ IO \/ Overlap
       /\ dir' = [dir EXCEPT ![d] = "torn"]
       /\ UNCHANGED << text, stage, expired >>
-----------------------------------------------------------------------------
(* prepare_managed_job.                                                    *)

BeginPrepare(p) ==
    /\ MayStart(p)
    /\ runs[p] < MaxPrepares
    /\ runs' = [runs EXCEPT ![p] = @ + 1]
    /\ result' = [result EXCEPT ![p] = NoResult]
    /\ IF dir[Checkpoint] = "absent"
       THEN /\ dir' = [dir EXCEPT ![Checkpoint] = "bare"]
            /\ call' = [call EXCEPT ![p] = [code |-> "OK", at |-> 0]]
            /\ Goto(p, "marking")
       ELSE /\ call' = [call EXCEPT ![p] = [code |-> "JOB_EXISTS", at |-> 0]]
            /\ Goto(p, "rejected")
            /\ UNCHANGED dir
    /\ UNCHANGED << text, stage, expired, output >>

(* The sentinel, or the rollback of a creation that fails: it removes the  *)
(* directory only while nothing but the sentinel is in it.                 *)
MarkCheckpoint(p) ==
    /\ pc[p] = "marking"
    /\ \/ /\ dir[Checkpoint] = "bare"
          /\ dir' = [dir EXCEPT ![Checkpoint] = "managed"]
          /\ expired' = [expired EXCEPT ![Checkpoint] = FALSE]
          /\ Goto(p, "extracting")
          /\ UNCHANGED call
       \/ /\ Broken
          /\ dir' = [dir EXCEPT ![Checkpoint] =
                        IF text[Checkpoint] = {} /\ stage[Checkpoint] = 0 THEN "absent" ELSE @]
          /\ Raise(p, "rejected", "JOB_CREATE_FAILED")
          /\ UNCHANGED expired
    /\ UNCHANGED << text, stage, output, runs, result >>

(* Preflight, normalization and extraction in their workers, each writing  *)
(* what the next reads, then all of it read back.  Every write makes the   *)
(* directory where it is gone; gone between two workers, it is made again  *)
(* by a preparation that fails.                                            *)
Extract(p) ==
    /\ pc[p] = "extracting"
    /\ \/ /\ "extraction" \notin text[Checkpoint]
          /\ WriteText(Checkpoint, {"extraction"})
          /\ Goto(p, "committing")
          /\ UNCHANGED call
       \/ /\ WriteText(Checkpoint, {"extraction"}) \/ UNCHANGED << dir, text >>
          /\ Raise(p, "unpreparing", "PREPARE_FAILED")
    /\ UNCHANGED << stage, expired, output, runs, result >>

(* The topology and the units, which may ask for a review, are made of     *)
(* what was read back and written whatever has become of it.               *)
CommitText(p) ==
    /\ pc[p] = "committing"
    /\ \/ /\ "units" \notin text[Checkpoint]
          /\ WriteText(Checkpoint, {"units"})
          /\ Goto(p, "freezing")
          /\ UNCHANGED call
       \/ /\ "units" \in text[Checkpoint] \/ Broken
          /\ WriteText(Checkpoint, {"units"}) \/ UNCHANGED << dir, text >>
          /\ Raise(p, "unpreparing", "PREPARE_FAILED")
       \/ /\ Raise(p, "unpreparing", "NEEDS_TOPOLOGY_REVIEW")
          /\ UNCHANGED << dir, text >>
    /\ UNCHANGED << stage, expired, output, runs, result >>

(* _freeze_extracted_state: one commit per stage, each expecting the last. *)
Freeze(p) ==
    /\ pc[p] = "freezing"
    /\ \/ /\ stage[Checkpoint] = call[p].at
          /\ dir' = [dir EXCEPT ![Checkpoint] = IF @ = "absent" THEN "bare" ELSE @]
          /\ stage' = [stage EXCEPT ![Checkpoint] = @ + 1]
          /\ call' = [call EXCEPT ![p].at = @ + 1]
          /\ Goto(p, IF call[p].at + 1 = EXTRACTED THEN "prepared" ELSE "freezing")
       \/ /\ stage[Checkpoint] # call[p].at \/ Broken
          /\ Raise(p, "unpreparing", "PREPARE_FAILED")
          /\ UNCHANGED << dir, stage >>
    /\ UNCHANGED << text, expired, output, runs, result >>

FinishPrepare(p) ==
    /\ pc[p] \in {"prepared", "rejected"}
    /\ Report(p, [code |-> call[p].code])
    /\ UNCHANGED onDisk

(* A preparation that failed removes what it created.                      *)
CleanPreparation(p) ==
    /\ pc[p] = "unpreparing"
    /\ \/ /\ CleanupSucceeds(Checkpoint, FALSE)
          /\ Report(p, [code |-> call[p].code])
       \/ /\ CleanupFails(Checkpoint, FALSE)
          /\ Report(p, [code |-> "PREPARE_CLEANUP_FAILED"])
    /\ UNCHANGED output

Prepare(p) ==
    \/ BeginPrepare(p) \/ MarkCheckpoint(p) \/ Extract(p) \/ CommitText(p)
    \/ Freeze(p) \/ FinishPrepare(p) \/ CleanPreparation(p)
-----------------------------------------------------------------------------
(* finish_managed_job: the checkpoint and the attempt.                     *)

Attempt(f) == << f, runs[f] >>

Recoverable == {"TRANSLATION_INVALID", "REVIEW_REQUIRED", "SEMANTIC_CANDIDATES_INVALID",
                "FINALIZATION_FAILED", "OVERLAY_PLAN_FAILED", "RENDER_FAILED",
                "QA_FAILED", "OUTPUT_EXISTS"}

(* recovery_action: what the user is told to repair before trying again.   *)
RecoveryAction(code) == IF code \in Recoverable THEN "repair" ELSE "none"

(* Why each stage refuses the attempt, besides an error of its commit.     *)
Refusals(s) ==
    CASE s = 3 -> {"TRANSLATION_INVALID", "AGENT_INPUT_UNSAFE"}
      [] s = 4 -> {"REVIEW_REQUIRED"}
      [] s = 5 -> {"SEMANTIC_CANDIDATES_INVALID", "FINALIZATION_FAILED"}
      [] s = 6 -> {}
      [] s = 7 -> {"OVERLAY_PLAN_FAILED", "RENDER_FAILED"}
      [] s = 8 -> {"QA_FAILED"}

(* Extraction still bound by the ledger, as the reads of a verified rerun  *)
(* and the copies find it.                                                 *)
Bound(d) == stage[d] = EXTRACTED /\ Prepared \subseteq text[d]

FinishWith(f, code, action) ==
    Report(f, [code |-> code, action |-> action, target |-> call[f].target,
               attempt |-> Attempt(f), debug |-> call[f].debug])

BeginFinish(f) ==
    /\ MayStart(f)
    /\ runs[f] < setting.finishes[f]
    /\ runs' = [runs EXCEPT ![f] = @ + 1]
    /\ \E t \in setting.outputs, debug \in setting.debug :
         call' = [call EXCEPT ![f] = [target |-> t, debug |-> debug, at |-> EXTRACTED,
                                      code |-> "OK", attempt |-> FALSE]]
    /\ Goto(f, "scoping")
    /\ result' = [result EXCEPT ![f] = NoResult]
    /\ UNCHANGED onDisk

(* A job out of scope is nothing that may be cleaned up.                   *)
ResolveCheckpoint(f) ==
    /\ pc[f] = "scoping"
    /\ \/ /\ dir[Checkpoint] = "managed"
          /\ Goto(f, "loading")
          /\ UNCHANGED << call, runs, result >>
       \/ /\ dir[Checkpoint] # "managed" \/ IO
          /\ FinishWith(f, "CHECKPOINT_INVALID", "none")
       \/ /\ "interrupt" \in Faults
          /\ FinishWith(f, "FINISH_CANCELLED", "none")
    /\ UNCHANGED onDisk

Load(f) ==
    /\ pc[f] = "loading"
    /\ \/ /\ stage[Checkpoint] = EXTRACTED
          /\ Goto(f, "verifying")
          /\ UNCHANGED call
       \/ /\ stage[Checkpoint] # EXTRACTED
          /\ Raise(f, "cleaning", "JOB_NOT_EXTRACTED")
       \/ /\ stage[Checkpoint] = EXTRACTED
          /\ Raise(f, "cleaning", "AGENT_INPUT_INVALID")
    /\ UNCHANGED << onDisk, runs, result >>

(* create_finish_attempt verifies the checkpoint, then makes a directory   *)
(* and writes its sentinel.                                                *)
MakeAttempt(f) ==
    /\ pc[f] = "verifying"
    /\ \/ /\ Bound(Checkpoint)
          /\ dir' = [dir EXCEPT ![Attempt(f)] = "bare"]
          /\ Goto(f, "marking")
          /\ UNCHANGED call
       \/ /\ ~Bound(Checkpoint) \/ IO
          /\ Raise(f, "cleaning", "CHECKPOINT_INVALID")
          /\ UNCHANGED dir
    /\ UNCHANGED << text, stage, expired, output, runs, result >>

(* Fault: the attempt is a directory without a sentinel.                   *)
MarkAttemptPlain(f) ==
    /\ pc[f] = "marking"
    /\ Goto(f, "copying")
    /\ UNCHANGED << onDisk, call, runs, result >>

MarkAttempt(f) ==
    /\ pc[f] = "marking"
    /\ \/ /\ dir' = [dir EXCEPT ![Attempt(f)] = "managed"]
          /\ Goto(f, "copying")
          /\ UNCHANGED call
       \/ /\ dir' = [dir EXCEPT ![Attempt(f)] = "absent"]
          /\ \/ IO /\ Raise(f, "cleaning", "CHECKPOINT_INVALID")
             \/ "interrupt" \in Faults /\ Raise(f, "cleaning", "FINISH_CANCELLED")
    /\ UNCHANGED << text, stage, expired, output, runs, result >>

(* The verified bytes are copied one file after the other; each must still *)
(* be what the ledger named.                                               *)
CopyCheckpoint(f) ==
    /\ pc[f] = "copying"
    /\ \/ /\ Prepared \subseteq text[Checkpoint]
          /\ WriteText(Attempt(f), Prepared)
          /\ Goto(f, "opening")
          /\ UNCHANGED call
       \/ /\ ~(Prepared \subseteq text[Checkpoint]) \/ IO
          /\ WriteText(Attempt(f), {"extraction"}) \/ UNCHANGED << dir, text >>
          /\ Raise(f, "abandoning", "CHECKPOINT_INVALID")
    /\ UNCHANGED << stage, expired, output, runs, result >>

(* The attempt's ledger is opened; only now does the caller know of it.    *)
OpenLedger(f) ==
    /\ pc[f] = "opening"
    /\ \/ /\ dir' = [dir EXCEPT ![Attempt(f)] = IF @ = "absent" THEN "bare" ELSE @]
          /\ stage' = [stage EXCEPT ![Attempt(f)] = EXTRACTED]
          /\ call' = [call EXCEPT ![f].attempt = TRUE]
          /\ Goto(f, "resolving")
       \/ /\ IO
          /\ Raise(f, "abandoning", "CHECKPOINT_INVALID")
          /\ UNCHANGED << dir, stage >>
    /\ UNCHANGED << text, expired, output, runs, result >>

(* create_finish_attempt cleans up after itself and ignores the outcome.   *)
Abandon(f) ==
    /\ pc[f] = "abandoning"
    /\ CleanupSucceeds(Attempt(f), FALSE) \/ CleanupFails(Attempt(f), FALSE)
    /\ Goto(f, "cleaning")
    /\ UNCHANGED << output, call, runs, result >>
-----------------------------------------------------------------------------
(* _finish_attempt.                                                        *)

ResolveAttempt(f) ==
    /\ pc[f] = "resolving"
    /\ IF dir[Attempt(f)] = "managed"
       THEN Goto(f, "finishing") /\ UNCHANGED call
       ELSE Raise(f, "cleaning", "JOB_SCOPE_INVALID")
    /\ UNCHANGED << onDisk, runs, result >>

(* One stage: its input is read, checked and computed, its artifacts are   *)
(* written and its commit made; or one of these refuses.                   *)
AdvanceAttempt(f) ==
    LET d == Attempt(f)
        s == call[f].at
    IN /\ pc[f] = "finishing"
       /\ s < VALIDATED
       /\ \/ /\ stage[d] = s
             /\ stage' = [stage EXCEPT ![d] = s + 1]
             /\ WriteText(d, {"translation"})
             /\ call' = [call EXCEPT ![f].at = s + 1]
             /\ UNCHANGED pc
          \/ /\ stage[d] # s \/ IO
             /\ WriteText(d, {"translation"})
             /\ Raise(f, "disposing", "STATE_CAS_FAILED")
             /\ UNCHANGED stage
          \/ /\ \E code \in Refusals(s) : Raise(f, "disposing", code)
             /\ UNCHANGED << dir, text, stage >>
       /\ UNCHANGED << expired, output, runs, result >>

(* _cleanup_before_delivery: if it fails its code takes over.              *)
Dispose(f) ==
    /\ pc[f] = "disposing"
    /\ \/ /\ CleanupSucceeds(Attempt(f), call[f].debug)
          /\ Goto(f, "cleaning")
          /\ UNCHANGED call
       \/ /\ CleanupFails(Attempt(f), call[f].debug)
          /\ Raise(f, "cleaning", "CLEANUP_FAILED")
    /\ UNCHANGED << output, runs, result >>

(* deliver_validated_pdf, up to the moment the file is published.          *)
Publish(f) ==
    /\ pc[f] = "finishing"
    /\ call[f].at = VALIDATED
    /\ \/ /\ stage[Attempt(f)] = VALIDATED /\ dir[Attempt(f)] = "managed"
          /\ output[call[f].target] = NoFile
          /\ output' = [output EXCEPT ![call[f].target] = Attempt(f)]
          /\ Goto(f, "published")
          /\ UNCHANGED call
       \/ /\ output[call[f].target] # NoFile
          /\ Raise(f, "delivered", "OUTPUT_EXISTS")
          /\ UNCHANGED output
       \/ /\ stage[Attempt(f)] # VALIDATED \/ dir[Attempt(f)] # "managed" \/ IO
          /\ Raise(f, "delivered", "DELIVERY_STAGE_FAILED")
          /\ UNCHANGED output
    /\ UNCHANGED << dir, text, stage, expired, runs, result >>

Finalize(f) ==
    /\ pc[f] = "published"
    /\ \/ /\ stage[Attempt(f)] = VALIDATED
          /\ stage' = [stage EXCEPT ![Attempt(f)] = FINALIZED]
          /\ Goto(f, "delivered")
          /\ UNCHANGED << dir, call >>
       \/ /\ stage[Attempt(f)] # VALIDATED \/ IO
          /\ dir' = [dir EXCEPT ![Attempt(f)] = IF @ = "absent" THEN "bare" ELSE @]
          /\ Raise(f, "delivered", "DELIVERY_STATE_FAILED")
          /\ UNCHANGED stage
    /\ UNCHANGED << text, expired, output, runs, result >>

(* The delivery cleans the attempt up on every path, and a delivery that   *)
(* succeeded but for that reports CLEANUP_FAILED.                          *)
CleanDelivery(f) ==
    /\ pc[f] = "delivered"
    /\ \/ /\ CleanupSucceeds(Attempt(f), call[f].debug)
          /\ Goto(f, "cleaning")
          /\ UNCHANGED call
       \/ /\ CleanupFails(Attempt(f), call[f].debug)
          /\ Raise(f, "cleaning", IF call[f].code = "OK" THEN "CLEANUP_FAILED"
                                                         ELSE call[f].code)
    /\ UNCHANGED << output, runs, result >>
-----------------------------------------------------------------------------
(* finish_managed_job: removing or retaining what it worked on.            *)

(* clean passes over a directory that does not exist.                      *)
Clean(d, keep) ==
    IF dir[d] = "absent" THEN UNCHANGED << dir, text, stage, expired >>
                         ELSE CleanupSucceeds(d, keep)

CleanRaises(d, keep) == dir[d] # "absent" /\ CleanupFails(d, keep)

(* Fault: a cleanup of the attempt that fails is passed over.              *)
CleanAttemptQuietly(f) ==
    /\ pc[f] = "cleaning"
    /\ call[f].code # "OK"
    /\ \/ ~call[f].attempt /\ UNCHANGED << dir, text, stage, expired >>
       \/ call[f].attempt /\ Clean(Attempt(f), call[f].debug)
       \/ call[f].attempt /\ CleanRaises(Attempt(f), call[f].debug)
    /\ Goto(f, "parting")
    /\ UNCHANGED << output, call, runs, result >>

(* After a failure the attempt goes first, if the caller ever knew of one; *)
(* when that fails the checkpoint is left as it is.                        *)
CleanAttempt(f) ==
    /\ pc[f] = "cleaning"
    /\ call[f].code # "OK"
    /\ \/ /\ IF call[f].attempt THEN Clean(Attempt(f), call[f].debug)
                                ELSE UNCHANGED << dir, text, stage, expired >>
          /\ Goto(f, "parting")
          /\ UNCHANGED << call, runs, result >>
       \/ /\ call[f].attempt /\ CleanRaises(Attempt(f), call[f].debug)
          /\ FinishWith(f, "CLEANUP_FAILED", "none")
    /\ UNCHANGED output

(* Fault: a failure that can be repaired removes the checkpoint too.       *)
CleanCheckpointAlways(f) ==
    LET code == call[f].code
        action == RecoveryAction(code)
        keep == call[f].debug
    IN /\ pc[f] = "parting"
       /\ \/ /\ Clean(Checkpoint, keep)
             /\ FinishWith(f, code, action)
          \/ /\ CleanRaises(Checkpoint, keep)
             /\ FinishWith(f, "CLEANUP_FAILED", "none")
       /\ UNCHANGED output

(* The checkpoint is retained for a repair that the code allows for, and   *)
(* removed otherwise.                                                      *)
CleanCheckpoint(f) ==
    LET code == call[f].code
        action == RecoveryAction(code)
        keep == call[f].debug \/ action # "none"
    IN /\ pc[f] = "parting"
       /\ \/ /\ Clean(Checkpoint, keep)
             /\ FinishWith(f, code, action)
          \/ /\ CleanRaises(Checkpoint, keep)
             /\ FinishWith(f, "CLEANUP_FAILED", "none")
       /\ UNCHANGED output

(* Fault: a success that finds the checkpoint gone or stuck is a success.  *)
SucceedAnyway(f) ==
    /\ pc[f] = "cleaning"
    /\ call[f].code = "OK"
    /\ Clean(Checkpoint, call[f].debug) \/ CleanRaises(Checkpoint, call[f].debug)
    /\ FinishWith(f, "FINISH_OK", "none")
    /\ UNCHANGED output

(* A success has already cleaned its attempt up.                           *)
Succeed(f) ==
    /\ pc[f] = "cleaning"
    /\ call[f].code = "OK"
    /\ \/ /\ Clean(Checkpoint, call[f].debug)
          /\ FinishWith(f, "FINISH_OK", "none")
       \/ /\ CleanRaises(Checkpoint, call[f].debug)
          /\ FinishWith(f, "CLEANUP_FAILED", "none")
    /\ UNCHANGED output

(* A cancellation: create_finish_attempt abandons its directory, a running *)
(* attempt is disposed of, a delivery turns it into a code of its own.     *)
Interrupt(f) ==
    /\ "interrupt" \in Faults
    /\ \/ pc[f] \in {"loading", "verifying"} /\ Raise(f, "cleaning", "FINISH_CANCELLED")
       \/ pc[f] \in {"copying", "opening"} /\ Raise(f, "abandoning", "FINISH_CANCELLED")
       \/ pc[f] = "resolving" /\ Raise(f, "cleaning", "FINISH_CANCELLED")
       \/ pc[f] = "finishing" /\ call[f].at < VALIDATED
          /\ Raise(f, "disposing", "FINISH_CANCELLED")
       \/ pc[f] \in {"finishing", "published"} /\ call[f].at = VALIDATED
          /\ Raise(f, "delivered", "DELIVERY_CANCELLED")
    /\ UNCHANGED << onDisk, runs, result >>

Finish(f) ==
    \/ BeginFinish(f) \/ ResolveCheckpoint(f) \/ Load(f) \/ MakeAttempt(f) \/ MarkAttempt(f)
    \/ CopyCheckpoint(f) \/ OpenLedger(f) \/ Abandon(f) \/ ResolveAttempt(f)
    \/ AdvanceAttempt(f) \/ Dispose(f) \/ Publish(f) \/ Finalize(f)
    \/ CleanDelivery(f) \/ CleanAttempt(f) \/ CleanCheckpoint(f) \/ Succeed(f)
    \/ Interrupt(f)
-----------------------------------------------------------------------------
(* sweep_expired_jobs reads the expiry and then cleans up.                 *)
Find(s, d) ==
    /\ Overlap /\ pc[s] = "idle"
    /\ dir[d] = "managed" /\ expired[d]
    /\ call' = [call EXCEPT ![s] = [job |-> d]]
    /\ Goto(s, "sweeping")
    /\ UNCHANGED << onDisk, runs, result >>

Sweep(s) ==
    /\ pc[s] = "sweeping"
    /\ CleanupSucceeds(call[s].job, FALSE) \/ CleanupFails(call[s].job, FALSE)
    /\ Goto(s, "idle")
    /\ UNCHANGED << output, call, runs, result >>

Crash(a) ==
    /\ "crash" \in Faults
    /\ pc[a] # "idle"
    /\ Goto(a, "idle")
    /\ UNCHANGED << onDisk, call, runs, result >>

(* A period of retention ends.  A directory is first given the longest     *)
(* one, 24 hours, and no command takes that long over what it creates; the *)
(* checkpoint of a finish may be at the end of a shorter one.              *)
BeingMade(d) ==
    \/ d = Checkpoint /\ \E p \in Preparers : pc[p] # "idle"
    \/ \E f \in Finishers : d = Attempt(f) /\ pc[f] # "idle"

Expire(d) ==
    /\ dir[d] = "managed" /\ ~expired[d] /\ ~BeingMade(d)
    /\ expired' = [expired EXCEPT ![d] = TRUE]
    /\ UNCHANGED << dir, text, stage, output, pc, call, runs, result >>

Next ==
    /\ \/ \E p \in Preparers : Prepare(p)
       \/ \E f \in Finishers : Finish(f)
       \/ \E s \in Sweepers : Sweep(s) \/ \E d \in Dirs : Find(s, d)
       \/ \E a \in Actors : Crash(a)
       \/ \E d \in Dirs : Expire(d)
    /\ UNCHANGED setting

Spec == Init /\ [][Next]_vars
-----------------------------------------------------------------------------
Working == {"resolving", "finishing", "disposing", "published", "delivered"}

Labels == Working \cup
    {"idle", "marking", "extracting", "committing", "freezing", "unpreparing", "prepared",
     "rejected", "scoping", "loading", "verifying", "copying", "opening", "abandoning",
     "cleaning", "parting", "sweeping"}

PrepareCodes == {"OK", "JOB_EXISTS", "JOB_CREATE_FAILED", "NEEDS_TOPOLOGY_REVIEW",
                 "PREPARE_FAILED", "PREPARE_CLEANUP_FAILED"}

FinishCodes == Recoverable \cup
    {"OK", "CHECKPOINT_INVALID", "JOB_NOT_EXTRACTED", "AGENT_INPUT_INVALID",
     "AGENT_INPUT_UNSAFE", "JOB_SCOPE_INVALID", "STATE_CAS_FAILED", "DELIVERY_STAGE_FAILED",
     "DELIVERY_STATE_FAILED", "DELIVERY_CANCELLED", "FINISH_CANCELLED", "CLEANUP_FAILED"}

PrepareCalls == [code : PrepareCodes, at : 0 .. EXTRACTED]
FinishCalls == [target : setting.outputs, debug : BOOLEAN, at : EXTRACTED .. VALIDATED,
                code : FinishCodes, attempt : BOOLEAN]
SweepCalls == [job : Dirs]
Reports == [code : FinishCodes \cup {"FINISH_OK"}, action : {"none", "repair"},
            target : setting.outputs, attempt : Attempts, debug : BOOLEAN]

TypeOK ==
    /\ setting \in Settings
    /\ dir \in [Dirs -> {"absent", "bare", "managed", "torn"}]
    /\ text \in [Dirs -> SUBSET Artifacts]
    /\ stage \in [Dirs -> 0 .. FINALIZED]
    /\ expired \in [Dirs -> BOOLEAN]
    /\ output \in [setting.outputs -> {NoFile, Foreign} \cup Attempts]
    /\ pc \in [Actors -> Labels]
    /\ call \in [Actors -> {NoResult} \cup PrepareCalls \cup FinishCalls \cup SweepCalls]
    /\ runs \in [Actors -> Nat]
    /\ result \in [Actors -> {NoResult} \cup [code : PrepareCodes] \cup Reports]

Returned(f) == result'[f] # NoResult /\ result'[f] # result[f]

(* references/runbook.md: "A recoverable failure retains extraction for    *)
(* one hour for the same active repair."  A run that reports a recovery    *)
(* action leaves the extracted checkpoint complete, recognised and freshly *)
(* retained, when no other command runs at the same time.                  *)
RecoverableKeepsCheckpoint ==
    [][\A f \in Finishers : (~Overlap /\ Returned(f) /\ result'[f].action # "none") =>
        /\ dir'[Checkpoint] = "managed" /\ ~expired'[Checkpoint]
        /\ stage'[Checkpoint] = EXTRACTED /\ Prepared \subseteq text'[Checkpoint]]_vars

(* A run that reports success has published its own attempt, and unless    *)
(* debugging was asked for, neither directory is left.                     *)
SuccessIsComplete ==
    [][\A f \in Finishers : (Returned(f) /\ result'[f].code = "FINISH_OK") =>
        /\ output'[result'[f].target] = result'[f].attempt
        /\ ~result'[f].debug =>
              dir'[result'[f].attempt] = "absent" /\ dir'[Checkpoint] = "absent"]_vars

(* A run that fails after it opened its attempt, and does not say that its *)
(* cleanup failed, leaves nothing of the attempt, unless debugging was     *)
(* asked for: whatever stage, error, cancellation or delivery failed.      *)
FailureCleansAttempt ==
    [][\A f \in Finishers :
        (/\ Returned(f) /\ call[f].attempt
         /\ result'[f].code # "CLEANUP_FAILED" /\ ~result'[f].debug)
            => dir'[result'[f].attempt] = "absent"]_vars

(* Paper text lies only in directories that a sweep will find, at every    *)
(* instant at which a command could die: in an attempt whatever else runs, *)
(* in the checkpoint when no other command runs at the same time.  A       *)
(* removal that an I/O error broke off, which is reported, is the only     *)
(* exception.  With overlap it would be false: a finish that meets a       *)
(* checkpoint still being prepared removes it, and the preparation then    *)
(* writes the rest to a directory without a sentinel.                      *)
HoldsText(d) == text[d] # {}

TextIsManaged ==
    \A d \in Dirs :
        HoldsText(d) /\ (d = Checkpoint => ~Overlap) => dir[d] \in {"managed", "torn"}
=============================================================================

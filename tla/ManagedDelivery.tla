--------------------------- MODULE ManagedDelivery ---------------------------
(***************************************************************************)
(* Delivery of validated jobs (job/deliver.py) and the removal or          *)
(* retention of their private directories (job/cleanup.py).  Deliverers    *)
(* and sweepers are processes that share a managed root and the user's     *)
(* output folder; anyone else may create files in that folder.  Every      *)
(* system call that changes a name is a step of its own, so that a crash,  *)
(* a cancellation or another process can come between any two.             *)
(*                                                                         *)
(* All targets are in one folder, so the staging name depends on the job   *)
(* alone.  The candidate stands for the artifacts _verify_bindings reads:  *)
(* they are written together and never change (JobLedger).  The checks at  *)
(* the start are one step: what they read only ever disappears, so a       *)
(* mixture of old and new reads is an earlier read of all of them.         *)
(***************************************************************************)
EXTENDS Naturals, FiniteSets

CONSTANTS
    Jobs,          \* managed jobs, all driven to the validated stage
    Targets,       \* output paths in the user's folder
    Deliverers,    \* processes that call deliver_validated_pdf
    Sweepers,      \* processes that run sweep_expired_jobs
    JobsOf,        \* per deliverer, the jobs it may deliver
    KeepChoices,   \* whether calls retain their job: a subset of BOOLEAN
    MaxCalls,      \* how many times each deliverer may call
    Platform,      \* "posix" or "nt": os.name
    Faults,        \* which of "crash", "io", "interrupt" may happen
    NoFile,        \* no file of that name
    Foreign,       \* a file that is not ours
    NoActor        \* the holder of a directory nobody has open

Actors == Deliverers \cup Sweepers

ASSUME PlatformAssumption == Platform \in {"posix", "nt"}
ASSUME FaultsAssumption == Faults \subseteq {"crash", "io", "interrupt"}
ASSUME ActorsAssumption == Deliverers \cap Sweepers = {} /\ NoActor \notin Actors
ASSUME CallsAssumption == MaxCalls \in Nat /\ KeepChoices \subseteq BOOLEAN
ASSUME JobsOfAssumption == JobsOf \in [Deliverers -> SUBSET Jobs]

StagingFiles == [by : Deliverers, whole : BOOLEAN]
Intents == [by : Deliverers, whole : BOOLEAN, target : Targets]
OutputFiles == [job : Jobs, whole : BOOLEAN]

ASSUME FilesAssumption ==
    /\ NoFile \notin StagingFiles \cup Intents \cup OutputFiles
    /\ Foreign \notin OutputFiles /\ NoFile # Foreign

VARIABLES
    directory,     \* per job: "present", "gone", or "recreated" by a mkdir
    files,         \* per job, the names in its directory but the intent
    intent,        \* per job, its delivery-intent.json
    ledger,        \* per job, the stage in job-state.json
    expired,       \* per job, whether the sentinel's expires_at has passed
    staging,       \* per job, its hidden staging file beside the target
    output,        \* per target, the file of that name
    held,          \* per job, who has its directory open without sharing (nt)
    pc,            \* where each actor is
    call,          \* what each actor is working on
    calls,         \* how many calls each deliverer has begun
    own,           \* deliver's locals: staging_owned, delivered, code
    doomed,        \* the names a cleanup still has to unlink
    result         \* what each actor's last call returned

onDisk == << directory, files, intent, ledger, expired, staging, output >>
vars == << onDisk, held, pc, call, calls, own, doomed, result >>

(* job-state.json and its lock file come and go together, except that a    *)
(* writer of the state makes a lock file where it finds neither.           *)
JobFiles == {"sentinel", "ledger", "candidate"}
Names == JobFiles \cup {"lock"}
Intent == "intent"

File(p, whole) == [by |-> p, whole |-> whole]
Complete(j) == [job |-> j, whole |-> TRUE]

NoResult == [code |-> "none"]
Idle == [owned |-> FALSE, linked |-> FALSE, delivered |-> FALSE, code |-> "OK"]

Job(a) == call[a].job
Target(a) == call[a].target

Whole(f) == f # NoFile /\ f.whole
Partial(f) == f # NoFile /\ ~f.whole

IO == "io" \in Faults

Managed(j) == directory[j] = "present" /\ "sentinel" \in files[j]
Has(j, name) == directory[j] # "gone" /\ name \in files[j]

Init ==
    /\ directory = [j \in Jobs |-> "present"]
    /\ files = [j \in Jobs |-> JobFiles]
    /\ intent = [j \in Jobs |-> NoFile]
    /\ ledger = [j \in Jobs |-> "validated"]
    /\ expired = [j \in Jobs |-> FALSE]
    /\ staging = [j \in Jobs |-> NoFile]
    /\ output = [t \in Targets |-> NoFile]
    /\ held = [j \in Jobs |-> NoActor]
    /\ pc = [a \in Actors |-> "idle"]
    /\ call = [a \in Actors |-> NoResult]
    /\ calls = [p \in Deliverers |-> 0]
    /\ own = [a \in Actors |-> Idle]
    /\ doomed = [a \in Actors |-> {}]
    /\ result = [a \in Actors |-> NoResult]

Goto(a, label) == pc' = [pc EXCEPT ![a] = label]

(* The try body raises: its code is kept and the finally clause runs.      *)
Fail(p, code) == /\ Goto(p, "finally")
                 /\ own' = [own EXCEPT ![p].code = code]

Quiet == UNCHANGED << held, call, calls, doomed, result >>

(* What a call has open while it is at a label, without sharing it for     *)
(* deletion: the two files it writes or copies for certain, the others at  *)
(* some moment of the step.  The reads of a check may still go on after it.*)
Holds == [intending |-> {Intent}, copying |-> {"candidate"}]
Reads == [checked |-> JobFiles, published |-> {"candidate"}, verified |-> {"ledger", "lock"},
          cleanup |-> {"sentinel"}, unstaging |-> {Intent}]

HasOpen(b, j, name) == pc[b] \in DOMAIN Holds /\ Job(b) = j /\ name \in Holds[pc[b]]

(* One who is idle may be about to find that there is nothing to do.       *)
MayHaveOpen(b, j, name) ==
    \/ HasOpen(b, j, name)
    \/ pc[b] \in DOMAIN Reads /\ Job(b) = j /\ name \in Reads[pc[b]]
    \/ pc[b] = "idle" /\ b \in Sweepers /\ name = "sentinel"
    \/ /\ pc[b] = "idle" /\ b \in Deliverers
       /\ j \in JobsOf[b] /\ calls[b] < MaxCalls /\ name \in JobFiles

(* On nt a file that another process has open can be neither deleted nor   *)
(* replaced: the step must fail, or it may.                                *)
Blocked(a, name) ==
    Platform = "nt" /\ \E b \in Actors \ {a} : HasOpen(b, Job(a), name)
InUse(a, name) ==
    Platform = "nt" /\ \E b \in Actors \ {a} : MayHaveOpen(b, Job(a), name)

(* Another call hashes the staging file, to delete it.                     *)
StagingInUse(a) ==
    /\ Platform = "nt"
    /\ \E b \in Actors \ {a} :
          /\ pc[b] = "unstaging" \/ (pc[b] = "finally" /\ own[b].owned)
          /\ Job(b) = Job(a)
-----------------------------------------------------------------------------
(* deliver_validated_pdf, up to and including publication.                 *)

CheckCode(j, t) ==
    CASE ~(Managed(j) /\ {"ledger", "candidate"} \subseteq files[j]) -> "BINDING_MISMATCH"
      [] output[t] # NoFile -> "OUTPUT_EXISTS"
      [] ledger[j] # "validated" -> "NOT_VALIDATED"
      [] OTHER -> "OK"

(* The checks; a cancellation among them has nothing to undo.              *)
Check(p) ==
    /\ pc[p] = "idle"
    /\ calls[p] < MaxCalls
    /\ \E j \in JobsOf[p], t \in Targets, keep \in KeepChoices :
       \E code \in {CheckCode(j, t), "CANCELLED"} :
         /\ code = "CANCELLED" => "interrupt" \in Faults
         /\ call' = [call EXCEPT ![p] = [job |-> j, target |-> t, keep |-> keep]]
         /\ own' = [own EXCEPT ![p] = [Idle EXCEPT !.code = code]]
         /\ Goto(p, IF code = "OK" THEN "checked" ELSE "finally")
    /\ calls' = [calls EXCEPT ![p] = @ + 1]
    /\ result' = [result EXCEPT ![p] = NoResult]
    /\ UNCHANGED << onDisk, held, doomed >>

(* _write_delivery_intent creates the file exclusively, then fills it.     *)
CreateIntent(p) ==
    /\ pc[p] = "checked"
    /\ \/ /\ directory[Job(p)] # "gone"
          /\ intent[Job(p)] = NoFile
          /\ intent' = [intent EXCEPT ![Job(p)] =
                          [by |-> p, whole |-> FALSE, target |-> Target(p)]]
          /\ Goto(p, "intending")
          /\ UNCHANGED own
       \/ /\ directory[Job(p)] = "gone" \/ intent[Job(p)] # NoFile \/ IO
          /\ Fail(p, "STAGE_FAILED")
          /\ UNCHANGED intent
    /\ UNCHANGED << directory, files, ledger, expired, staging, output >>
    /\ Quiet

(* If the name was unlinked meanwhile, the bytes go to no name.            *)
FillIntent(p) ==
    /\ pc[p] = "intending"
    /\ \/ /\ intent' = IF intent[Job(p)] # NoFile /\ intent[Job(p)].by = p
                       THEN [intent EXCEPT ![Job(p)].whole = TRUE] ELSE intent
          /\ Goto(p, "intended")
          /\ UNCHANGED own
       \/ /\ IO
          /\ Fail(p, "STAGE_FAILED")
          /\ UNCHANGED intent
    /\ UNCHANGED << directory, files, ledger, expired, staging, output >>
    /\ Quiet

(* An OSError of the copy drops the intent, if that succeeds: by name,     *)
(* whoever wrote it.                                                       *)
FailCopy(p) ==
    /\ \/ ~Blocked(p, Intent) /\ intent' = [intent EXCEPT ![Job(p)] = NoFile]
       \/ (IO \/ InUse(p, Intent)) /\ UNCHANGED intent
    /\ Fail(p, "STAGE_FAILED")

(* Fault: a staging file that exists is taken over as it stands.           *)
CreateStagingAdopting(p) ==
    /\ pc[p] = "intended"
    /\ \/ /\ Has(Job(p), "candidate")
          /\ IF staging[Job(p)] = NoFile
             THEN staging' = [staging EXCEPT ![Job(p)] = File(p, FALSE)] /\ Goto(p, "copying")
             ELSE UNCHANGED staging /\ Goto(p, "staged")
          /\ UNCHANGED << intent, own >>
       \/ /\ ~Has(Job(p), "candidate") \/ IO
          /\ FailCopy(p)
          /\ UNCHANGED staging
    /\ UNCHANGED << directory, files, ledger, expired, output >>
    /\ Quiet

(* _copy_candidate_to_staging: opened exclusively, written, read back.     *)
CreateStaging(p) ==
    /\ pc[p] = "intended"
    /\ \/ /\ Has(Job(p), "candidate")
          /\ staging[Job(p)] = NoFile
          /\ staging' = [staging EXCEPT ![Job(p)] = File(p, FALSE)]
          /\ Goto(p, "copying")
          /\ UNCHANGED << intent, own >>
       \/ /\ ~Has(Job(p), "candidate") \/ staging[Job(p)] # NoFile \/ IO
          /\ FailCopy(p)
          /\ UNCHANGED staging
    /\ UNCHANGED << directory, files, ledger, expired, output >>
    /\ Quiet

(* An exception in the copy marks the open file deleted on nt only.        *)
AbandonStaging(p) ==
    IF Platform = "nt" THEN staging' = [staging EXCEPT ![Job(p)] = NoFile]
                       ELSE UNCHANGED staging

(* A link made meanwhile by another process shares the bytes being copied. *)
FillStaging(p) ==
    /\ pc[p] = "copying"
    /\ \/ /\ staging' = [staging EXCEPT ![Job(p)].whole = TRUE]
          /\ output' = [t \in Targets |->
                          IF output[t] = [job |-> Job(p), whole |-> FALSE]
                          THEN Complete(Job(p)) ELSE output[t]]
          /\ Goto(p, "staged")
          /\ UNCHANGED << intent, own >>
       \/ /\ IO
          /\ AbandonStaging(p)
          /\ FailCopy(p)
          /\ UNCHANGED output
    /\ UNCHANGED << directory, files, ledger, expired >>
    /\ Quiet

(* Fault: the ledger is advanced before the file is published.             *)
OwnStagingFinalizing(p) ==
    /\ pc[p] = "staged"
    /\ own' = [own EXCEPT ![p].owned = TRUE]
    /\ Goto(p, "verified")
    /\ UNCHANGED onDisk
    /\ Quiet

OwnStaging(p) ==
    /\ pc[p] = "staged"
    /\ own' = [own EXCEPT ![p].owned = TRUE]
    /\ Goto(p, "owned")
    /\ UNCHANGED onDisk
    /\ Quiet

(* On nt a staging file still open by its writer can be neither moved nor  *)
(* opened by another.                                                      *)
BeingWritten(j) ==
    Platform = "nt" /\ Partial(staging[j]) /\ pc[staging[j].by] = "copying"

PublishTo(p, free) ==
    /\ pc[p] = "owned"
    /\ \/ /\ staging[Job(p)] # NoFile /\ ~BeingWritten(Job(p))
          /\ free
          /\ output' = [output EXCEPT ![Target(p)] =
                          [job |-> Job(p), whole |-> staging[Job(p)].whole]]
          /\ staging' = IF Platform = "nt" THEN [staging EXCEPT ![Job(p)] = NoFile]
                                           ELSE staging
          /\ own' = [own EXCEPT ![p].linked = TRUE]
          /\ Goto(p, "published")
       \/ /\ output[Target(p)] # NoFile
          /\ Fail(p, "OUTPUT_EXISTS")
          /\ UNCHANGED << output, staging >>
       \/ /\ \/ staging[Job(p)] = NoFile \/ BeingWritten(Job(p))
             \/ StagingInUse(p) \/ IO
          /\ Fail(p, "COMMIT_FAILED")
          /\ UNCHANGED << output, staging >>
    /\ UNCHANGED << directory, files, intent, ledger, expired >>
    /\ Quiet

(* Fault: the staging file is renamed over the target.                     *)
PublishReplacing(p) == PublishTo(p, TRUE)

(* _atomic_publish: a hard link, or on nt a move, that refuses a name that *)
(* exists.                                                                 *)
Publish(p) == PublishTo(p, output[Target(p)] = NoFile)
-----------------------------------------------------------------------------
(* deliver_validated_pdf, once the output exists.                          *)

(* The delivered flag is set only after the link has been made.            *)
Delivered(p, code) == own' = [own EXCEPT ![p].delivered = TRUE, ![p].code = code]

Verify(p) ==
    /\ pc[p] = "published"
    /\ \/ /\ output[Target(p)] = Complete(Job(p))
          /\ Has(Job(p), "candidate")
          /\ Goto(p, "verified")
          /\ Delivered(p, "OK")
       \/ /\ output[Target(p)] # Complete(Job(p))
          /\ Goto(p, "finally")
          /\ Delivered(p, "VERIFY_FAILED")
       \/ /\ ~Has(Job(p), "candidate") \/ IO
          /\ Goto(p, "finally")
          /\ Delivered(p, "COMMIT_FAILED")
    /\ UNCHANGED onDisk
    /\ Quiet

(* write_job_state: it makes the directory if it is missing and always     *)
(* leaves its lock file; the compare-and-swap itself is JobLedger.         *)
Finalize(p) ==
    /\ pc[p] = "verified"
    /\ IF directory[Job(p)] = "gone"
       THEN /\ directory' = [directory EXCEPT ![Job(p)] = "recreated"]
            /\ files' = [files EXCEPT ![Job(p)] = {"lock"}]
       ELSE /\ files' = [files EXCEPT ![Job(p)] =
                           IF "ledger" \in @ THEN @ ELSE @ \cup {"lock"}]
            /\ UNCHANGED directory
    /\ \/ /\ Has(Job(p), "ledger")
          /\ ledger[Job(p)] = "validated"
          /\ ledger' = [ledger EXCEPT ![Job(p)] = "finalized"]
          /\ Fail(p, "OK") \/ (IO /\ Fail(p, "STATE_FAILED"))
       \/ /\ \/ ~Has(Job(p), "ledger") \/ ledger[Job(p)] # "validated"
             \/ InUse(p, "ledger") \/ IO
          /\ Fail(p, "STATE_FAILED")
          /\ UNCHANGED ledger
    /\ UNCHANGED << intent, expired, staging, output >>
    /\ Quiet

TryBody == {"checked", "intending", "intended", "copying", "staged", "owned",
            "published", "verified"}

(* KeyboardInterrupt: whether the file was delivered is read off the disk. *)
Interrupt(p) ==
    /\ "interrupt" \in Faults
    /\ pc[p] \in TryBody
    /\ own' = [own EXCEPT ![p].code = "CANCELLED",
                          ![p].delivered = output[Target(p)] = Complete(Job(p))]
    /\ Goto(p, "finally")
    /\ IF pc[p] = "copying" THEN AbandonStaging(p) ELSE UNCHANGED staging
    /\ UNCHANGED << directory, files, intent, ledger, expired, output >>
    /\ Quiet

ReleaseTo(p, label, code) ==
    /\ pc[p] = "finally"
    /\ \/ /\ own[p].owned /\ Whole(staging[Job(p)])
          /\ staging' = [staging EXCEPT ![Job(p)] = NoFile]
          /\ UNCHANGED own
       \/ /\ ~own[p].owned \/ staging[Job(p)] = NoFile
          /\ UNCHANGED << staging, own >>
       \/ /\ own[p].owned
          /\ Partial(staging[Job(p)]) \/ StagingInUse(p) \/ IO
          /\ own' = [own EXCEPT ![p].code = IF @ = "OK" THEN code ELSE @]
          /\ UNCHANGED staging
    /\ Goto(p, label)
    /\ UNCHANGED << directory, files, intent, ledger, expired, output >>
    /\ Quiet

(* Fault: a staging file that could not be deleted is not reported.        *)
ReleaseSilently(p) == ReleaseTo(p, "cleanup", "OK")


(* The finally clause deletes the staging file it owns, if its bytes are   *)
(* the candidate's; then the job is cleaned up, whatever happened.         *)
Release(p) == ReleaseTo(p, "cleanup", "CLEANUP_FAILED")
-----------------------------------------------------------------------------
(* cleanup_after_job, run by a deliverer for its job or by a sweeper.      *)

(* A sweep reads the expiry and only later opens the directory again.      *)
Sweep(s, j) ==
    /\ pc[s] = "idle"
    /\ Managed(j)
    /\ expired[j]
    /\ call' = [call EXCEPT ![s] = [job |-> j, keep |-> FALSE]]
    /\ Goto(s, "cleanup")
    /\ UNCHANGED << onDisk, held, calls, own, doomed, result >>

CloseJob(a) == held' = [j \in Jobs |-> IF held[j] = a THEN NoActor ELSE held[j]]

Return(a, cleaned) ==
    /\ Goto(a, "idle")
    /\ CloseJob(a)
    /\ doomed' = [doomed EXCEPT ![a] = {}]
    /\ own' = [own EXCEPT ![a] = Idle]
    /\ result' = [result EXCEPT ![a] =
         [code |-> IF own[a].code = "OK" /\ cleaned \notin {"OK", "RETAINED"}
                   THEN "CLEANUP_FAILED" ELSE own[a].code,
          delivered |-> own[a].delivered, linked |-> own[a].linked, cleanup |-> cleaned]]

Going(a, label) == Goto(a, label) /\ UNCHANGED << held, doomed, own, result >>

Still == UNCHANGED << call, calls >>

(* The scope is validated on the open directory; on nt opening it shares   *)
(* with nobody.                                                            *)
OpenJob(a) ==
    /\ pc[a] = "cleanup"
    /\ \/ /\ Managed(Job(a))
          /\ held[Job(a)] = NoActor
          /\ held' = IF Platform = "nt" THEN [held EXCEPT ![Job(a)] = a] ELSE held
          /\ Goto(a, IF call[a].keep THEN "retaining" ELSE "unstaging")
          /\ UNCHANGED << doomed, own, result >>
       \/ /\ ~Managed(Job(a)) \/ held[Job(a)] # NoActor \/ IO
          /\ Return(a, "INVALID_SCOPE")
    /\ UNCHANGED onDisk /\ Still

(* The sentinel is replaced by one with the caller's expiry.               *)
Retain(a) ==
    /\ pc[a] = "retaining"
    /\ \/ /\ directory[Job(a)] = "present"
          /\ files' = [files EXCEPT ![Job(a)] = @ \cup {"sentinel"}]
          /\ expired' = [expired EXCEPT ![Job(a)] = FALSE]
          /\ Return(a, "RETAINED")
       \/ /\ directory[Job(a)] # "present" \/ InUse(a, "sentinel") \/ IO
          /\ Return(a, "IO_FAILED")
          /\ UNCHANGED << files, expired >>
    /\ UNCHANGED << directory, intent, ledger, staging, output >> /\ Still

(* _remove_external_staging: the intent names the staging file, which is   *)
(* deleted if it holds the candidate's bytes.                              *)
RemoveStaging(a) ==
    /\ pc[a] = "unstaging"
    /\ LET i == IF directory[Job(a)] = "present" THEN intent[Job(a)] ELSE NoFile
           f == staging[Job(a)]
       IN \/ /\ i = NoFile \/ f = NoFile
             /\ ~Partial(i)
             /\ Going(a, "listing")
             /\ UNCHANGED staging
          \/ /\ Whole(i) /\ Whole(f)
             /\ staging' = [staging EXCEPT ![Job(a)] = NoFile]
             /\ Going(a, "listing")
          \/ /\ Whole(i) /\ Partial(f) /\ ~BeingWritten(Job(a))
             /\ Return(a, "UNSAFE_PATH")
             /\ UNCHANGED staging
          \/ /\ (Whole(i) /\ (BeingWritten(Job(a)) \/ StagingInUse(a))) \/ IO
             /\ Return(a, "IO_FAILED")
             /\ UNCHANGED staging
          \/ /\ Partial(i)
             /\ Return(a, "INVALID_SCOPE")
             /\ UNCHANGED staging
    /\ UNCHANGED << directory, files, intent, ledger, expired, output >> /\ Still

Entries(j) == IF directory[j] # "present" THEN {}
              ELSE files[j] \cup IF intent[j] = NoFile THEN {} ELSE {Intent}

ListJob(a) ==
    /\ pc[a] = "listing"
    /\ doomed' = [doomed EXCEPT ![a] = Entries(Job(a))]
    /\ Goto(a, "unlinking")
    /\ UNCHANGED << onDisk, held, own, result >> /\ Still

(* What an unlink of n by a that cannot succeed tells the caller.          *)
UnlinkOr(a, n, cleaned) ==
    /\ pc[a] = "unlinking"
    /\ n \in doomed[a]
    /\ \/ /\ n \in Entries(Job(a)) /\ ~Blocked(a, n)
          /\ IF n = Intent
             THEN intent' = [intent EXCEPT ![Job(a)] = NoFile] /\ UNCHANGED files
             ELSE files' = [files EXCEPT ![Job(a)] = @ \ {n}] /\ UNCHANGED intent
          /\ doomed' = [doomed EXCEPT ![a] = @ \ {n}]
          /\ UNCHANGED << pc, held, own, result >>
       \/ /\ n \notin Entries(Job(a)) \/ InUse(a, n) \/ IO
          /\ Return(a, cleaned)
          /\ UNCHANGED << files, intent >>
    /\ UNCHANGED << directory, ledger, expired, staging, output >> /\ Still

(* Fault: a name that cannot be deleted is passed over in silence.         *)
UnlinkIgnoringErrors(a, n) == UnlinkOr(a, n, "OK")

(* The entries go one by one, in the order the directory lists them, until *)
(* one is missing or cannot be deleted.                                    *)
Unlink(a, n) == UnlinkOr(a, n, "IO_FAILED")

(* The directory itself goes if it is empty and still the one that was     *)
(* opened.                                                                 *)
RemoveDirectory(a) ==
    /\ pc[a] = "unlinking"
    /\ doomed[a] = {}
    /\ \/ /\ directory[Job(a)] = "present"
          /\ Entries(Job(a)) = {}
          /\ directory' = [directory EXCEPT ![Job(a)] = "gone"]
          /\ Return(a, "OK")
       \/ /\ Entries(Job(a)) # {} \/ directory[Job(a)] = "gone" \/ IO
          /\ Return(a, "IO_FAILED")
          /\ UNCHANGED directory
       \/ /\ directory[Job(a)] = "recreated"
          /\ Return(a, "UNSAFE_PATH")
          /\ UNCHANGED directory
    /\ UNCHANGED << files, intent, ledger, expired, staging, output >> /\ Still
-----------------------------------------------------------------------------
(* The process dies; its descriptors close, its files stay.                *)
Crash(a) ==
    /\ "crash" \in Faults
    /\ pc[a] # "idle"
    /\ Goto(a, "idle")
    /\ CloseJob(a)
    /\ doomed' = [doomed EXCEPT ![a] = {}]
    /\ own' = [own EXCEPT ![a] = Idle]
    /\ UNCHANGED << onDisk, call, calls, result >>

(* The retention period of a job ends.                                     *)
Expire(j) ==
    /\ ~expired[j]
    /\ expired' = [expired EXCEPT ![j] = TRUE]
    /\ UNCHANGED << directory, files, intent, ledger, staging, output, held, pc,
                    call, calls, own, doomed, result >>

(* Someone else creates a file in the user's folder.                       *)
Intrude(t) ==
    /\ output[t] = NoFile
    /\ output' = [output EXCEPT ![t] = Foreign]
    /\ UNCHANGED << directory, files, intent, ledger, expired, staging, held, pc,
                    call, calls, own, doomed, result >>

Deliver(p) ==
    \/ CreateIntent(p) \/ FillIntent(p) \/ CreateStaging(p) \/ FillStaging(p)
    \/ OwnStaging(p) \/ Publish(p) \/ Verify(p) \/ Finalize(p) \/ Release(p)

Clean(a) ==
    \/ OpenJob(a) \/ Retain(a) \/ RemoveStaging(a) \/ ListJob(a)
    \/ \E n \in Names \cup {Intent} : Unlink(a, n)
    \/ RemoveDirectory(a)

Next ==
    \/ \E p \in Deliverers : Check(p) \/ Deliver(p) \/ Interrupt(p)
    \/ \E s \in Sweepers, j \in Jobs : Sweep(s, j)
    \/ \E a \in Actors : Clean(a) \/ Crash(a)
    \/ \E j \in Jobs : Expire(j)
    \/ \E t \in Targets : Intrude(t)

Spec == Init /\ [][Next]_vars

(* A call that has begun runs on; nothing makes anyone call.               *)
FairSpec ==
    /\ Spec
    /\ \A p \in Deliverers : WF_vars(Deliver(p))
    /\ \A a \in Actors : WF_vars(Clean(a))
-----------------------------------------------------------------------------
PCs == TryBody \cup {"idle", "finally", "cleanup", "retaining", "unstaging",
                     "listing", "unlinking"}

Codes == {"OK", "CANCELLED", "BINDING_MISMATCH", "OUTPUT_EXISTS", "NOT_VALIDATED",
          "STAGE_FAILED", "COMMIT_FAILED", "VERIFY_FAILED", "STATE_FAILED", "CLEANUP_FAILED"}
Cleanups == {"OK", "RETAINED", "INVALID_SCOPE", "IO_FAILED", "UNSAFE_PATH"}

DeliveryCalls == [job : Jobs, target : Targets, keep : BOOLEAN]
SweepCalls == [job : Jobs, keep : {FALSE}]
Results == [code : Codes, delivered : BOOLEAN, linked : BOOLEAN, cleanup : Cleanups]

TypeOK ==
    /\ directory \in [Jobs -> {"present", "gone", "recreated"}]
    /\ files \in [Jobs -> SUBSET Names]
    /\ intent \in [Jobs -> {NoFile} \cup Intents]
    /\ ledger \in [Jobs -> {"validated", "finalized"}]
    /\ expired \in [Jobs -> BOOLEAN]
    /\ staging \in [Jobs -> {NoFile} \cup StagingFiles]
    /\ output \in [Targets -> {NoFile, Foreign} \cup OutputFiles]
    /\ held \in [Jobs -> Actors \cup {NoActor}]
    /\ pc \in [Actors -> PCs]
    /\ call \in [Actors -> {NoResult} \cup DeliveryCalls \cup SweepCalls]
    /\ calls \in [Deliverers -> 0 .. MaxCalls]
    /\ own \in [Actors -> [owned : BOOLEAN, linked : BOOLEAN, delivered : BOOLEAN, code : Codes]]
    /\ doomed \in [Actors -> SUBSET (Names \cup {Intent})]
    /\ result \in [Actors -> {NoResult} \cup Results]

(* What delivery shows the user's folder: complete files that appear once  *)
(* under free names, and nothing that was there is touched.                *)
User == INSTANCE Publication
ImplementsPublication == User!Spec

(* A job is recorded as finalized only once its bytes stand in the user's  *)
(* folder, under whatever crashes and failures.                            *)
FinalizedIsPublished ==
    \A j \in Jobs : ledger[j] = "finalized" =>
        \E t \in Targets : output[t] = Complete(j)

(* The delivered flag a caller gets is true to the disk, also when an      *)
(* error or a cancellation is reported: what this call published is        *)
(* reported as delivered, and what is reported as delivered is there.      *)
ResultIsTruthful ==
    \A p \in Deliverers : result[p] # NoResult =>
        /\ result[p].linked => result[p].delivered
        /\ result[p].delivered => output[Target(p)] = Complete(Job(p))
        /\ result[p].code = "OK" => result[p].delivered /\ ledger[Job(p)] = "finalized"

(* A call that reports success has left nothing of its own in the user's   *)
(* folder but the output, and has removed the job unless told to keep it.  *)
SuccessIsClean ==
    \A p \in Deliverers : (result[p] # NoResult /\ result[p].code = "OK") =>
        /\ staging[Job(p)] = NoFile \/ staging[Job(p)].by # p
        /\ ~call[p].keep => directory[Job(p)] # "present"

(* Paper text that no sweep recognises any more and nobody is removing.    *)
Stranded(j) ==
    /\ Has(j, "candidate") /\ ~Managed(j)
    /\ ~\E a \in Actors : pc[a] = "unlinking" /\ Job(a) = j

(* Text is stranded only by the step of the one who had begun to remove    *)
(* it: it dies, or tells its caller that the removal failed.  No other     *)
(* result of a cleanup, and no step of a delivery or of a cleanup of the   *)
(* same job that came in between, ever leaves text that nobody knows of.   *)
StrandedIsReported ==
    [][\A j \in Jobs : ~Stranded(j) /\ Stranded(j)' =>
          \E a \in Actors :
             /\ pc[a] = "unlinking" /\ Job(a) = j /\ pc'[a] = "idle"
             /\ \/ result'[a] # NoResult /\ result'[a].cleanup = "IO_FAILED"
                \/ "crash" \in Faults /\ UNCHANGED result]_vars


Callers(j) == {p \in Deliverers : j \in JobsOf[p]}

(* No two calls but those of one process work on the job, or only two, and *)
(* then no sweep.                                                          *)
AtMostTwoMeet(j) ==
    \/ Cardinality(Callers(j)) <= 1
    \/ Sweepers = {} /\ Cardinality(Callers(j)) * MaxCalls <= 2

(* deliver_validated_pdf: "Publish exact candidate bytes only after all    *)
(* persisted bindings revalidate": no output shows a part of them.  That   *)
(* is claimed for a job that one process delivers, whoever sweeps it, or   *)
(* that two calls deliver at the same time and nobody sweeps.  Where three *)
(* meet the code does not keep it: once a third has removed the staging    *)
(* file of the first, the second makes one of the same name, and the first *)
(* publishes what has been copied of it (deliver.py:452).                  *)
OutputsAreWhole ==
    \A j \in Jobs : AtMostTwoMeet(j) =>
        \A t \in Targets : output[t] # [job |-> j, whole |-> FALSE]

(* PRIVACY.md and test_cancel_during_staging_cleans_the_job_and_never_     *)
(* delivers: after a cancellation the job's text is deleted.               *)
CancelledJobsAreDeleted ==
    \A p \in Deliverers :
        (/\ result[p] # NoResult /\ result[p].code = "CANCELLED" /\ ~call[p].keep)
            => directory[Job(p)] # "present"
=============================================================================

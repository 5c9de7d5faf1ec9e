-------------------------- MODULE IsolatedOperation --------------------------
(***************************************************************************)
(* The five operations that hand a PDF to the sandbox: preflight,          *)
(* normalize, extract, render and qa.  Each copies its input through one   *)
(* handle into a private directory, checks what it copied against an       *)
(* artifact of the job, stages further files, calls the worker, erases the *)
(* copy, and then writes what came back, file by file, into the job        *)
(* directory.  preflight/api.py, normalization/api.py, extraction/api.py,  *)
(* rendering/worker_bridge.py, qa/worker_bridge.py, security/input_copy.py.*)
(*                                                                         *)
(* The worker is a function of its input (WorkerRun is the call itself),   *)
(* so a file of the job is modelled by the paper that it is about.  The    *)
(* user's paper may be replaced at any time; the fonts and the program that *)
(* a render depends on stay the same.                                      *)
(* The calls on one directory come one after the other, as prepare and     *)
(* finish make them, or a user who repeats a command that failed or died.  *)
(***************************************************************************)
EXTENDS FiniteSets, Naturals

CONSTANTS
    Papers,       \* contents of the user's PDF
    Rejected,     \* those that preflight does not pass
    MaxCalls,     \* calls altogether (a bound)
    Faults,       \* which of "io", "worker", "interrupt", "crash" may happen
    None          \* no file

ASSUME PapersAssumption == Rejected \subseteq Papers /\ None \notin Papers
ASSUME CallsAssumption == MaxCalls \in Nat
ASSUME FaultsAssumption == Faults \subseteq {"io", "worker", "interrupt", "crash"}

Operations == {"preflight", "normalize", "extract", "render", "qa"}
Files == {"preflight", "pdf", "normalization", "extraction", "output", "manifest"}

(* The files that an operation writes, in this order. *)
First(o) == CASE o = "preflight" -> "preflight" [] o = "normalize" -> "pdf"
              [] o = "extract" -> "extraction"  [] OTHER -> "output"
Second(o) == IF o = "normalize" THEN "normalization" ELSE "manifest"
WritesTwo(o) == o \in {"normalize", "render"}

VARIABLES
    source,       \* the user's PDF
    files,        \* the job directory
    pc, op,       \* where the call is, and in which operation
    expected,     \* the paper that the parent artifacts are about
    copied,       \* the paper that it copied
    candidate,    \* the rendered PDF that qa staged
    copies,       \* what lies in its private directory
    created,      \* created_output: whether it made the first file
    pending,      \* the failure code so far, or "OK"
    told,         \* what the caller was told last
    reported,     \* the operations that were reported as done, with the paper
    calls         \* number of calls so far

locals == << op, expected, copied, candidate, created >>
vars == << source, files, pc, locals, copies, pending, told, reported, calls >>

Init ==
    /\ source \in Papers
    /\ files = [f \in Files |-> None]
    /\ pc = "idle"
    /\ op = "preflight"
    /\ expected = None
    /\ copied = None
    /\ candidate = None
    /\ copies = {}
    /\ created = FALSE
    /\ pending = "OK"
    /\ told = "nothing"
    /\ reported = {}
    /\ calls = 0

IoFails == "io" \in Faults

Go(label) == pc' = label /\ UNCHANGED << told, reported, calls >>
Note(code) == pending' = code
Return(code) ==
    /\ pc' = "idle"
    /\ told' = code
    /\ reported' = IF code = "OK" THEN reported \cup {<<op, copied>>} ELSE reported
    /\ UNCHANGED calls

(* A call of an operation whose parent artifacts are about this paper.      *)
Call(o, parent) ==
    /\ pc = "idle" /\ calls < MaxCalls
    /\ calls' = calls + 1
    /\ op' = o
    /\ expected' = parent
    /\ copied' = None
    /\ candidate' = None
    /\ copies' = {}
    /\ created' = FALSE
    /\ Note("OK")
    /\ IF parent = None
       THEN pc' = pc /\ told' = "PARENT_INVALID"
       ELSE pc' = "opening" /\ told' = "nothing"
    /\ UNCHANGED << source, files, reported >>

(* The paper of two artifacts that must be about the same one.              *)
Agreed(f, g) == IF files[f] = files[g] THEN files[f] ELSE None

Preflight == Call("preflight", source)
Normalize == Call("normalize", files["preflight"])
Extract == Call("extract", Agreed("preflight", "normalization"))
Render == Call("render", files["extraction"])
ValidateQa == Call("qa", Agreed("extraction", "manifest"))

Input(o) == IF o \in {"preflight", "normalize"} THEN source ELSE files["pdf"]

(* A file that is missing, a link, a device, too large, or changing.        *)
CannotOpen(paper) == paper = None \/ IoFails

(* It erases what it could not complete, and ignores whether it could.      *)
CopyInput ==
    /\ pc = "opening"
    /\ \/ /\ Input(op) # None
          /\ copied' = Input(op)
          /\ copies' = {"input"}
          /\ Go("staging")
       \/ /\ CannotOpen(Input(op))
          /\ copies' \in {{}} \cup {r \in {{"input"}} : IoFails}
          /\ Return("INPUT_REJECTED")
          /\ UNCHANGED copied
    /\ UNCHANGED << source, files, op, expected, candidate, created, pending >>

(* Fault: the copy is taken for the file that the parents are about.        *)
IsExpectedNamed == copied # None

(* preflight has no parent to compare with.                                 *)
IsExpected == op = "preflight" \/ copied = expected

(* The handoff files; for qa also the candidate, as it lies there now.      *)
Stage ==
    /\ pc = "staging"
    /\ \/ /\ IsExpected
          /\ op = "qa" => files["output"] # None
          /\ copies' = copies \cup {"handoff"}
          /\ candidate' = IF op = "qa" THEN files["output"] ELSE None
          /\ Go("working")
          /\ UNCHANGED pending
       \/ /\ ~IsExpected \/ (op = "qa" /\ files["output"] = None) \/ IoFails
          /\ Note("STAGING_FAILED")
          /\ Go("erasing")
          /\ UNCHANGED << copies, candidate >>
    /\ UNCHANGED << source, files, op, expected, copied, created >>

(* The worker answers, or fails, or cannot show that it cleaned up.  A      *)
(* check of qa is that the candidate is what the manifest describes.        *)
RunWorker ==
    /\ pc = "working"
    /\ \/ Note(CASE op = "preflight" /\ copied \in Rejected -> "PREFLIGHT_REJECTED"
                    [] op = "qa" /\ candidate # expected -> "QA_FAILED"
                    [] OTHER -> "OK")
       \/ /\ "worker" \in Faults
          /\ \E code \in {"WORKER_FAILED", "SANDBOX_CONTRACT_UNVERIFIED", "ARTIFACT_INVALID"} :
                Note(code)
    /\ Go("erasing")
    /\ UNCHANGED << source, files, locals, copies >>

(* KeyboardInterrupt while the input is copied: what could not be completed *)
(* is erased, unless a second one comes in between.                         *)
InterruptCopying ==
    /\ "interrupt" \in Faults
    /\ pc = "opening"
    /\ copies' \in {{}, {"input"}}
    /\ Return("INTERRUPTED")
    /\ UNCHANGED << source, files, locals, pending >>

(* KeyboardInterrupt before the cleanup, which is then done first.          *)
Interrupt ==
    /\ "interrupt" \in Faults
    /\ pc \in {"staging", "working"}
    /\ Note("INTERRUPTED")
    /\ Go("erasing")
    /\ UNCHANGED << source, files, locals, copies >>

(* What a failed cleanup makes of the pending error.                        *)
CleanupFailure ==
    IF pending = "INTERRUPTED" /\ op \notin {"render", "qa"} THEN "INTERRUPTED"
    ELSE "SANDBOX_CONTRACT_UNVERIFIED"

(* Fault: an error that is already pending goes first.                      *)
EraseCopyKeepingError ==
    /\ pc = "erasing"
    /\ \/ /\ copies' = {}
          /\ IF pending = "OK" THEN Go("first") ELSE Return(pending)
       \/ /\ IoFails
          /\ copies' \in SUBSET copies
          /\ Return(IF pending = "OK" THEN CleanupFailure ELSE pending)
    /\ UNCHANGED << source, files, locals, pending >>

(* The private copy is erased and looked for, before anything is written.   *)
EraseCopy ==
    /\ pc = "erasing"
    /\ \/ /\ copies' = {}
          /\ IF pending = "OK" THEN Go("first") ELSE Return(pending)
       \/ /\ IoFails
          /\ copies' \in SUBSET copies
          /\ Return(CleanupFailure)
    /\ UNCHANGED << source, files, locals, pending >>

(* KeyboardInterrupt in the cleanup, which catches an OSError only: what is *)
(* not erased by then stays, whether this is the first interrupt or not.    *)
InterruptCleanup ==
    /\ "interrupt" \in Faults
    /\ pc = "erasing"
    /\ copies' \in SUBSET copies
    /\ Note("CLEANUP_INTERRUPTED")
    /\ Return("INTERRUPTED")
    /\ UNCHANGED << source, files, locals >>
-----------------------------------------------------------------------------
(* The results.                                                            *)

Linked(f) == [files EXCEPT ![f] = copied]
Free(f) == files[f] = None

(* Only a render accepts a file that has the same bytes already.            *)
Acceptable(f) == op = "render" /\ files[f] = copied

WriteFirst ==
    LET f == First(op) IN
    /\ pc = "first" /\ op # "qa"
    /\ \/ /\ Free(f)
          /\ files' = Linked(f)
          /\ created' = TRUE
          /\ IF WritesTwo(op) THEN Go("second") ELSE Return("OK")
       \/ /\ Acceptable(f)
          /\ Go("second")
          /\ UNCHANGED << files, created >>
       \/ /\ ~Free(f) /\ ~Acceptable(f)
          /\ Return("ARTIFACT_EXISTS")
          /\ UNCHANGED << files, created >>
       \/ /\ IoFails
          /\ files' \in {files} \cup {l \in {Linked(f)} : Free(f)}
          /\ Return("COMMIT_FAILED")
          /\ UNCHANGED created
    /\ UNCHANGED << source, op, expected, copied, candidate, copies, pending >>

WriteSecond ==
    LET f == Second(op) IN
    /\ pc = "second"
    /\ \/ /\ Free(f)
          /\ files' = Linked(f)
          /\ IF op = "render" THEN Go("reading") ELSE Return("OK")
          /\ UNCHANGED pending
       \/ /\ Acceptable(f)
          /\ Go("reading")
          /\ UNCHANGED << files, pending >>
       \/ /\ ~Free(f) /\ ~Acceptable(f)
          /\ Note("ARTIFACT_EXISTS")
          /\ Go("undoing")
          /\ UNCHANGED files
       \/ /\ IoFails
          /\ files' \in {files} \cup {l \in {Linked(f)} : Free(f)}
          /\ Note("COMMIT_FAILED")
          /\ Go("undoing")
    /\ UNCHANGED << source, locals, copies >>

(* Both files are read back. *)
ReadBack ==
    /\ pc = "reading"
    /\ \/ /\ \A f \in {"output", "manifest"} : files[f] = copied
          /\ Return("OK")
          /\ UNCHANGED pending
       \/ /\ IoFails \/ \E f \in {"output", "manifest"} : files[f] # copied
          /\ Note("COMMIT_FAILED")
          /\ Go("undoing")
    /\ UNCHANGED << source, files, locals, copies >>

(* Fault: the output is removed whoever made it.                            *)
OwnsFirstAny == files[First(op)] = copied

OwnsFirst == created /\ files[First(op)] = copied

(* The rollback: the first file goes if this call made it and it is still  *)
(* the same; a render says so if it cannot.                                *)
Undo ==
    /\ pc = "undoing"
    /\ \/ /\ files' = IF OwnsFirst THEN [files EXCEPT ![First(op)] = None] ELSE files
          /\ Return(pending)
       \/ /\ IoFails /\ created
          /\ Return(IF op = "render" THEN "ROLLBACK_FAILED" ELSE pending)
          /\ UNCHANGED files
    /\ UNCHANGED << source, locals, copies, pending >>

(* A cancelled render does not undo, a cancelled normalization does; the    *)
(* file that was being linked or removed may be either.                     *)
InterruptWriting ==
    /\ "interrupt" \in Faults
    /\ pc \in {"first", "second", "reading", "undoing"}
    /\ \/ UNCHANGED files
       \/ /\ pc = "first" /\ op # "qa" /\ Free(First(op))
          /\ files' = Linked(First(op))
       \/ /\ pc = "second" /\ Free(Second(op))
          /\ files' = Linked(Second(op))
       \/ /\ pc = "undoing" /\ OwnsFirst
          /\ files' = [files EXCEPT ![First(op)] = None]
    /\ IF pc = "second" /\ op = "normalize"
       THEN Note("INTERRUPTED") /\ Go("undoing")
       ELSE Return("INTERRUPTED") /\ UNCHANGED pending
    /\ UNCHANGED << source, locals, copies >>

(* persist_qa_result reads all files again (QaCommit goes on from here).    *)
AcceptQa ==
    /\ pc = "first" /\ op = "qa"
    /\ \/ /\ files["pdf"] = copied /\ files["output"] = candidate
          /\ files["manifest"] = expected
          /\ Return("OK")
       \/ /\ \/ files["pdf"] # copied \/ files["output"] # candidate
             \/ files["manifest"] # expected \/ IoFails
          /\ Return("QA_INPUTS_INVALID")
    /\ UNCHANGED << source, files, locals, copies, pending >>
-----------------------------------------------------------------------------
Crash ==
    /\ "crash" \in Faults
    /\ pc # "idle"
    /\ Return("nothing")
    /\ UNCHANGED << source, files, locals, copies, pending >>

(* The user saves another paper under the same name.                        *)
EditSource ==
    /\ source' \in Papers \ {source}
    /\ UNCHANGED << files, pc, locals, copies, pending, told, reported, calls >>

Next ==
    \/ Preflight \/ Normalize \/ Extract \/ Render \/ ValidateQa
    \/ CopyInput \/ InterruptCopying \/ Stage \/ RunWorker \/ Interrupt
    \/ EraseCopy \/ InterruptCleanup
    \/ WriteFirst \/ WriteSecond \/ ReadBack \/ Undo
    \/ InterruptWriting \/ AcceptQa
    \/ Crash \/ EditSource

Spec == Init /\ [][Next]_vars

-----------------------------------------------------------------------------
Labels == {"idle", "opening", "staging", "working", "erasing", "first", "second", "reading",
           "undoing"}
Codes == {"nothing", "OK", "PARENT_INVALID", "INPUT_REJECTED", "STAGING_FAILED", "INTERRUPTED",
          "CLEANUP_INTERRUPTED", "PREFLIGHT_REJECTED", "QA_FAILED", "WORKER_FAILED", "SANDBOX_CONTRACT_UNVERIFIED",
          "ARTIFACT_INVALID", "ARTIFACT_EXISTS", "COMMIT_FAILED", "ROLLBACK_FAILED",
          "QA_INPUTS_INVALID"}

(* The values of the variables. *)
TypeOK ==
    /\ source \in Papers
    /\ files \in [Files -> Papers \cup {None}]
    /\ pc \in Labels /\ op \in Operations
    /\ expected \in Papers \cup {None}
    /\ copied \in Papers \cup {None}
    /\ candidate \in Papers \cup {None}
    /\ copies \in SUBSET {"input", "handoff"}
    /\ created \in BOOLEAN
    /\ pending \in Codes /\ told \in Codes
    /\ reported \subseteq Operations \X Papers
    /\ calls \in 0 .. MaxCalls

(* A call that answers has erased its private copy of the paper, or says    *)
(* SANDBOX_CONTRACT_UNVERIFIED, whatever went wrong before and in the       *)
(* cleanup itself; so has a render or a qa that was cancelled, unless the   *)
(* cancellation hit the cleanup.  What stays silent: such a cancellation, a *)
(* cancelled preflight, normalization or extraction, and a copy that could  *)
(* not be completed.                                                        *)
CopiesAreErased ==
    pc = "idle" /\ copies # {} /\ copied # None =>
        \/ told \in {"SANDBOX_CONTRACT_UNVERIFIED", "nothing"}
        \/ /\ told = "INTERRUPTED"
           /\ op \in {"render", "qa"} => pending = "CLEANUP_INTERRUPTED"

(* Whatever the user does to the paper between the calls, and however often *)
(* calls fail, die and are repeated: what the directory holds is about one  *)
(* paper, which passed preflight, and rests on everything that it was made  *)
(* from.                                                                    *)
ChainIsBound ==
    /\ \A f, g \in Files : files[f] # None /\ files[g] # None => files[f] = files[g]
    /\ \A f \in Files : files[f] \notin Rejected
    /\ (\E f \in Files : files[f] # None) => files["preflight"] # None
    /\ files["extraction"] # None => files["normalization"] # None /\ files["pdf"] # None
    /\ files["output"] # None => files["extraction"] # None

(* What a call reported as done stays done: no repetition that fails, no    *)
(* rollback of another call and no crash takes away or replaces its files,  *)
(* and what qa has judged is the candidate that is there.  A render can be  *)
(* repeated after any failure: it never finds its own files in the way.     *)
RetriesAreSafe ==
    /\ \A o \in Operations, p \in Papers : <<o, p>> \in reported =>
          /\ files[First(o)] = p
          /\ WritesTwo(o) \/ o = "qa" => files[Second(o)] = p
    /\ op = "render" => told # "ARTIFACT_EXISTS"
=============================================================================

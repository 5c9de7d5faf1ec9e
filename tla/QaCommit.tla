------------------------------ MODULE QaCommit ------------------------------
(***************************************************************************)
(* The commit of a passed QA report, qa/persist.py: qa.json, then          *)
(* provenance.json, then the ledger's step from RENDERED to VALIDATED.     *)
(* Three steps that can break off anywhere, on a directory in which two    *)
(* programs may do them: finish, through qa/worker_bridge.py, and          *)
(* scripts/qa_pdf.py --persist, which may be repeated and may run on       *)
(* another installation.                                                   *)
(*                                                                         *)
(* The report of a process is what the checks of its installation say of   *)
(* the rendered PDF, the same on every run.  Its provenance names the      *)
(* report by its hash, and the installation.  Hashes are modelled by the   *)
(* contents they identify.                                                 *)
(***************************************************************************)
EXTENDS Naturals

CONSTANTS
    Processes,       \* finish and the runs of qa_pdf on other installations
    Reports,         \* passed reports
    Installations,   \* code version, dependency lock and runtime
    MaxRuns,         \* how often a process is started (a bound)
    None, Failed     \* no file; a report in which a check did not pass

Provenance(q, i) == [qa |-> q, installation |-> i]
Provenances == [qa : Reports, installation : Installations]

ASSUME NamesAssumption == /\ None \notin Reports \cup {Failed} \cup Provenances
                          /\ Failed \notin Reports
ASSUME RunsAssumption == MaxRuns \in Nat

VARIABLES
    report,          \* per process, what its checks say
    installation,    \* per process
    qa, provenance,  \* the two files
    ledger,          \* job-state.json
    pc,              \* where a process is
    state,           \* the ledger as the process loaded it
    persisted,       \* the hashes of the files that it found or wrote
    unread,          \* whether it could not read back a file in this run
    told,            \* what its caller was told last
    runs             \* how often it was started

toolchain == << report, installation >>
vars == << report, installation, qa, provenance, ledger, pc, state, persisted, unread, told, runs >>

Rendered == [stage |-> "RENDERED", qa |-> None, provenance |-> None]
Validated(q, v) == [stage |-> "VALIDATED", qa |-> q, provenance |-> v]

Init ==
    /\ report \in [Processes -> Reports \cup {Failed}]
    /\ installation \in [Processes -> Installations]
    /\ qa = None /\ provenance = None
    /\ ledger = Rendered
    /\ pc = [p \in Processes |-> "idle"]
    /\ state = [p \in Processes |-> Rendered]
    /\ persisted = [p \in Processes |-> [qa |-> None, provenance |-> None]]
    /\ unread = [p \in Processes |-> FALSE]
    /\ told = [p \in Processes |-> "nothing"]
    /\ runs = [p \in Processes |-> 0]

Go(p, label) == /\ pc' = [pc EXCEPT ![p] = label]
                /\ UNCHANGED << told, runs, toolchain >>

Return(p, code) == /\ pc' = [pc EXCEPT ![p] = "idle"]
                   /\ told' = [told EXCEPT ![p] = code]
                   /\ UNCHANGED << runs, toolchain >>

Start(p) ==
    /\ pc[p] = "idle" /\ runs[p] < MaxRuns
    /\ pc' = [pc EXCEPT ![p] = "check"]
    /\ told' = [told EXCEPT ![p] = "nothing"]
    /\ unread' = [unread EXCEPT ![p] = FALSE]
    /\ runs' = [runs EXCEPT ![p] = runs[p] + 1]
    /\ UNCHANGED << toolchain, qa, provenance, ledger, state, persisted >>

(* The state is RENDERED, or the VALIDATED one that follows it: no other    *)
(* stage follows while a candidate waits for its QA.  A report that did not *)
(* pass leaves no trace.                                                    *)
CheckInputs(p) ==
    /\ pc[p] = "check"
    /\ state' = [state EXCEPT ![p] = ledger]
    /\ IF report[p] = Failed THEN Return(p, "QA_FAILED") ELSE Go(p, "qa")
    /\ UNCHANGED << qa, provenance, ledger, persisted, unread >>

(* _write_or_verify_same on a file: created and read back, or found with   *)
(* the same bytes, or in conflict with them, or an error of the write,      *)
(* which may come after the link was made, or of the reading back, which is *)
(* told as a conflict whosever bytes these are.                             *)
LostCall(file, value, file2) == file2 \in {file, IF file = None THEN value ELSE file}

(* Fault: what was written is not read back, and may not be there.          *)
CreatedUnread(file, value, file2) == file = None /\ file2 \in {None, value}

Created(file, value, file2) == file = None /\ file2 = value

(* Fault: a file that exists is a conflict whatever is in it.               *)
ConflictByName(file, value) == file # None

Conflict(file, value) == file \notin {None, value}

(* Fault: a file that exists is accepted whatever is in it.                 *)
SameName(file, value, file2) == file # None /\ file2 = file

Same(file, value, file2) == file = value /\ file2 = file

Unread(p, file, value, file2) ==
    /\ file2 = IF file = None THEN value ELSE file
    /\ unread' = [unread EXCEPT ![p] = TRUE]

WriteQa(p) ==
    /\ pc[p] = "qa"
    /\ \/ /\ Created(qa, report[p], qa') \/ Same(qa, report[p], qa')
          /\ persisted' = [persisted EXCEPT ![p].qa = qa']
          /\ Go(p, "provenance")
          /\ UNCHANGED unread
       \/ /\ Conflict(qa, report[p])
          /\ Return(p, "QA_ARTIFACT_CONFLICT")
          /\ UNCHANGED << qa, persisted, unread >>
       \/ /\ LostCall(qa, report[p], qa')
          /\ Return(p, "QA_ARTIFACT_COMMIT_FAILED")
          /\ UNCHANGED << persisted, unread >>
       \/ /\ Unread(p, qa, report[p], qa')
          /\ Return(p, "QA_ARTIFACT_CONFLICT")
          /\ UNCHANGED persisted
    /\ UNCHANGED << provenance, ledger, state >>

MyProvenance(p) == Provenance(report[p], installation[p])

WriteProvenance(p) ==
    /\ pc[p] = "provenance"
    /\ \/ /\ Created(provenance, MyProvenance(p), provenance')
             \/ Same(provenance, MyProvenance(p), provenance')
          /\ persisted' = [persisted EXCEPT ![p].provenance = provenance']
          /\ IF persisted[p].qa # report[p]
             THEN Return(p, "QA_ARTIFACT_CONFLICT")
             ELSE Go(p, IF state[p].stage = "VALIDATED" THEN "compare" ELSE "commit")
          /\ UNCHANGED unread
       \/ /\ Conflict(provenance, MyProvenance(p))
          /\ Return(p, "QA_ARTIFACT_CONFLICT")
          /\ UNCHANGED << provenance, persisted, unread >>
       \/ /\ LostCall(provenance, MyProvenance(p), provenance')
          /\ Return(p, "QA_ARTIFACT_COMMIT_FAILED")
          /\ UNCHANGED << persisted, unread >>
       \/ /\ Unread(p, provenance, MyProvenance(p), provenance')
          /\ Return(p, "QA_ARTIFACT_CONFLICT")
          /\ UNCHANGED persisted
    /\ UNCHANGED << qa, ledger, state >>

(* A repetition after the ledger has taken the step. *)
CompareLedger(p) ==
    /\ pc[p] = "compare"
    /\ IF /\ state[p].qa = persisted[p].qa
          /\ state[p].provenance = persisted[p].provenance
       THEN Return(p, "QA_ALREADY_VALIDATED")
       ELSE Return(p, "QA_STATE_BINDING_MISMATCH")
    /\ UNCHANGED << qa, provenance, ledger, state, persisted, unread >>

(* write_job_state: compare with what was loaded and replace, or fail, and  *)
(* a failure may come after the replacement.                                *)
CommitTo(p, failure) ==
    LET next == Validated(persisted[p].qa, persisted[p].provenance) IN
    /\ pc[p] = "commit"
    /\ \/ /\ ledger = state[p]
          /\ ledger' = next
          /\ Return(p, "QA_VALIDATED")
       \/ /\ ledger' \in {ledger} \cup {n \in {next} : ledger = state[p]}
          /\ Return(p, failure)
    /\ UNCHANGED << qa, provenance, state, persisted, unread >>

(* Fault: the failure is swallowed.                                         *)
CommitStateQuietly(p) == CommitTo(p, "QA_VALIDATED")

CommitState(p) == CommitTo(p, "QA_STATE_CAS_FAILED")

(* The death of a process. *)
Crash(p) ==
    /\ pc[p] # "idle"
    /\ Return(p, "nothing")
    /\ UNCHANGED << qa, provenance, ledger, state, persisted, unread >>

Next == \E p \in Processes :
          \/ Start(p) \/ CheckInputs(p) \/ WriteQa(p) \/ WriteProvenance(p)
          \/ CompareLedger(p) \/ CommitState(p) \/ Crash(p)

Spec == Init /\ [][Next]_vars

-----------------------------------------------------------------------------
Codes == {"nothing", "QA_FAILED", "QA_VALIDATED", "QA_ALREADY_VALIDATED",
          "QA_ARTIFACT_CONFLICT", "QA_ARTIFACT_COMMIT_FAILED",
          "QA_STATE_BINDING_MISMATCH", "QA_STATE_CAS_FAILED"}
Ledgers == [stage : {"RENDERED", "VALIDATED"}, qa : Reports \cup {None},
            provenance : Provenances \cup {None}]

(* The values of the variables. *)
TypeOK ==
    /\ report \in [Processes -> Reports \cup {Failed}]
    /\ installation \in [Processes -> Installations]
    /\ qa \in Reports \cup {None} /\ provenance \in Provenances \cup {None}
    /\ ledger \in Ledgers
    /\ pc \in [Processes -> {"idle", "check", "qa", "provenance", "compare", "commit"}]
    /\ state \in [Processes -> Ledgers]
    /\ persisted \in [Processes -> [qa : Reports \cup {None},
                                    provenance : Provenances \cup {None}]]
    /\ unread \in [Processes -> BOOLEAN]
    /\ told \in [Processes -> Codes]
    /\ runs \in [Processes -> 0 .. MaxRuns]

(* A VALIDATED ledger names the report and the provenance that are in the   *)
(* directory, and that provenance is about that report: after every order   *)
(* of the writes of persist_qa_result by processes whose outputs differ.    *)
ValidatedIsBound ==
    ledger.stage = "VALIDATED" =>
        /\ qa # None /\ provenance # None
        /\ ledger.qa = qa /\ ledger.provenance = provenance
        /\ provenance.qa = qa

(* Whoever is told that the candidate has passed can rely on it: the ledger *)
(* is VALIDATED, with the report and the provenance of that very process,   *)
(* which is what finish asks for before it delivers.                        *)
PassedIsDurable ==
    \A p \in Processes : told[p] \in {"QA_VALIDATED", "QA_ALREADY_VALIDATED"} =>
        ledger = Validated(report[p], MyProvenance(p))

(* A conflict means that somebody else's bytes are there, unless a file     *)
(* could not be read back, which the caller is told in the same word: a     *)
(* process that is repeated after a crash, a failed write or a failed       *)
(* reading, in whichever of the two files, never trips over its own bytes,  *)
(* and never over the ledger.                                               *)
ConflictIsReal ==
    \A p \in Processes :
        /\ told[p] = "QA_ARTIFACT_CONFLICT" /\ ~unread[p] =>
              qa \notin {None, report[p]} \/ provenance \notin {None, MyProvenance(p)}
        /\ told[p] # "QA_STATE_BINDING_MISMATCH"

(* The files are never a mixture that nobody could complete: at any moment, *)
(* whatever broke off, some process would find nothing but its own bytes.   *)
SomebodyCanComplete ==
    qa # None \/ provenance # None => \E p \in Processes :
        /\ qa = report[p]
        /\ provenance \in {None, MyProvenance(p)}
=============================================================================

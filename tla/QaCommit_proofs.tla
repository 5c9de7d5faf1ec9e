--------------------------- MODULE QaCommit_proofs ---------------------------
(* What QaCommit promises, for every set of processes, reports and           *)
(* installations and every number of starts.                                 *)
EXTENDS QaCommit, TLAPS

(* The provenance on disk is about the report on disk. *)
FilesAgree == provenance # None => qa # None /\ provenance.qa = qa

(* A process that has come past a write has its own bytes on disk, and in    *)
(* hand: files that exist never change.                                      *)
WritesHold ==
    \A p \in Processes :
        /\ pc[p] \in {"qa", "provenance", "compare", "commit"} => report[p] # Failed
        /\ pc[p] \in {"provenance", "compare", "commit"} =>
              qa = report[p] /\ persisted[p].qa = report[p]
        /\ pc[p] \in {"compare", "commit"} =>
              provenance = MyProvenance(p) /\ persisted[p].provenance = MyProvenance(p)

(* The ledger moves once, so what a process loaded is the first ledger or    *)
(* the present one.                                                          *)
LedgerMovesOnce ==
    /\ ledger.stage = "RENDERED" => ledger = Rendered
    /\ \A p \in Processes :
        /\ state[p] \in {Rendered, ledger}
        /\ pc[p] = "compare" => state[p] # Rendered
        /\ pc[p] = "commit" => state[p] = Rendered

(* A conflict is with a file that exists, so that it stays one.              *)
ConflictLasts ==
    \A p \in Processes :
        /\ told[p] = "QA_ARTIFACT_CONFLICT" /\ ~unread[p] =>
              qa \notin {None, report[p]} \/ provenance \notin {None, MyProvenance(p)}
        /\ told[p] # "QA_STATE_BINDING_MISMATCH"

IInv == /\ TypeOK /\ FilesAgree /\ WritesHold /\ LedgerMovesOnce /\ ConflictLasts
        /\ ValidatedIsBound /\ PassedIsDurable /\ SomebodyCanComplete

LEMMA InitIInv == Init => IInv
  BY NamesAssumption, RunsAssumption
  DEF Init, IInv, TypeOK, FilesAgree, WritesHold, LedgerMovesOnce, ConflictLasts,
      ValidatedIsBound, PassedIsDurable, SomebodyCanComplete, Rendered, Ledgers, Codes

LEMMA StartStep ==
  ASSUME NEW p \in Processes, IInv, Start(p) PROVE IInv'
  BY NamesAssumption, RunsAssumption
  DEF Start, IInv, TypeOK, FilesAgree, WritesHold, LedgerMovesOnce, ConflictLasts,
      ValidatedIsBound, PassedIsDurable, SomebodyCanComplete, Codes, MyProvenance,
      toolchain, Validated

LEMMA CheckInputsStep ==
  ASSUME NEW p \in Processes, IInv, CheckInputs(p) PROVE IInv'
<1>1. TypeOK'
  BY NamesAssumption DEF CheckInputs, Go, Return, toolchain, IInv, TypeOK, Codes
<1>2. FilesAgree'
  BY NamesAssumption DEF CheckInputs, Go, Return, toolchain, IInv, TypeOK, FilesAgree
<1>3. WritesHold'
  BY NamesAssumption DEF CheckInputs, Go, Return, toolchain, IInv, TypeOK, FilesAgree, WritesHold, MyProvenance
<1>4. LedgerMovesOnce'
  BY NamesAssumption DEF CheckInputs, Go, Return, toolchain, IInv, TypeOK, LedgerMovesOnce, Rendered, Ledgers
<1>5. ConflictLasts'
  BY NamesAssumption DEF CheckInputs, Go, Return, toolchain, IInv, TypeOK, FilesAgree, ConflictLasts, MyProvenance
<1>6. ValidatedIsBound'
  BY NamesAssumption DEF CheckInputs, Go, Return, toolchain, IInv, TypeOK, ValidatedIsBound
<1>7. PassedIsDurable'
  BY NamesAssumption DEF CheckInputs, Go, Return, toolchain, IInv, TypeOK, PassedIsDurable, MyProvenance, Validated
<1>8. SomebodyCanComplete'
  BY NamesAssumption DEF CheckInputs, Go, Return, toolchain, IInv, TypeOK, FilesAgree, SomebodyCanComplete, MyProvenance
<1> QED
  BY <1>1, <1>2, <1>3, <1>4, <1>5, <1>6, <1>7, <1>8 DEF IInv

LEMMA WriteQaStep ==
  ASSUME NEW p \in Processes, IInv, WriteQa(p) PROVE IInv'
<1>1. report[p] \in Reports /\ report[p] # None
  BY NamesAssumption DEF WriteQa, IInv, TypeOK, WritesHold
<1>2. /\ qa' \in {qa, report[p]}
      /\ qa # None => qa' = qa
      /\ UNCHANGED << provenance, ledger, state, runs, toolchain >>
  BY <1>1 DEF WriteQa, Go, Return, Created, Same, Conflict, LostCall, Unread
<1>3. TypeOK'
  <2>1. /\ \/ persisted' = persisted
           \/ qa' = report[p] /\ persisted' = [persisted EXCEPT ![p].qa = report[p]]
        /\ \E l \in {"idle", "provenance"} : pc' = [pc EXCEPT ![p] = l]
        /\ \/ told' = told
           \/ \E c \in {"QA_ARTIFACT_CONFLICT", "QA_ARTIFACT_COMMIT_FAILED"} :
                 told' = [told EXCEPT ![p] = c]
        /\ unread' \in {unread, [unread EXCEPT ![p] = TRUE]}
    BY DEF WriteQa, Go, Return, Created, Same, Unread
  <2>2. persisted' \in [Processes -> [qa : Reports \cup {None},
                                      provenance : Provenances \cup {None}]]
    BY <1>1, <2>1 DEF IInv, TypeOK
  <2>3. told' \in [Processes -> Codes]
    BY <2>1 DEF IInv, TypeOK, Codes
  <2>4. pc' \in [Processes -> {"idle", "check", "qa", "provenance", "compare", "commit"}]
    BY <2>1 DEF IInv, TypeOK
  <2>5. unread' \in [Processes -> BOOLEAN]
    BY <2>1 DEF IInv, TypeOK
  <2> QED
    BY <1>1, <1>2, <2>2, <2>3, <2>4, <2>5 DEF IInv, TypeOK, toolchain
<1>4. FilesAgree'
  BY <1>2 DEF IInv, FilesAgree
<1>5. WritesHold'
  BY <1>1, <1>2, NamesAssumption
  DEF WriteQa, Go, Return, toolchain, IInv, TypeOK, FilesAgree, WritesHold, MyProvenance,
      Created, Same, Conflict, LostCall, Unread
<1>6. LedgerMovesOnce'
  BY <1>2 DEF WriteQa, Go, Return, IInv, TypeOK, LedgerMovesOnce
<1>7. ConflictLasts'
  BY <1>1, <1>2
  DEF WriteQa, Go, Return, toolchain, IInv, TypeOK, ConflictLasts, MyProvenance,
      Created, Same, Conflict, LostCall, Unread
<1>8. ValidatedIsBound'
  BY <1>2 DEF IInv, ValidatedIsBound
<1>9. PassedIsDurable'
  BY <1>2 DEF WriteQa, Go, Return, toolchain, IInv, TypeOK, PassedIsDurable, MyProvenance
<1>10. SomebodyCanComplete'
  BY <1>1, <1>2 DEF toolchain, IInv, FilesAgree, SomebodyCanComplete, MyProvenance
<1> QED
  BY <1>3, <1>4, <1>5, <1>6, <1>7, <1>8, <1>9, <1>10 DEF IInv

LEMMA WriteProvenanceStep ==
  ASSUME NEW p \in Processes, IInv, WriteProvenance(p) PROVE IInv'
<1> DEFINE mine == MyProvenance(p)
<1>1. /\ report[p] \in Reports /\ qa = report[p] /\ persisted[p].qa = report[p]
      /\ qa # None
  BY NamesAssumption DEF WriteProvenance, IInv, TypeOK, WritesHold
<1>2. mine \in Provenances /\ mine # None /\ mine.qa = qa
  BY <1>1, NamesAssumption DEF IInv, TypeOK, MyProvenance, Provenance, Provenances
<1>3. MyProvenance(p)' = mine /\ \A q \in Processes : MyProvenance(q)' = MyProvenance(q)
  BY DEF WriteProvenance, Go, Return, toolchain, MyProvenance
<1> HIDE DEF mine
<1>4. /\ provenance' \in {provenance, mine}
      /\ provenance # None => provenance' = provenance
      /\ UNCHANGED << qa, ledger, state, runs, report, installation >>
  BY <1>2 DEF WriteProvenance, Go, Return, Created, Same, Conflict, LostCall, Unread, toolchain, mine
<1>5. \/ /\ provenance' = mine
         /\ persisted' = [persisted EXCEPT ![p].provenance = mine]
         /\ \/ state[p].stage = "VALIDATED" /\ pc' = [pc EXCEPT ![p] = "compare"]
            \/ state[p].stage # "VALIDATED" /\ pc' = [pc EXCEPT ![p] = "commit"]
         /\ told' = told /\ unread' = unread
      \/ /\ persisted' = persisted /\ pc' = [pc EXCEPT ![p] = "idle"]
         /\ \/ /\ provenance' \notin {None, mine}
               /\ told' = [told EXCEPT ![p] = "QA_ARTIFACT_CONFLICT"]
               /\ unread' = unread
            \/ /\ told' = [told EXCEPT ![p] = "QA_ARTIFACT_COMMIT_FAILED"]
               /\ unread' = unread
            \/ /\ told' = [told EXCEPT ![p] = "QA_ARTIFACT_CONFLICT"]
               /\ unread' = [unread EXCEPT ![p] = TRUE]
  BY <1>1 DEF WriteProvenance, Go, Return, Created, Same, Conflict, LostCall, Unread, mine
<1>6. TypeOK'
  <2>1. persisted' \in [Processes -> [qa : Reports \cup {None},
                                      provenance : Provenances \cup {None}]]
    BY <1>2, <1>5 DEF IInv, TypeOK
  <2>2. told' \in [Processes -> Codes]
    BY <1>5 DEF IInv, TypeOK, Codes
  <2>3. pc' \in [Processes -> {"idle", "check", "qa", "provenance", "compare", "commit"}]
    BY <1>5 DEF IInv, TypeOK
  <2>4. unread' \in [Processes -> BOOLEAN]
    BY <1>5 DEF IInv, TypeOK
  <2> QED
    BY <1>2, <1>4, <2>1, <2>2, <2>3, <2>4 DEF IInv, TypeOK
<1>7. FilesAgree'
  BY <1>1, <1>2, <1>4 DEF IInv, FilesAgree
<1>8. WritesHold'
  <2>1. pc[p] = "provenance" /\ report[p] # Failed
    BY DEF WriteProvenance, IInv, WritesHold
  <2>2. ASSUME NEW q \in Processes, pc[q] \in {"compare", "commit"}
        PROVE  provenance # None
    <3>1. report[q] \in Reports /\ provenance = MyProvenance(q)
      BY <2>2, NamesAssumption DEF IInv, TypeOK, WritesHold
    <3> QED
      BY <3>1, NamesAssumption DEF IInv, TypeOK, MyProvenance, Provenance, Provenances
  <2>3. ASSUME NEW q \in Processes, q # p
        PROVE  /\ pc'[q] = pc[q] /\ persisted'[q] = persisted[q]
               /\ pc[q] \in {"compare", "commit"} => provenance' = provenance
    BY <1>4, <1>5, <2>2, <2>3 DEF IInv, TypeOK
  <2>4. \/ /\ pc'[p] \in {"compare", "commit"} /\ provenance' = mine
           /\ persisted'[p].qa = persisted[p].qa /\ persisted'[p].provenance = mine
        \/ pc'[p] = "idle"
    BY <1>5 DEF IInv, TypeOK
  <2> QED
    BY <1>1, <1>3, <1>4, <2>1, <2>3, <2>4 DEF IInv, WritesHold, mine
<1>9. LedgerMovesOnce'
  BY <1>4, <1>5 DEF IInv, TypeOK, Ledgers, LedgerMovesOnce, Rendered
<1>10. ConflictLasts'
  BY <1>2, <1>3, <1>4, <1>5 DEF IInv, TypeOK, ConflictLasts, mine
<1>11. ValidatedIsBound'
  BY <1>4 DEF IInv, ValidatedIsBound
<1>12. PassedIsDurable'
  BY <1>3, <1>4, <1>5 DEF IInv, TypeOK, PassedIsDurable
<1>13. SomebodyCanComplete'
  BY <1>1, <1>2, <1>3, <1>4 DEF IInv, SomebodyCanComplete, mine
<1> QED
  BY <1>6, <1>7, <1>8, <1>9, <1>10, <1>11, <1>12, <1>13 DEF IInv

LEMMA CompareLedgerStep ==
  ASSUME NEW p \in Processes, IInv, CompareLedger(p) PROVE IInv'
<1>1. /\ qa = report[p] /\ provenance = MyProvenance(p)
      /\ persisted[p].qa = qa /\ persisted[p].provenance = provenance
  BY DEF CompareLedger, IInv, WritesHold
<1>2. state[p] = ledger /\ ledger.stage = "VALIDATED"
  BY DEF CompareLedger, IInv, LedgerMovesOnce, TypeOK, Ledgers
<1>3. ledger.qa = qa /\ ledger.provenance = provenance
  BY <1>2 DEF IInv, ValidatedIsBound
<1>4. ledger = Validated(report[p], MyProvenance(p))
  BY <1>1, <1>2, <1>3 DEF IInv, TypeOK, Ledgers, Validated
<1>5. /\ pc' = [pc EXCEPT ![p] = "idle"]
      /\ told' = [told EXCEPT ![p] = "QA_ALREADY_VALIDATED"]
      /\ UNCHANGED << qa, provenance, ledger, state, persisted, unread, runs, report, installation >>
  BY <1>1, <1>2, <1>3 DEF CompareLedger, Return, toolchain
<1>6. \A q \in Processes : MyProvenance(q)' = MyProvenance(q)
  BY <1>5 DEF MyProvenance
<1>7. TypeOK'
  BY <1>5 DEF IInv, TypeOK, Codes
<1>8. FilesAgree' /\ ValidatedIsBound' /\ SomebodyCanComplete'
  BY <1>5, <1>6 DEF IInv, FilesAgree, ValidatedIsBound, SomebodyCanComplete
<1>9. WritesHold'
  BY <1>5, <1>6 DEF IInv, TypeOK, WritesHold
<1>10. LedgerMovesOnce'
  BY <1>5 DEF IInv, TypeOK, LedgerMovesOnce
<1>11. ConflictLasts'
  BY <1>5, <1>6 DEF IInv, TypeOK, ConflictLasts
<1>12. PassedIsDurable'
  BY <1>4, <1>5, <1>6 DEF IInv, TypeOK, PassedIsDurable
<1> QED
  BY <1>7, <1>8, <1>9, <1>10, <1>11, <1>12 DEF IInv

LEMMA CommitStateStep ==
  ASSUME NEW p \in Processes, IInv, CommitState(p) PROVE IInv'
<1> DEFINE next == Validated(report[p], MyProvenance(p))
<1>1. /\ qa = report[p] /\ provenance = MyProvenance(p)
      /\ persisted[p].qa = qa /\ persisted[p].provenance = provenance
      /\ report[p] \in Reports /\ qa # None
  BY NamesAssumption DEF CommitState, CommitTo, IInv, TypeOK, WritesHold
<1>2. provenance \in Provenances /\ provenance # None /\ provenance.qa = qa
  BY <1>1, NamesAssumption DEF IInv, TypeOK, MyProvenance, Provenance, Provenances
<1>3. next \in Ledgers /\ next.stage = "VALIDATED" /\ next.qa = qa /\ next.provenance = provenance
  BY <1>1, <1>2 DEF Validated, Ledgers
<1>4. MyProvenance(p)' = MyProvenance(p) /\ \A q \in Processes : MyProvenance(q)' = MyProvenance(q)
  BY DEF CommitState, CommitTo, Return, toolchain, MyProvenance
<1>5. /\ pc' = [pc EXCEPT ![p] = "idle"]
      /\ UNCHANGED << qa, provenance, state, persisted, unread, runs, report, installation >>
      /\ \/ /\ ledger = state[p] /\ ledger' = next
            /\ told' = [told EXCEPT ![p] = "QA_VALIDATED"]
         \/ /\ ledger' = ledger \/ (ledger = state[p] /\ ledger' = next)
            /\ told' = [told EXCEPT ![p] = "QA_STATE_CAS_FAILED"]
  <2>1. next = Validated(persisted[p].qa, persisted[p].provenance)
    BY <1>1
  <2> HIDE DEF next
  <2> QED
    BY <2>1 DEF CommitState, CommitTo, Return, toolchain
<1>6. state[p] = Rendered
  BY DEF CommitState, CommitTo, IInv, LedgerMovesOnce
<1>7. next' = next
  BY <1>4, <1>5 DEF Validated
<1> HIDE DEF next
<1>8. TypeOK'
  BY <1>3, <1>5 DEF IInv, TypeOK, Codes
<1>9. FilesAgree'
  BY <1>5 DEF IInv, FilesAgree
<1>10. SomebodyCanComplete'
  BY <1>4, <1>5 DEF IInv, SomebodyCanComplete
<1>11. WritesHold'
  BY <1>4, <1>5 DEF IInv, TypeOK, WritesHold
<1>12. LedgerMovesOnce'
  BY <1>3, <1>5, <1>6 DEF IInv, TypeOK, LedgerMovesOnce, Rendered
<1>13. ConflictLasts'
  BY <1>4, <1>5 DEF IInv, TypeOK, ConflictLasts
<1>14. ValidatedIsBound'
  BY <1>1, <1>2, <1>3, <1>5 DEF IInv, ValidatedIsBound
<1>15. PassedIsDurable'
  <2>1. CASE ledger' = ledger /\ told' = [told EXCEPT ![p] = "QA_STATE_CAS_FAILED"]
    BY <1>4, <1>5, <2>1 DEF IInv, TypeOK, PassedIsDurable
  <2>2. CASE ledger = state[p] /\ ledger' = next
    <3>1. \A q \in Processes : told[q] \notin {"QA_VALIDATED", "QA_ALREADY_VALIDATED"}
      <4>1. ledger.stage = "RENDERED"
        BY <1>6, <2>2 DEF Rendered
      <4>2. \A q \in Processes : Validated(report[q], MyProvenance(q)).stage = "VALIDATED"
        BY DEF Validated
      <4> QED
        BY <4>1, <4>2 DEF IInv, PassedIsDurable
    <3>2. next = Validated(report[p], MyProvenance(p))
      BY DEF next
    <3> QED
      BY <1>4, <1>5, <2>2, <3>1, <3>2 DEF IInv, TypeOK, PassedIsDurable
  <2> QED
    BY <1>5, <2>1, <2>2
<1> QED
  BY <1>8, <1>9, <1>10, <1>11, <1>12, <1>13, <1>14, <1>15 DEF IInv

LEMMA CrashStep ==
  ASSUME NEW p \in Processes, IInv, Crash(p) PROVE IInv'
  BY NamesAssumption, RunsAssumption
  DEF Crash, Return, IInv, TypeOK, FilesAgree, WritesHold, LedgerMovesOnce,
      ConflictLasts, ValidatedIsBound, PassedIsDurable, SomebodyCanComplete, Codes,
      MyProvenance, toolchain, Validated

LEMMA NextIInv == IInv /\ [Next]_vars => IInv'
<1> SUFFICES ASSUME IInv, [Next]_vars PROVE IInv'
  OBVIOUS
<1>1. CASE UNCHANGED vars
  BY <1>1
  DEF vars, toolchain, IInv, TypeOK, FilesAgree, WritesHold, LedgerMovesOnce, ConflictLasts,
      ValidatedIsBound, PassedIsDurable, SomebodyCanComplete, MyProvenance
<1>2. CASE Next
  <2>1. PICK p \in Processes :
          \/ Start(p) \/ CheckInputs(p) \/ WriteQa(p) \/ WriteProvenance(p)
          \/ CompareLedger(p) \/ CommitState(p) \/ Crash(p)
    BY <1>2 DEF Next
  <2> QED
    BY <2>1, StartStep, CheckInputsStep, WriteQaStep, WriteProvenanceStep, CompareLedgerStep,
       CommitStateStep, CrashStep
<1> QED
  BY <1>1, <1>2

(* The inductive invariant of persist_qa_result under any interleaving.      *)
THEOREM Invariance == Spec => []IInv
  BY InitIInv, NextIInv, PTL DEF Spec

(* The variables keep their types.                                           *)
THEOREM TypeCorrect == Spec => []TypeOK
  BY Invariance, PTL DEF IInv

(* A VALIDATED ledger names the report and the provenance on disk, and they  *)
(* belong together (persist_qa_result).                                      *)
THEOREM LedgerNamesFiles == Spec => []ValidatedIsBound
  BY Invariance, PTL DEF IInv

(* QA_VALIDATED and QA_ALREADY_VALIDATED, once told, stay true.              *)
THEOREM PassedIsFinal == Spec => []PassedIsDurable
  BY Invariance, PTL DEF IInv

(* _write_or_verify_same: no process ever conflicts with its own files that  *)
(* it can read.                                                              *)
THEOREM ConflictsAreReal == Spec => []ConflictIsReal
<1>1. IInv => ConflictIsReal
  BY DEF IInv, ConflictLasts, ConflictIsReal
<1> QED
  BY <1>1, Invariance, PTL

(* Whatever broke off, the files can still be completed by somebody.         *)
THEOREM AlwaysCompletable == Spec => []SomebodyCanComplete
  BY Invariance, PTL DEF IInv
=============================================================================

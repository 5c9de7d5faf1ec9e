-------------------------- MODULE PaperCases_proofs ---------------------------
(***************************************************************************)
(* What the caller of a sandboxed operation is told is true, whatever and  *)
(* however much goes wrong in the call; the search for the notes of a      *)
(* paper finds as many as the pages allow, however many candidates it has; *)
(* and every layout of a paper is sound, however many flows, lines and     *)
(* pages it has.                                                           *)
(*                                                                         *)
(* The first proof follows a failure on its way: the step of the child     *)
(* that raises it, the clause or the entry point that answers it, the      *)
(* parent's judgement, and the bridge.  Each of the three tables is        *)
(* described once for all operations; that the child stops at the first    *)
(* place where something is wrong is shown for each.                       *)
(*                                                                         *)
(* The second is about folds: an insertion sort, which makes the notes a   *)
(* sequence, and the binary search over its prefixes.  The library folds   *)
(* over the subsets of a finite set, which are shown, from the             *)
(* well-founded order of the numbers, to have the property of the empty    *)
(* one whenever every step keeps it.                                       *)
(*                                                                         *)
(* The third goes through the layout line by line.  A fold over the        *)
(* numbers from 1 to n is the end of a history of n steps; what each line  *)
(* keeps is that all placed lines are behind the place of the next one,    *)
(* within their columns, and all lines before it in the order of the       *)
(* flows; and that a heading and what follows it take no more than what    *)
(* was reserved for them.                                                  *)
(***************************************************************************)
EXTENDS PaperCases, TLAPS, FiniteSetTheorems, WellFoundedInduction

SandboxOperations == {"preflight", "normalize", "extract", "render", "qa"}

Places == {"cleanup", "prepare", "machine", "token", "input", "candidate", "preflight",
           "normalization", "handoff", "runtime", "core", "result", "write", "output", "schema",
           "paper"}

(* The places at which a step of the child raises something.               *)
Steps == {"input", "candidate", "preflight", "normalization", "handoff", "runtime", "core",
          "result", "write"}

ArtifactPlaces == {"preflight", "normalization", "handoff", "candidate"}

-----------------------------------------------------------------------------
(* The way into the child.                                                 *)

(* Both sides agree on the requests: none is refused.                      *)
LEMMA RequestsAreValid ==
    ASSUME NEW c, IsSandboxCall(c)
    PROVE  RequestIsValid(c.op, Request(c.op))
<1>1. CASE c.op = "preflight"
  BY <1>1 DEF RequestIsValid, Request, PreflightRequest, PreflightRequestIsValid
<1>2. CASE c.op = "normalize"
  BY <1>2 DEF RequestIsValid, Request, NormalizationRequest, NormalizationRequestIsValid
<1>3. CASE c.op = "extract"
  BY <1>3 DEF RequestIsValid, Request, ExtractionRequest, ExtractionRequestIsValid
<1>4. CASE c.op = "render"
  BY <1>4 DEF RequestIsValid, Request, RenderRequest, RenderRequestIsValid
<1>5. CASE c.op = "qa"
  BY <1>5 DEF RequestIsValid, Request, QaRequest, QaRequestIsValid
<1>6. QED BY <1>1, <1>2, <1>3, <1>4, <1>5 DEF IsSandboxCall

(* An artifact that an operation does not use is not in its workspace.     *)
LEMMA LaidOutIs ==
    ASSUME NEW c, IsSandboxCall(c)
    PROVE  /\ LaidOut(c).op = c.op /\ LaidOut(c).size = c.size
           /\ LaidOut(c).wrong = Else(Clause(ArtifactPlaces \ Staged(c.op), "missing"), c.wrong)
  BY DEF LaidOut, IsSandboxCall, ArtifactPlaces

(* Everywhere else the child finds what is wrong in the call.              *)
LEMMA RaisesAreKept ==
    ASSUME NEW c, IsSandboxCall(c), NEW effects,
           NEW p, p \notin ArtifactPlaces \ Staged(c.op)
    PROVE  /\ p \in DOMAIN LaidOut(c).wrong <=> p \in DOMAIN c.wrong
           /\ Raises(LaidOut(c), p, effects) = Raises(c, p, effects)
<1> DEFINE absent == ArtifactPlaces \ Staged(c.op)
           d == LaidOut(c)
<1>1. d.wrong = Else(Clause(absent, "missing"), c.wrong)
  BY LaidOutIs
<1>2. DOMAIN Clause(absent, "missing") = absent
  BY DEF Clause
<1>3. DOMAIN d.wrong = absent \cup DOMAIN c.wrong
  BY <1>1, <1>2 DEF Else
<1>4. ASSUME p \in DOMAIN c.wrong PROVE d.wrong[p] = c.wrong[p]
  BY <1>1, <1>2, <1>4 DEF Else
<1> HIDE DEF d, absent
<1>5. p \notin absent
  BY DEF absent
<1>6. /\ p \in DOMAIN d.wrong <=> p \in DOMAIN c.wrong
      /\ Raises(d, p, effects) = Raises(c, p, effects)
  BY <1>3, <1>4, <1>5 DEF Raises
<1>7. QED BY <1>6 DEF d

(* What is not laid out is not looked at.                                  *)
LEMMA ChildSees ==
    ASSUME NEW c, IsSandboxCall(c)
    PROVE  Dispatched(LaidOut(c)) = Dispatched(c)
<1> DEFINE d == LaidOut(c)
<1>1. d.op = c.op /\ d.size = c.size
  BY LaidOutIs
<1>2. \A p : p \notin ArtifactPlaces \ Staged(c.op) =>
          /\ p \in DOMAIN d.wrong <=> p \in DOMAIN c.wrong
          /\ \A effects : Raises(d, p, effects) = Raises(c, p, effects)
  BY RaisesAreKept
<1> SUFFICES Dispatched(d) = Dispatched(c)
  OBVIOUS
<1> HIDE DEF d
<1>3. /\ Contract(d) = Contract(c)
      /\ \A p \in {"input", "runtime", "core", "result", "write"} :
             \A effects : Raises(d, p, effects) = Raises(c, p, effects)
  BY <1>2 DEF Contract, ArtifactPlaces
<1>4. CASE c.op = "preflight"
  <2>1. PreflightWrite(d) = PreflightWrite(c)
    BY <1>1, <1>3 DEF PreflightWrite
  <2>2. PreflightAnswer(d) = PreflightAnswer(c)
    BY <1>3, <2>1 DEF PreflightAnswer
  <2>3. QED BY <1>1, <1>4, <2>2 DEF Dispatched
<1>5. CASE c.op = "normalize"
  <2>1. NormalizationWrite(d) = NormalizationWrite(c)
    BY <1>1, <1>3 DEF NormalizationWrite
  <2>2. Raises(d, "preflight", PreflightEffects) = Raises(c, "preflight", PreflightEffects)
    BY <1>2, <1>5 DEF Staged, ArtifactPlaces
  <2>3. NormalizationAnswer(d) = NormalizationAnswer(c)
    BY <1>3, <2>1, <2>2 DEF NormalizationAnswer
  <2>4. QED BY <1>1, <1>5, <2>3 DEF Dispatched
<1>6. CASE c.op = "extract"
  <2>1. ExtractionWrite(d) = ExtractionWrite(c)
    BY <1>1, <1>3 DEF ExtractionWrite
  <2>2. /\ Raises(d, "preflight", PreflightEffects) = Raises(c, "preflight", PreflightEffects)
        /\ Raises(d, "normalization", NormalizationEffects) =
               Raises(c, "normalization", NormalizationEffects)
    BY <1>2, <1>6 DEF Staged, ArtifactPlaces
  <2>3. ExtractionAnswer(d) = ExtractionAnswer(c)
    BY <1>3, <2>1, <2>2 DEF ExtractionAnswer
  <2>4. QED BY <1>1, <1>6, <2>3 DEF Dispatched
<1>7. CASE c.op = "render"
  <2>1. RenderRead(d) = RenderRead(c)
    BY <1>1, <1>3 DEF RenderRead
  <2>2. Raises(d, "handoff", HandoffEffects) = Raises(c, "handoff", HandoffEffects)
    BY <1>2, <1>7 DEF Staged, ArtifactPlaces
  <2>3. RenderAnswer(d) = RenderAnswer(c)
    BY <1>3, <2>1, <2>2 DEF RenderAnswer
  <2>4. QED BY <1>1, <1>7, <2>3 DEF Dispatched
<1>8. CASE c.op = "qa"
  <2>1. QaWrite(d) = QaWrite(c)
    BY <1>1, <1>3 DEF QaWrite
  <2>2. /\ Raises(d, "handoff", HandoffEffects) = Raises(c, "handoff", HandoffEffects)
        /\ Raises(d, "candidate", InputEffects) = Raises(c, "candidate", InputEffects)
    BY <1>2, <1>8 DEF Staged, ArtifactPlaces
  <2>3. QaAnswer(d) = QaAnswer(c)
    BY <1>3, <2>1, <2>2 DEF QaAnswer
  <2>4. QED BY <1>1, <1>8, <2>3 DEF Dispatched
<1>9. QED BY <1>4, <1>5, <1>6, <1>7, <1>8 DEF IsSandboxCall

(* What is wrong before the child answers decides; a cleanup that fails most. *)
LEMMA RunWorkerIs ==
    ASSUME NEW c, IsSandboxCall(c)
    PROVE  RunWorker(c) =
               IF "cleanup" \in DOMAIN c.wrong THEN <<"CLEANUP">> ELSE
               IF "prepare" \in DOMAIN c.wrong THEN <<PrepareEffects[c.wrong["prepare"]]>> ELSE
               IF "machine" \in DOMAIN c.wrong THEN <<c.wrong["machine"]>> ELSE
               Judged(c, Dispatched(c))
  BY RequestsAreValid, ChildSees DEF RunWorker

-----------------------------------------------------------------------------
(* From the exception to the code that the bridge is given.                *)

Reply(raised, clauses) ==
    IF raised \in DOMAIN clauses THEN Failed(clauses[raised]) ELSE ChildMain(raised)

(* A step that raises ends the operation with the reply to it.             *)
LEMMA AttemptIs ==
    ASSUME NEW raised, NEW clauses
    PROVE  Attempt(raised, clauses) =
               IF raised = "nothing" THEN <<>> ELSE <<Reply(raised, clauses)>>
  BY DEF Attempt, Reply

(* A code of the child is passed on if the bridge knows it.                *)
LEMMA FailedIsReported ==
    ASSUME NEW c, NEW code, code # "none", NEW passed, NEW failed
    PROVE  Translated(Judged(c, Failed(code)), passed, failed) =
               IF code \in passed THEN code ELSE failed
<1>1. Failed(code).status = "error" /\ Failed(code).result = {} /\ Failed(code).error = code
  BY DEF Failed
<1>2. ResponseIsValid(Failed(code))
  BY <1>1 DEF ResponseIsValid
<1>3. Judged(c, Failed(code)) = <<"REPORTED", code>>
  BY <1>1, <1>2 DEF Judged
<1>4. <<"REPORTED", code>>[1] = "REPORTED" /\ <<"REPORTED", code>>[2] = code
  OBVIOUS
<1>5. Translated(<<"REPORTED", code>>, passed, failed) = IF code \in passed THEN code ELSE failed
  BY <1>4 DEF Translated
<1>6. QED BY <1>3, <1>5

(* A child that died says something only to a parent that saw the Job's message. *)
LEMMA DiedIsJudged ==
    ASSUME NEW c, NEW raised, NEW passed, NEW failed
    PROVE  Translated(Judged(c, Died(raised)), passed, failed) =
               IF raised = "MemoryError" /\ c.reported THEN "WORKER_LIMIT_EXCEEDED" ELSE failed
<1>1. Died(raised).status = "died" /\ Died(raised).error = raised
  BY DEF Died
<1>2. CASE raised = "MemoryError" /\ c.reported
  <2>1. Judged(c, Died(raised)) = <<"MEMORY">>
    BY <1>1, <1>2 DEF Judged
  <2>2. Translated(<<"MEMORY">>, passed, failed) = "WORKER_LIMIT_EXCEEDED"
    BY DEF Translated
  <2>3. QED BY <1>2, <2>1, <2>2
<1>3. CASE ~(raised = "MemoryError" /\ c.reported)
  <2>1. Judged(c, Died(raised)) = <<"EXECUTION">>
    BY <1>1, <1>3 DEF Judged
  <2>2. Translated(<<"EXECUTION">>, passed, failed) = failed
    BY DEF Translated
  <2>3. QED BY <1>3, <2>1, <2>2
<1>4. QED BY <1>2, <1>3

(* What an exception comes to, through the clauses and the bridge.         *)
LEMMA ReplyTells ==
    ASSUME NEW c, NEW raised \in Errors, NEW clauses, NEW passed, NEW failed,
           \A e \in DOMAIN clauses : clauses[e] # "none",
           passed \cap {"PROTOCOL_ERROR", "WORKER_EXECUTION_FAILED"} = {}
    PROVE  Translated(Judged(c, Reply(raised, clauses)), passed, failed) =
               IF raised \in DOMAIN clauses
               THEN IF clauses[raised] \in passed THEN clauses[raised] ELSE failed
               ELSE IF raised = "MemoryError" /\ c.reported THEN "WORKER_LIMIT_EXCEEDED"
               ELSE failed
<1>1. CASE raised \in DOMAIN clauses
  <2>1. Reply(raised, clauses) = Failed(clauses[raised]) /\ clauses[raised] # "none"
    BY <1>1 DEF Reply
  <2>2. Translated(Judged(c, Failed(clauses[raised])), passed, failed) =
            IF clauses[raised] \in passed THEN clauses[raised] ELSE failed
    BY <2>1, FailedIsReported
  <2>3. QED BY <1>1, <2>1, <2>2
<1>2. CASE raised \notin DOMAIN clauses
  <2>1. Reply(raised, clauses) = ChildMain(raised)
    BY <1>2 DEF Reply
  <2>2. CASE raised \in {"RuntimeError", "ImportError", "MemoryError"}
    <3>1. ChildMain(raised) = Died(raised)
      BY <2>2 DEF ChildMain, ValueErrors
    <3>2. Translated(Judged(c, Died(raised)), passed, failed) =
              IF raised = "MemoryError" /\ c.reported THEN "WORKER_LIMIT_EXCEEDED" ELSE failed
      BY DiedIsJudged
    <3>3. QED BY <1>2, <2>1, <3>1, <3>2
  <2>3. CASE raised \in ValueErrors \cup {"OSError"}
    <3>1. PICK code \in {"PROTOCOL_ERROR", "WORKER_EXECUTION_FAILED"} :
              ChildMain(raised) = Failed(code)
      BY <2>3 DEF ChildMain, ValueErrors
    <3>2. raised # "MemoryError" /\ code \notin passed /\ code # "none"
      BY <2>3 DEF ValueErrors
    <3>3. Translated(Judged(c, Failed(code)), passed, failed) = failed
    <4>1. Translated(Judged(c, Failed(code)), passed, failed) =
              IF code \in passed THEN code ELSE failed
      BY <3>2, FailedIsReported
    <4>2. QED BY <3>2, <4>1
    <3>4. QED BY <1>2, <2>1, <3>1, <3>2, <3>3
  <2>4. QED BY <2>2, <2>3 DEF Errors
<1>3. QED BY <1>1, <1>2

(* A success is one if the parent can take the files.                      *)
LEMMA OutputTells ==
    ASSUME NEW c, NEW files, NEW passed, NEW failed
    PROVE  Translated(Judged(c, Succeeded(files)), passed, failed) =
               IF IsTaken(c, files) THEN "OK" ELSE failed
<1>1. /\ Succeeded(files).status = "ok" /\ Succeeded(files).error = "none"
      /\ Succeeded(files).result = files
  BY DEF Succeeded
<1>2. ResponseIsValid(Succeeded(files))
  BY <1>1 DEF ResponseIsValid
<1>3. CASE IsTaken(c, files)
  <2>1. Judged(c, Succeeded(files)) = <<"OK">>
    BY <1>1, <1>2, <1>3 DEF Judged
  <2>2. Translated(<<"OK">>, passed, failed) = "OK"
    BY DEF Translated
  <2>3. QED BY <1>3, <2>1, <2>2
<1>4. CASE ~IsTaken(c, files)
  <2>1. Judged(c, Succeeded(files)) = <<"EXECUTION">>
    BY <1>1, <1>2, <1>4 DEF Judged
  <2>2. Translated(<<"EXECUTION">>, passed, failed) = failed
    BY DEF Translated
  <2>3. QED BY <1>4, <2>1, <2>2
<1>5. QED BY <1>3, <1>4

-----------------------------------------------------------------------------
(* The tables of the five operations.                                      *)

EffectsOf(o, p) ==
    CASE p = "input" -> IF o = "preflight" THEN PathEffects ELSE InputEffects
      [] p = "candidate" -> InputEffects
      [] p = "preflight" -> PreflightEffects
      [] p = "normalization" -> NormalizationEffects
      [] p = "handoff" -> HandoffEffects
      [] p = "runtime" -> Itself
      [] p = "core" -> IF o = "normalize" THEN CoreEffects("NormalizationError")
                       ELSE IF o = "render" THEN CoreEffects("CompositionError") ELSE Itself
      [] p = "result" -> ResultEffects
      [] p = "write" -> IF o = "render" THEN ReadEffects ELSE WriteEffects

CoreClauses(o) ==
    CASE o = "preflight" -> NoClause
      [] o = "extract" -> Else(Clause({"ScannedPdfUnsupportedError"}, "SCANNED_PDF_UNSUPPORTED"),
                               Else(MemoryLimit, Clause(Errors, "EXTRACTION_FAILED")))
      [] o = "normalize" ->
             Else(StableCode, Else(MemoryLimit, Clause(Errors, "NORMALIZATION_FAILED")))
      [] o = "render" -> Else(MemoryLimit,
                              Else(Clause({"CompositionError"}, "SOURCE_PDF_INVALID"),
                                   Clause(Errors, "RENDER_FAILED")))
      [] o = "qa" -> Else(MemoryLimit, Clause(Errors, "QA_FAILED"))

WriteClauses(o) ==
    CASE o \in {"preflight", "render", "qa"} -> CoreClauses(o)
      [] o = "extract" ->
             Else(MemoryLimit, Clause(FileErrors, "EXTRACTION_ARTIFACT_WRITE_FAILED"))
      [] o = "normalize" ->
             Else(MemoryLimit, Clause(FileErrors, "NORMALIZATION_ARTIFACT_WRITE_FAILED"))

ClausesOf(o, p) ==
    CASE p \in {"candidate", "handoff"} -> NoClause
      [] p = "input" -> IF o = "normalize" THEN Clause(FileErrors, "NORMALIZATION_SOURCE_INVALID")
                        ELSE NoClause
      [] p = "preflight" -> Clause(FileErrors, "PREFLIGHT_IDENTITY_INVALID")
      [] p = "normalization" -> Clause(FileErrors, "NORMALIZATION_IDENTITY_INVALID")
      [] p = "runtime" -> Clause({"ImportError", "OSError"},
                                 IF o = "extract" THEN "EXTRACTION_RUNTIME_UNAVAILABLE"
                                 ELSE "NORMALIZATION_RUNTIME_UNAVAILABLE")
      [] p = "core" -> CoreClauses(o)
      [] p = "result" -> IF o = "normalize"
                         THEN Clause(FileErrors, "NORMALIZATION_ARTIFACT_INVALID") ELSE NoClause
      [] p = "write" -> WriteClauses(o)

Passed(o) ==
    CASE o = "preflight" -> {"SANDBOX_CONTRACT_UNVERIFIED"}
      [] o = "normalize" -> {"SANDBOX_CONTRACT_UNVERIFIED", "WORKER_LIMIT_EXCEEDED"}
      [] o = "extract" -> {"SANDBOX_CONTRACT_UNVERIFIED", "SCANNED_PDF_UNSUPPORTED",
                           "WORKER_LIMIT_EXCEEDED"}
      [] o = "render" -> {"RENDER_FAILED", "SANDBOX_CONTRACT_UNVERIFIED", "WORKER_LIMIT_EXCEEDED"}
      [] o = "qa" -> {"QA_FAILED", "SANDBOX_CONTRACT_UNVERIFIED", "WORKER_LIMIT_EXCEEDED"}

FailureOf(o) ==
    CASE o \in {"preflight", "normalize", "extract"} -> "WORKER_FAILED"
      [] o = "render" -> "RENDER_FAILED"
      [] o = "qa" -> "QA_WORKER_FAILED"

(* The code for whatever has no code of its own.                           *)
CodeOf(o, p) == IF o = "qa" /\ p \in {"core", "write"} THEN "QA_FAILED" ELSE FailureOf(o)

Bridged(c, reply) == Translated(Judged(c, reply), Passed(c.op), FailureOf(c.op))

Raised(c, p) == Raises(c, p, EffectsOf(c.op, p))

StepReply(c, p) == Reply(Raised(c, p), ClausesOf(c.op, p))

(* What the tables of effects have in common.                              *)
IsEffects(effects) ==
    \A e \in DOMAIN effects :
        /\ effects[e] \in Errors
        /\ effects[e] = "MemoryError" <=> e \in {"starved", "MemoryError"}
        /\ effects[e] = "ScannedPdfUnsupportedError" <=> e = "ScannedPdfUnsupportedError"

(* Every effect is an exception, and only starvation raises a MemoryError. *)
LEMMA EffectsAreErrors ==
    ASSUME NEW o \in SandboxOperations, NEW p \in Steps
    PROVE  IsEffects(EffectsOf(o, p))
<1>1. IsEffects(PathEffects)
  BY DEF IsEffects, PathEffects, Clause, Errors, ValueErrors
<1>2. IsEffects(ReadEffects)
  BY DEF IsEffects, ReadEffects, PathEffects, Clause, Else, Errors, ValueErrors
<1>3. IsEffects(InputEffects)
  BY <1>2 DEF IsEffects, InputEffects, Clause, Else, Errors, ValueErrors
<1>4. /\ IsEffects(PreflightEffects) /\ IsEffects(NormalizationEffects)
      /\ IsEffects(HandoffEffects)
  BY <1>2 DEF IsEffects, PreflightEffects, NormalizationEffects, HandoffEffects,
              Clause, Else, Errors, ValueErrors
<1>5. IsEffects(ResultEffects)
  BY DEF IsEffects, ResultEffects, CountEffects, Clause, Else, Errors, ValueErrors
<1>6. IsEffects(WriteEffects)
  BY DEF IsEffects, WriteEffects, PathEffects, Clause, Else, Errors, ValueErrors
<1>7. IsEffects(Itself)
  BY DEF IsEffects, Itself, Errors, ValueErrors
<1>8. IsEffects(CoreEffects("NormalizationError")) /\ IsEffects(CoreEffects("CompositionError"))
  BY <1>7 DEF IsEffects, CoreEffects, Clause, Else, Errors, ValueErrors
<1>9. QED BY <1>1, <1>2, <1>3, <1>4, <1>5, <1>6, <1>7, <1>8 DEF EffectsOf, Steps

(* What can be wrong in a step has an effect there.                        *)
LEMMA WrongHasAnEffect ==
    ASSUME NEW c, IsSandboxCall(c), NEW p \in DOMAIN c.wrong \cap Steps
    PROVE  c.wrong[p] \in DOMAIN EffectsOf(c.op, p)
<1>1. c.wrong[p] \in CanBeWrong(c.op)[p]
  BY DEF IsSandboxCall
<1>2. DOMAIN Itself = Errors
  BY DEF Itself
<1>3. \A error : DOMAIN CoreEffects(error) = Errors \cup {"swallowed"}
  BY <1>2 DEF CoreEffects, Clause, Else
<1>4. QED BY <1>1, <1>2, <1>3 DEF CanBeWrong, EffectsOf, Steps

(* The events of a sandbox that does not start or stops its child.         *)
EarlyEvents == {"unavailable", "TIMEOUT", "OUTPUT_LIMIT", "CPU"}

(* No step of the child can have an event for its trouble, and only the    *)
(* core of extraction finds that a paper was scanned.                      *)
LEMMA StepsAreNoEvents ==
    ASSUME NEW c, IsSandboxCall(c), NEW p \in DOMAIN c.wrong \cap Steps
    PROVE  /\ c.wrong[p] \notin EarlyEvents
           /\ c.wrong[p] = "ScannedPdfUnsupportedError" => p = "core" /\ c.op = "extract"
           /\ p = "core" /\ c.wrong[p] = "swallowed" => c.op \in {"normalize", "render"}
<1> DEFINE Others == EarlyEvents \cup {"ScannedPdfUnsupportedError"}
<1>1. c.wrong[p] \in CanBeWrong(c.op)[p]
  BY DEF IsSandboxCall
<1>2. DOMAIN PathEffects \cap Others = {} /\ DOMAIN ReadEffects \cap Others = {}
  BY DEF EarlyEvents, ReadEffects, PathEffects, Clause, Else
<1>3. DOMAIN InputEffects \cap Others = {}
  BY <1>2 DEF EarlyEvents, InputEffects, Clause, Else
<1>4. /\ DOMAIN PreflightEffects \cap Others = {}
      /\ DOMAIN NormalizationEffects \cap Others = {} /\ DOMAIN HandoffEffects \cap Others = {}
  BY <1>2 DEF EarlyEvents, PreflightEffects, NormalizationEffects, HandoffEffects, Clause, Else
<1>5. DOMAIN ResultEffects \cap Others = {} /\ DOMAIN WriteEffects \cap Others = {}
  BY DEF EarlyEvents, ResultEffects, CountEffects, WriteEffects, PathEffects, Clause, Else
<1>6. Errors \cap EarlyEvents = {}
  BY DEF EarlyEvents, Errors, ValueErrors
<1>7. IF p = "core" /\ c.op = "extract" THEN CanBeWrong(c.op)[p] \cap EarlyEvents = {}
      ELSE CanBeWrong(c.op)[p] \cap Others = {}
  <2>1. CASE p = "core"
    <3>1. CanBeWrong(c.op)[p] =
              IF c.op = "extract" THEN Errors
              ELSE (Errors \ {"ScannedPdfUnsupportedError"})
                   \cup (IF c.op \in {"normalize", "render"} THEN {"swallowed"} ELSE {})
      BY <2>1 DEF CanBeWrong
    <3>2. "swallowed" \notin Others
      BY DEF EarlyEvents
    <3>3. QED BY <1>6, <2>1, <3>1, <3>2
  <2>2. CASE p # "core"
    BY <1>2, <1>3, <1>4, <1>5, <1>6, <2>2 DEF CanBeWrong, Steps
  <2>3. QED BY <2>1, <2>2
<1>8. p = "core" /\ c.op \notin {"normalize", "render"} => "swallowed" \notin CanBeWrong(c.op)[p]
  BY DEF CanBeWrong, Errors, ValueErrors
<1>9. QED BY <1>1, <1>7, <1>8

(* How the clauses of a step, and the bridge behind them, treat errors:    *)
(* a refused allocation is a limit in the core and the writing of all but  *)
(* preflight, a scanned paper is told as such, and all else has one code.  *)
Handles(o, p, clauses) ==
    /\ \A e \in DOMAIN clauses : clauses[e] # "none"
    /\ \A e \in Errors \ {"MemoryError", "ScannedPdfUnsupportedError"} :
           CodeOf(o, p) = IF e \in DOMAIN clauses
                          THEN IF clauses[e] \in Passed(o) THEN clauses[e] ELSE FailureOf(o)
                          ELSE FailureOf(o)
    /\ IF p \in {"core", "write"} /\ o # "preflight"
       THEN /\ "MemoryError" \in DOMAIN clauses
            /\ clauses["MemoryError"] = "WORKER_LIMIT_EXCEEDED"
            /\ "WORKER_LIMIT_EXCEEDED" \in Passed(o)
       ELSE "MemoryError" \notin DOMAIN clauses /\ CodeOf(o, p) = FailureOf(o)
    /\ p = "core" /\ o = "extract" =>
           /\ "ScannedPdfUnsupportedError" \in DOMAIN clauses
           /\ clauses["ScannedPdfUnsupportedError"] = "SCANNED_PDF_UNSUPPORTED"
           /\ "SCANNED_PDF_UNSUPPORTED" \in Passed(o)

(* Every step has such clauses.                                            *)
LEMMA ClausesHandle ==
    ASSUME NEW o \in SandboxOperations, NEW p \in Steps
    PROVE  Handles(o, p, ClausesOf(o, p))
<1>1. CASE p \notin {"core", "write"}
  <2>1. CASE ClausesOf(o, p) = NoClause
    BY <1>1, <2>1 DEF Handles, NoClause, CodeOf
  <2>2. CASE ClausesOf(o, p) # NoClause
    <3>1. PICK errors \in {FileErrors, {"ImportError", "OSError"}},
               code \in {"NORMALIZATION_SOURCE_INVALID", "PREFLIGHT_IDENTITY_INVALID",
                         "NORMALIZATION_IDENTITY_INVALID", "EXTRACTION_RUNTIME_UNAVAILABLE",
                         "NORMALIZATION_RUNTIME_UNAVAILABLE", "NORMALIZATION_ARTIFACT_INVALID"} :
               ClausesOf(o, p) = Clause(errors, code)
      BY <1>1, <2>2 DEF ClausesOf, Steps
    <3>2. code \notin Passed(o) /\ code # "none"
      BY <3>1 DEF Passed, SandboxOperations
    <3>3. "MemoryError" \notin errors
      BY <3>1 DEF FileErrors, ValueErrors
    <3>4. /\ DOMAIN Clause(errors, code) = errors
          /\ \A e \in errors : Clause(errors, code)[e] = code
      BY DEF Clause
    <3>5. QED BY <1>1, <3>1, <3>2, <3>3, <3>4 DEF Handles, CodeOf
  <2>3. QED BY <2>1, <2>2
<1>2. CASE p \in {"core", "write"} /\ o = "preflight"
  BY <1>2 DEF Handles, ClausesOf, CoreClauses, WriteClauses, NoClause, CodeOf
<1>3. CASE p \in {"core", "write"} /\ o = "normalize"
  BY <1>3 DEF Handles, ClausesOf, CoreClauses, WriteClauses, CodeOf, FailureOf, Passed, Clause,
              Else, MemoryLimit, StableCode, FileErrors, Errors, ValueErrors
<1>4. CASE p \in {"core", "write"} /\ o = "extract"
  BY <1>4 DEF Handles, ClausesOf, CoreClauses, WriteClauses, CodeOf, FailureOf, Passed, Clause,
              Else, MemoryLimit, FileErrors, Errors, ValueErrors
<1>5. CASE p \in {"core", "write"} /\ o = "render"
  BY <1>5 DEF Handles, ClausesOf, CoreClauses, WriteClauses, CodeOf, FailureOf, Passed, Clause,
              Else, MemoryLimit, Errors, ValueErrors
<1>6. CASE p \in {"core", "write"} /\ o = "qa"
  BY <1>6 DEF Handles, ClausesOf, CoreClauses, WriteClauses, CodeOf, FailureOf, Passed, Clause,
              Else, MemoryLimit, Errors, ValueErrors
<1>7. QED BY <1>1, <1>2, <1>3, <1>4, <1>5, <1>6 DEF SandboxOperations

(* The codes of the entry point are passed by no bridge.                   *)
LEMMA EntryCodesAreNotPassed ==
    ASSUME NEW o \in SandboxOperations
    PROVE  Passed(o) \cap {"PROTOCOL_ERROR", "WORKER_EXECUTION_FAILED"} = {}
  BY DEF Passed, SandboxOperations

(* What is told of a step of the child that failed.                        *)
StepTold(c, p) ==
    IF /\ c.wrong[p] \in {"starved", "MemoryError"}
       /\ c.reported \/ (p \in {"core", "write"} /\ c.op # "preflight")
    THEN "WORKER_LIMIT_EXCEEDED"
    ELSE IF c.wrong[p] = "ScannedPdfUnsupportedError" THEN "SCANNED_PDF_UNSUPPORTED"
    ELSE CodeOf(c.op, p)

(* A step raises if and only if something is wrong there.                  *)
LEMMA RaisedIfWrong ==
    ASSUME NEW c, IsSandboxCall(c), NEW p \in Steps
    PROVE  Raised(c, p) # "nothing" <=> p \in DOMAIN c.wrong
<1>1. c.op \in SandboxOperations
  BY DEF IsSandboxCall, SandboxOperations
<1>2. ASSUME p \in DOMAIN c.wrong PROVE Raised(c, p) # "nothing"
  <2>1. c.wrong[p] \in DOMAIN EffectsOf(c.op, p)
    BY <1>2, WrongHasAnEffect
  <2>2. EffectsOf(c.op, p)[c.wrong[p]] \in Errors
    BY <1>1, <2>1, EffectsAreErrors DEF IsEffects
  <2>3. QED BY <1>2, <2>2 DEF Raised, Raises, Errors, ValueErrors
<1>3. ASSUME p \notin DOMAIN c.wrong PROVE Raised(c, p) = "nothing"
  BY <1>3 DEF Raised, Raises
<1>4. QED BY <1>2, <1>3

(* What the bridge makes of the reply to a step that failed.               *)
LEMMA StepTells ==
    ASSUME NEW c, IsSandboxCall(c), NEW p \in DOMAIN c.wrong \cap Steps
    PROVE  Bridged(c, StepReply(c, p)) = StepTold(c, p)
<1> DEFINE raised == Raised(c, p)
           clauses == ClausesOf(c.op, p)
           passed == Passed(c.op)
           failed == FailureOf(c.op)
<1>1. c.op \in SandboxOperations
  BY DEF IsSandboxCall, SandboxOperations
<1>2. Handles(c.op, p, clauses)
  BY <1>1, ClausesHandle
<1>3. /\ raised \in Errors
      /\ raised = "MemoryError" <=> c.wrong[p] \in {"starved", "MemoryError"}
      /\ raised = "ScannedPdfUnsupportedError" <=> c.wrong[p] = "ScannedPdfUnsupportedError"
  BY <1>1, WrongHasAnEffect, EffectsAreErrors DEF IsEffects, Raised, Raises
<1>4. c.wrong[p] = "ScannedPdfUnsupportedError" => p = "core" /\ c.op = "extract"
  BY StepsAreNoEvents
<1>5. \A e \in DOMAIN clauses : clauses[e] # "none"
  BY <1>2 DEF Handles
<1>6. passed \cap {"PROTOCOL_ERROR", "WORKER_EXECUTION_FAILED"} = {}
  BY <1>1, EntryCodesAreNotPassed
<1>7. Bridged(c, StepReply(c, p)) = Translated(Judged(c, Reply(raised, clauses)), passed, failed)
  BY DEF Bridged, StepReply
<1> HIDE DEF raised, clauses, passed, failed
<1>8. Translated(Judged(c, Reply(raised, clauses)), passed, failed) =
          IF raised \in DOMAIN clauses
          THEN IF clauses[raised] \in passed THEN clauses[raised] ELSE failed
          ELSE IF raised = "MemoryError" /\ c.reported THEN "WORKER_LIMIT_EXCEEDED"
          ELSE failed
  BY <1>3, <1>5, <1>6, ReplyTells
<1>9. CASE raised = "MemoryError"
  BY <1>2, <1>3, <1>7, <1>8, <1>9 DEF Handles, StepTold, passed, failed
<1>10. CASE raised = "ScannedPdfUnsupportedError"
  BY <1>2, <1>3, <1>4, <1>7, <1>8, <1>10 DEF Handles, StepTold, passed, failed
<1>11. CASE raised \notin {"MemoryError", "ScannedPdfUnsupportedError"}
  <2>1. StepTold(c, p) = CodeOf(c.op, p)
    BY <1>3, <1>11 DEF StepTold
  <2>2. CodeOf(c.op, p) = IF raised \in DOMAIN clauses
                          THEN IF clauses[raised] \in passed THEN clauses[raised] ELSE failed
                          ELSE failed
    BY <1>2, <1>3, <1>11 DEF Handles, passed, failed
  <2>3. QED BY <1>7, <1>8, <1>11, <2>1, <2>2
<1>12. QED BY <1>9, <1>10, <1>11

(* A file that is too large, or empty, is not written.                     *)
OversizedReply(c) == Reply("ProtocolError", ClausesOf(c.op, "write"))

(* What the bridge makes of that.                                          *)
LEMMA OversizedTells ==
    ASSUME NEW c, IsSandboxCall(c)
    PROVE  Bridged(c, OversizedReply(c)) = CodeOf(c.op, "write")
<1> DEFINE clauses == ClausesOf(c.op, "write")
           passed == Passed(c.op)
           failed == FailureOf(c.op)
           told == Translated(Judged(c, Reply("ProtocolError", clauses)), passed, failed)
<1>1. c.op \in SandboxOperations
  BY DEF IsSandboxCall, SandboxOperations
<1>2. Handles(c.op, "write", clauses)
  BY <1>1, ClausesHandle DEF Steps
<1>3. "ProtocolError" \in Errors \ {"MemoryError", "ScannedPdfUnsupportedError"}
  BY DEF Errors, ValueErrors
<1>4. /\ \A e \in DOMAIN clauses : clauses[e] # "none"
      /\ passed \cap {"PROTOCOL_ERROR", "WORKER_EXECUTION_FAILED"} = {}
  BY <1>1, <1>2, EntryCodesAreNotPassed DEF Handles
<1>5. Bridged(c, OversizedReply(c)) = told
  BY DEF Bridged, OversizedReply
<1>6. CodeOf(c.op, "write") =
          IF "ProtocolError" \in DOMAIN clauses
          THEN IF clauses["ProtocolError"] \in passed THEN clauses["ProtocolError"] ELSE failed
          ELSE failed
  BY <1>2, <1>3 DEF Handles
<1> HIDE DEF clauses, passed, failed
<1>7. told = IF "ProtocolError" \in DOMAIN clauses
             THEN IF clauses["ProtocolError"] \in passed THEN clauses["ProtocolError"] ELSE failed
             ELSE IF "ProtocolError" = "MemoryError" /\ c.reported THEN "WORKER_LIMIT_EXCEEDED"
             ELSE failed
  BY <1>3, <1>4, ReplyTells
<1>8. QED BY <1>5, <1>6, <1>7

-----------------------------------------------------------------------------
(* The place that decides.                                                 *)

(* The sizes are the only trouble that is no place of the call.            *)
LEMMA SizeIsATrouble ==
    ASSUME NEW c, IsSandboxCall(c)
    PROVE  /\ "size" \in Troubles(c) <=> ~SizesFit(c.op, c.size)
           /\ \A p : p # "size" => (p \in Troubles(c) <=> p \in DOMAIN c.wrong)
  BY DEF IsSandboxCall, Troubles, CanBeWrong

(* The order of the places, where writing comes after the result.          *)
LEMMA CauseUnlessRender ==
    ASSUME NEW c, IsSandboxCall(c), c.op # "render"
    PROVE  LET W == Troubles(c)
           IN  Cause(c) =
                   IF "cleanup" \in W THEN "cleanup" ELSE IF "prepare" \in W THEN "prepare" ELSE
                   IF "machine" \in W THEN "machine" ELSE IF "token" \in W THEN "token" ELSE
                   IF "input" \in W THEN "input" ELSE IF "candidate" \in W THEN "candidate" ELSE
                   IF "preflight" \in W THEN "preflight" ELSE
                   IF "normalization" \in W THEN "normalization" ELSE
                   IF "handoff" \in W THEN "handoff" ELSE IF "runtime" \in W THEN "runtime" ELSE
                   IF "core" \in W THEN "core" ELSE IF "result" \in W THEN "result" ELSE
                   IF "size" \in W THEN "size" ELSE IF "write" \in W THEN "write" ELSE
                   IF "output" \in W THEN "output" ELSE IF "schema" \in W THEN "schema" ELSE
                   IF "paper" \in W THEN "paper" ELSE "none"
<1>1. Troubles(c) \subseteq {"cleanup", "prepare", "machine", "token", "input", "candidate",
                             "preflight", "normalization", "handoff", "runtime", "core",
                             "result", "size", "write", "output", "schema", "paper"}
  BY DEF IsSandboxCall, Troubles, CanBeWrong
<1>2. QED BY <1>1 DEF Cause, Rank

(* The order of the places in a rendering, which reads what it wrote first. *)
LEMMA CauseOfRender ==
    ASSUME NEW c, IsSandboxCall(c), c.op = "render"
    PROVE  LET W == Troubles(c)
           IN  Cause(c) =
                   IF "cleanup" \in W THEN "cleanup" ELSE IF "prepare" \in W THEN "prepare" ELSE
                   IF "machine" \in W THEN "machine" ELSE IF "token" \in W THEN "token" ELSE
                   IF "input" \in W THEN "input" ELSE IF "candidate" \in W THEN "candidate" ELSE
                   IF "preflight" \in W THEN "preflight" ELSE
                   IF "normalization" \in W THEN "normalization" ELSE
                   IF "handoff" \in W THEN "handoff" ELSE IF "runtime" \in W THEN "runtime" ELSE
                   IF "core" \in W THEN "core" ELSE IF "size" \in W THEN "size" ELSE
                   IF "write" \in W THEN "write" ELSE IF "result" \in W THEN "result" ELSE
                   IF "output" \in W THEN "output" ELSE IF "schema" \in W THEN "schema" ELSE
                   IF "paper" \in W THEN "paper" ELSE "none"
<1>1. Troubles(c) \subseteq {"cleanup", "prepare", "machine", "token", "input", "candidate",
                             "preflight", "normalization", "handoff", "runtime", "core",
                             "result", "size", "write", "output", "schema", "paper"}
  BY DEF IsSandboxCall, Troubles, CanBeWrong
<1>2. QED BY <1>1 DEF Cause, Rank

(* The cause is one of the places where something is wrong.                *)
LEMMA CausesAreTroubles ==
    ASSUME NEW c, IsSandboxCall(c)
    PROVE  /\ Cause(c) \in Places \cup {"none", "size"}
           /\ Cause(c) \notin {"none", "size"} <=> Cause(c) \in DOMAIN c.wrong
<1>1. {"none", "size"} \cap DOMAIN c.wrong = {}
  BY DEF IsSandboxCall, CanBeWrong
<1>2. CASE c.op = "render"
  BY <1>1, <1>2, CauseOfRender, SizeIsATrouble DEF Places
<1>3. CASE c.op # "render"
  BY <1>1, <1>3, CauseUnlessRender, SizeIsATrouble DEF Places
<1>4. QED BY <1>2, <1>3

(* Nothing comes before the cleanup, and little before the child.          *)
LEMMA EarlyCauses ==
    ASSUME NEW c, IsSandboxCall(c)
    PROVE  LET W == DOMAIN c.wrong
           IN  /\ Cause(c) = "cleanup" <=> "cleanup" \in W
               /\ Cause(c) = "prepare" <=> "prepare" \in W /\ "cleanup" \notin W
               /\ Cause(c) = "machine" <=>
                      "machine" \in W /\ "cleanup" \notin W /\ "prepare" \notin W
<1>1. CASE c.op = "render"
  BY <1>1, CauseOfRender, SizeIsATrouble
<1>2. CASE c.op # "render"
  BY <1>2, CauseUnlessRender, SizeIsATrouble
<1>3. QED BY <1>1, <1>2

(* Who gets as far as the result has files of the right sizes.             *)
LEMMA LateCauses ==
    ASSUME NEW c, IsSandboxCall(c)
    PROVE  LET W == DOMAIN c.wrong
           IN  /\ Cause(c) \in {"none", "schema", "paper"} =>
                      SizesFit(c.op, c.size) /\ "output" \notin W
               /\ Cause(c) \in {"none", "paper"} => "schema" \notin W
               /\ Cause(c) = "none" => "paper" \notin W
<1>1. CASE c.op = "render"
  BY <1>1, CauseOfRender, SizeIsATrouble
<1>2. CASE c.op # "render"
  BY <1>2, CauseUnlessRender, SizeIsATrouble
<1>3. QED BY <1>1, <1>2

(* What can be wrong at the cause.                                         *)
LEMMA WhatIsWrong ==
    ASSUME NEW c, IsSandboxCall(c)
    PROVE  /\ Cause(c) \in {"none", "size"} => WrongThere(c) = "none"
           /\ Cause(c) \in {"cleanup", "token", "output", "schema"} =>
                  WrongThere(c) \in {"left", "absent", "missing", "garbled"}
           /\ Cause(c) = "paper" =>
                  c.op \in {"preflight", "qa"} /\ WrongThere(c) \in {"rejected", "swallowed"}
           /\ Cause(c) = "prepare" =>
                  WrongThere(c) \in {"unavailable", "unreadable", "missing", "linked"}
           /\ Cause(c) = "machine" => WrongThere(c) \in {"TIMEOUT", "OUTPUT_LIMIT", "CPU",
                                                        "EXECUTION", "RuntimeError"}
           /\ Cause(c) \in Steps =>
                  /\ WrongThere(c) = c.wrong[Cause(c)]
                  /\ WrongThere(c) \notin EarlyEvents
                  /\ WrongThere(c) = "ScannedPdfUnsupportedError" =>
                         Cause(c) = "core" /\ c.op = "extract"
                  /\ Cause(c) = "core" /\ WrongThere(c) = "swallowed" =>
                         c.op \in {"normalize", "render"}
<1> DEFINE cause == Cause(c)
<1>1. ASSUME cause \in {"none", "size"} PROVE WrongThere(c) = "none"
  BY <1>1, CausesAreTroubles DEF WrongThere
<1>2. ASSUME cause \notin {"none", "size"}
      PROVE  /\ cause \in DOMAIN c.wrong /\ WrongThere(c) = c.wrong[cause]
             /\ c.wrong[cause] \in CanBeWrong(c.op)[cause]
  BY <1>2, CausesAreTroubles DEF WrongThere, IsSandboxCall
<1> HIDE DEF cause
<1>3. ASSUME cause \in {"cleanup", "token", "output", "schema"}
      PROVE  WrongThere(c) \in {"left", "absent", "missing", "garbled"}
  BY <1>2, <1>3 DEF CanBeWrong
<1>7. ASSUME cause = "paper"
      PROVE  c.op \in {"preflight", "qa"} /\ WrongThere(c) \in {"rejected", "swallowed"}
  BY <1>2, <1>7 DEF CanBeWrong
<1>4. ASSUME cause = "prepare"
      PROVE  WrongThere(c) \in {"unavailable", "unreadable", "missing", "linked"}
  <2>1. DOMAIN PrepareEffects = {"unavailable", "unreadable", "missing", "linked"}
    BY DEF PrepareEffects, ControlledPathEffects, Clause, Else
  <2>2. QED BY <1>2, <1>4, <2>1 DEF CanBeWrong
<1>5. ASSUME cause = "machine"
      PROVE  WrongThere(c) \in {"TIMEOUT", "OUTPUT_LIMIT", "CPU", "EXECUTION", "RuntimeError"}
  BY <1>2, <1>5 DEF CanBeWrong
<1>6. ASSUME cause \in Steps
      PROVE  /\ WrongThere(c) = c.wrong[cause]
             /\ WrongThere(c) \notin EarlyEvents
             /\ WrongThere(c) = "ScannedPdfUnsupportedError" =>
                    cause = "core" /\ c.op = "extract"
             /\ cause = "core" /\ WrongThere(c) = "swallowed" => c.op \in {"normalize", "render"}
  <2>1. cause \notin {"none", "size"}
    BY <1>6 DEF Steps
  <2>2. QED BY <1>2, <1>6, <2>1, StepsAreNoEvents
<1>8. QED BY <1>1, <1>3, <1>4, <1>5, <1>6, <1>7 DEF cause

-----------------------------------------------------------------------------
(* The child stops at the cause.                                           *)

Files(o) ==
    CASE o \in {"preflight", "extract"} -> {"artifact"}
      [] o = "normalize" -> {"normalized_pdf", "normalization_artifact"}
      [] o = "render" -> {"candidate_pdf", "render_manifest", "composition"}
      [] o = "qa" -> {"qa"}

(* What a child answers to a call in which nothing went wrong before.      *)
AnswerTo(c) ==
    CASE Cause(c) = "token" -> Failed("SANDBOX_CONTRACT_UNVERIFIED")
      [] Cause(c) \in Steps -> StepReply(c, Cause(c))
      [] Cause(c) = "size" -> OversizedReply(c)
      [] OTHER -> Succeeded(Files(c.op))

HasChild(c) == DOMAIN c.wrong \cap {"cleanup", "prepare", "machine"} = {}

(* Preflight looks at the source, inspects it, and writes its report.      *)
LEMMA PreflightAnswerIs ==
    ASSUME NEW c, IsSandboxCall(c), c.op = "preflight", HasChild(c)
    PROVE  PreflightAnswer(c) = AnswerTo(c)
<1> DEFINE W == DOMAIN c.wrong
           reply(p) == Reply(Raised(c, p), ClausesOf(c.op, p))
           written == IF SizesFit(c.op, c.size) THEN Raised(c, "write") ELSE "ProtocolError"
<1>1. PreflightAnswer(c) =
          IF "token" \in W THEN Failed("SANDBOX_CONTRACT_UNVERIFIED") ELSE
          IF Raised(c, "input") # "nothing" THEN reply("input") ELSE
          IF Raised(c, "core") # "nothing" THEN reply("core") ELSE
          IF Raised(c, "result") # "nothing" THEN reply("result") ELSE
          IF written # "nothing" THEN Reply(written, ClausesOf(c.op, "write")) ELSE
          Succeeded(Files(c.op))
  <2>1. /\ Raises(c, "input", PathEffects) = Raised(c, "input")
        /\ Raises(c, "core", Itself) = Raised(c, "core")
        /\ Raises(c, "result", ResultEffects) = Raised(c, "result")
    BY DEF Raised, EffectsOf
  <2>2. PreflightWrite(c) = written
    BY DEF PreflightWrite, Raised, EffectsOf, SizesFit, Sized, WorkerLimits
  <2>3. Files(c.op) = {"artifact"}
    BY DEF Files
  <2> HIDE DEF written
  <2>4. /\ ClausesOf(c.op, "input") = NoClause
        /\ ClausesOf(c.op, "core") = NoClause
        /\ ClausesOf(c.op, "result") = NoClause
        /\ ClausesOf(c.op, "write") = NoClause
    BY DEF ClausesOf, CoreClauses, WriteClauses
  <2>5. PreflightAnswer(c) =
            Head(Contract(c)
                 ?? Attempt(Raised(c, "input"), ClausesOf(c.op, "input"))
                 ?? Attempt(Raised(c, "core"), ClausesOf(c.op, "core"))
                 ?? Attempt(Raised(c, "result"), ClausesOf(c.op, "result"))
                 ?? Attempt(written, ClausesOf(c.op, "write"))
                 ?? <<Succeeded(Files(c.op))>>)
    BY <2>1, <2>2, <2>3, <2>4 DEF PreflightAnswer
  <2>6. QED BY <2>5, AttemptIs DEF Contract, ??
<1>2. \A p \in Steps : Raised(c, p) # "nothing" <=> p \in W
  BY RaisedIfWrong
<1>3. Cause(c) =
          IF "token" \in W THEN "token" ELSE
          IF "input" \in W THEN "input" ELSE
          IF "core" \in W THEN "core" ELSE
          IF "result" \in W THEN "result" ELSE
          IF ~SizesFit(c.op, c.size) THEN "size" ELSE
          IF "write" \in W THEN "write" ELSE
          IF "output" \in W THEN "output" ELSE
          IF "schema" \in W THEN "schema" ELSE
          IF "paper" \in W THEN "paper" ELSE
          "none"
  <2>1. W \subseteq {"token", "input", "core", "result", "write", "output", "schema", "paper"}
    BY DEF HasChild, IsSandboxCall, CanBeWrong
  <2>2. QED BY <2>1, CauseUnlessRender, SizeIsATrouble
<1> HIDE DEF W
<1>4. QED BY <1>1, <1>2, <1>3 DEF AnswerTo, StepReply, OversizedReply, Steps

(* Normalization also checks the report of preflight.                      *)
LEMMA NormalizationAnswerIs ==
    ASSUME NEW c, IsSandboxCall(c), c.op = "normalize", HasChild(c)
    PROVE  NormalizationAnswer(c) = AnswerTo(c)
<1> DEFINE W == DOMAIN c.wrong
           reply(p) == Reply(Raised(c, p), ClausesOf(c.op, p))
           written == IF SizesFit(c.op, c.size) THEN Raised(c, "write") ELSE "ProtocolError"
<1>1. NormalizationAnswer(c) =
          IF "token" \in W THEN Failed("SANDBOX_CONTRACT_UNVERIFIED") ELSE
          IF Raised(c, "input") # "nothing" THEN reply("input") ELSE
          IF Raised(c, "preflight") # "nothing" THEN reply("preflight") ELSE
          IF Raised(c, "runtime") # "nothing" THEN reply("runtime") ELSE
          IF Raised(c, "core") # "nothing" THEN reply("core") ELSE
          IF Raised(c, "result") # "nothing" THEN reply("result") ELSE
          IF written # "nothing" THEN Reply(written, ClausesOf(c.op, "write")) ELSE
          Succeeded(Files(c.op))
  <2>1. /\ Raises(c, "input", InputEffects) = Raised(c, "input")
        /\ Raises(c, "preflight", PreflightEffects) = Raised(c, "preflight")
        /\ Raises(c, "runtime", Itself) = Raised(c, "runtime")
        /\ Raises(c, "core", CoreEffects("NormalizationError")) = Raised(c, "core")
        /\ Raises(c, "result", ResultEffects) = Raised(c, "result")
    BY DEF Raised, EffectsOf
  <2>2. NormalizationWrite(c) = written
    BY DEF NormalizationWrite, Raised, EffectsOf, SizesFit, Sized, WorkerLimits
  <2>3. Files(c.op) = {"normalized_pdf", "normalization_artifact"}
    BY DEF Files
  <2> HIDE DEF written
  <2>4. /\ ClausesOf(c.op, "input") = Clause(FileErrors, "NORMALIZATION_SOURCE_INVALID")
        /\ ClausesOf(c.op, "preflight") = Clause(FileErrors, "PREFLIGHT_IDENTITY_INVALID")
        /\ ClausesOf(c.op, "runtime") = Clause({"ImportError", "OSError"},
                                               "NORMALIZATION_RUNTIME_UNAVAILABLE")
        /\ ClausesOf(c.op, "core") = Else(StableCode,
                                          Else(MemoryLimit,
                                               Clause(Errors, "NORMALIZATION_FAILED")))
        /\ ClausesOf(c.op, "result") = Clause(FileErrors, "NORMALIZATION_ARTIFACT_INVALID")
        /\ ClausesOf(c.op, "write") = Else(MemoryLimit,
                                         Clause(FileErrors,
                                                "NORMALIZATION_ARTIFACT_WRITE_FAILED"))
    BY DEF ClausesOf, CoreClauses, WriteClauses
  <2>5. NormalizationAnswer(c) =
            Head(Contract(c)
                 ?? Attempt(Raised(c, "input"), ClausesOf(c.op, "input"))
                 ?? Attempt(Raised(c, "preflight"), ClausesOf(c.op, "preflight"))
                 ?? Attempt(Raised(c, "runtime"), ClausesOf(c.op, "runtime"))
                 ?? Attempt(Raised(c, "core"), ClausesOf(c.op, "core"))
                 ?? Attempt(Raised(c, "result"), ClausesOf(c.op, "result"))
                 ?? Attempt(written, ClausesOf(c.op, "write"))
                 ?? <<Succeeded(Files(c.op))>>)
    BY <2>1, <2>2, <2>3, <2>4 DEF NormalizationAnswer
  <2>6. QED BY <2>5, AttemptIs DEF Contract, ??
<1>2. \A p \in Steps : Raised(c, p) # "nothing" <=> p \in W
  BY RaisedIfWrong
<1>3. Cause(c) =
          IF "token" \in W THEN "token" ELSE
          IF "input" \in W THEN "input" ELSE
          IF "preflight" \in W THEN "preflight" ELSE
          IF "runtime" \in W THEN "runtime" ELSE
          IF "core" \in W THEN "core" ELSE
          IF "result" \in W THEN "result" ELSE
          IF ~SizesFit(c.op, c.size) THEN "size" ELSE
          IF "write" \in W THEN "write" ELSE
          IF "output" \in W THEN "output" ELSE
          IF "schema" \in W THEN "schema" ELSE
          "none"
  <2>1. W \subseteq {"token", "input", "preflight", "runtime", "core", "result", "write",
                    "output", "schema"}
    BY DEF HasChild, IsSandboxCall, CanBeWrong
  <2>2. QED BY <2>1, CauseUnlessRender, SizeIsATrouble
<1> HIDE DEF W
<1>4. QED BY <1>1, <1>2, <1>3 DEF AnswerTo, StepReply, OversizedReply, Steps

(* Extraction checks both artifacts, and can find that a paper was scanned. *)
LEMMA ExtractionAnswerIs ==
    ASSUME NEW c, IsSandboxCall(c), c.op = "extract", HasChild(c)
    PROVE  ExtractionAnswer(c) = AnswerTo(c)
<1> DEFINE W == DOMAIN c.wrong
           reply(p) == Reply(Raised(c, p), ClausesOf(c.op, p))
           written == IF SizesFit(c.op, c.size) THEN Raised(c, "write") ELSE "ProtocolError"
<1>1. ExtractionAnswer(c) =
          IF "token" \in W THEN Failed("SANDBOX_CONTRACT_UNVERIFIED") ELSE
          IF Raised(c, "input") # "nothing" THEN reply("input") ELSE
          IF Raised(c, "preflight") # "nothing" THEN reply("preflight") ELSE
          IF Raised(c, "normalization") # "nothing" THEN reply("normalization") ELSE
          IF Raised(c, "runtime") # "nothing" THEN reply("runtime") ELSE
          IF Raised(c, "core") # "nothing" THEN reply("core") ELSE
          IF Raised(c, "result") # "nothing" THEN reply("result") ELSE
          IF written # "nothing" THEN Reply(written, ClausesOf(c.op, "write")) ELSE
          Succeeded(Files(c.op))
  <2>1. /\ Raises(c, "input", InputEffects) = Raised(c, "input")
        /\ Raises(c, "preflight", PreflightEffects) = Raised(c, "preflight")
        /\ Raises(c, "normalization", NormalizationEffects) = Raised(c, "normalization")
        /\ Raises(c, "runtime", Itself) = Raised(c, "runtime")
        /\ Raises(c, "core", Itself) = Raised(c, "core")
        /\ Raises(c, "result", ResultEffects) = Raised(c, "result")
    BY DEF Raised, EffectsOf
  <2>2. ExtractionWrite(c) = written
    BY DEF ExtractionWrite, Raised, EffectsOf, SizesFit, Sized, WorkerLimits
  <2>3. Files(c.op) = {"artifact"}
    BY DEF Files
  <2> HIDE DEF written
  <2>4. /\ ClausesOf(c.op, "input") = NoClause
        /\ ClausesOf(c.op, "preflight") = Clause(FileErrors, "PREFLIGHT_IDENTITY_INVALID")
        /\ ClausesOf(c.op, "normalization") = Clause(FileErrors, "NORMALIZATION_IDENTITY_INVALID")
        /\ ClausesOf(c.op, "runtime") = Clause({"ImportError", "OSError"},
                                               "EXTRACTION_RUNTIME_UNAVAILABLE")
        /\ ClausesOf(c.op, "core") =
               Else(Clause({"ScannedPdfUnsupportedError"}, "SCANNED_PDF_UNSUPPORTED"),
                    Else(MemoryLimit, Clause(Errors, "EXTRACTION_FAILED")))
        /\ ClausesOf(c.op, "result") = NoClause
        /\ ClausesOf(c.op, "write") = Else(MemoryLimit,
                                           Clause(FileErrors, "EXTRACTION_ARTIFACT_WRITE_FAILED"))
    BY DEF ClausesOf, CoreClauses, WriteClauses
  <2>5. ExtractionAnswer(c) =
            Head(Contract(c)
                 ?? Attempt(Raised(c, "input"), ClausesOf(c.op, "input"))
                 ?? Attempt(Raised(c, "preflight"), ClausesOf(c.op, "preflight"))
                 ?? Attempt(Raised(c, "normalization"), ClausesOf(c.op, "normalization"))
                 ?? Attempt(Raised(c, "runtime"), ClausesOf(c.op, "runtime"))
                 ?? Attempt(Raised(c, "core"), ClausesOf(c.op, "core"))
                 ?? Attempt(Raised(c, "result"), ClausesOf(c.op, "result"))
                 ?? Attempt(written, ClausesOf(c.op, "write"))
                 ?? <<Succeeded(Files(c.op))>>)
    BY <2>1, <2>2, <2>3, <2>4 DEF ExtractionAnswer
  <2>6. QED BY <2>5, AttemptIs DEF Contract, ??
<1>2. \A p \in Steps : Raised(c, p) # "nothing" <=> p \in W
  BY RaisedIfWrong
<1>3. Cause(c) =
          IF "token" \in W THEN "token" ELSE
          IF "input" \in W THEN "input" ELSE
          IF "preflight" \in W THEN "preflight" ELSE
          IF "normalization" \in W THEN "normalization" ELSE
          IF "runtime" \in W THEN "runtime" ELSE
          IF "core" \in W THEN "core" ELSE
          IF "result" \in W THEN "result" ELSE
          IF ~SizesFit(c.op, c.size) THEN "size" ELSE
          IF "write" \in W THEN "write" ELSE
          IF "output" \in W THEN "output" ELSE
          IF "schema" \in W THEN "schema" ELSE
          "none"
  <2>1. W \subseteq {"token", "input", "preflight", "normalization", "runtime", "core", "result",
                    "write", "output", "schema"}
    BY DEF HasChild, IsSandboxCall, CanBeWrong
  <2>2. QED BY <2>1, CauseUnlessRender, SizeIsATrouble
<1> HIDE DEF W
<1>4. QED BY <1>1, <1>2, <1>3 DEF AnswerTo, StepReply, OversizedReply, Steps

(* Rendering composes its files and reads them before it counts its pages. *)
LEMMA RenderAnswerIs ==
    ASSUME NEW c, IsSandboxCall(c), c.op = "render", HasChild(c)
    PROVE  RenderAnswer(c) = AnswerTo(c)
<1> DEFINE W == DOMAIN c.wrong
           reply(p) == Reply(Raised(c, p), ClausesOf(c.op, p))
           written == IF SizesFit(c.op, c.size) THEN Raised(c, "write") ELSE "ProtocolError"
<1>1. RenderAnswer(c) =
          IF "token" \in W THEN Failed("SANDBOX_CONTRACT_UNVERIFIED") ELSE
          IF Raised(c, "input") # "nothing" THEN reply("input") ELSE
          IF Raised(c, "handoff") # "nothing" THEN reply("handoff") ELSE
          IF Raised(c, "core") # "nothing" THEN reply("core") ELSE
          IF written # "nothing" THEN Reply(written, ClausesOf(c.op, "write")) ELSE
          IF Raised(c, "result") # "nothing" THEN reply("result") ELSE
          Succeeded(Files(c.op))
  <2>1. /\ Raises(c, "input", InputEffects) = Raised(c, "input")
        /\ Raises(c, "handoff", HandoffEffects) = Raised(c, "handoff")
        /\ Raises(c, "core", CoreEffects("CompositionError")) = Raised(c, "core")
        /\ Raises(c, "result", ResultEffects) = Raised(c, "result")
    BY DEF Raised, EffectsOf
  <2>2. RenderRead(c) = written
    BY DEF RenderRead, Raised, EffectsOf, SizesFit, Sized, WorkerLimits
  <2>3. Files(c.op) = {"candidate_pdf", "render_manifest", "composition"}
    BY DEF Files
  <2> HIDE DEF written
  <2>4. /\ ClausesOf(c.op, "input") = NoClause
        /\ ClausesOf(c.op, "handoff") = NoClause
        /\ ClausesOf(c.op, "core") = Else(MemoryLimit,
                                          Else(Clause({"CompositionError"}, "SOURCE_PDF_INVALID"),
                                               Clause(Errors, "RENDER_FAILED")))
        /\ ClausesOf(c.op, "write") = Else(MemoryLimit,
                                           Else(Clause({"CompositionError"}, "SOURCE_PDF_INVALID"),
                                                Clause(Errors, "RENDER_FAILED")))
        /\ ClausesOf(c.op, "result") = NoClause
    BY DEF ClausesOf, CoreClauses, WriteClauses
  <2>5. RenderAnswer(c) =
            Head(Contract(c)
                 ?? Attempt(Raised(c, "input"), ClausesOf(c.op, "input"))
                 ?? Attempt(Raised(c, "handoff"), ClausesOf(c.op, "handoff"))
                 ?? Attempt(Raised(c, "core"), ClausesOf(c.op, "core"))
                 ?? Attempt(written, ClausesOf(c.op, "write"))
                 ?? Attempt(Raised(c, "result"), ClausesOf(c.op, "result"))
                 ?? <<Succeeded(Files(c.op))>>)
    BY <2>1, <2>2, <2>3, <2>4 DEF RenderAnswer
  <2>6. QED BY <2>5, AttemptIs DEF Contract, ??
<1>2. \A p \in Steps : Raised(c, p) # "nothing" <=> p \in W
  BY RaisedIfWrong
<1>3. Cause(c) =
          IF "token" \in W THEN "token" ELSE
          IF "input" \in W THEN "input" ELSE
          IF "handoff" \in W THEN "handoff" ELSE
          IF "core" \in W THEN "core" ELSE
          IF ~SizesFit(c.op, c.size) THEN "size" ELSE
          IF "write" \in W THEN "write" ELSE
          IF "result" \in W THEN "result" ELSE
          IF "output" \in W THEN "output" ELSE
          IF "schema" \in W THEN "schema" ELSE
          "none"
  <2>1. W \subseteq {"token", "input", "handoff", "core", "write", "result", "output", "schema"}
    BY DEF HasChild, IsSandboxCall, CanBeWrong
  <2>2. QED BY <2>1, CauseOfRender, SizeIsATrouble
<1> HIDE DEF W
<1>4. QED BY <1>1, <1>2, <1>3 DEF AnswerTo, StepReply, OversizedReply, Steps

(* QA reads the paper, the candidate and the handoff, and has no pages to count. *)
LEMMA QaAnswerIs ==
    ASSUME NEW c, IsSandboxCall(c), c.op = "qa", HasChild(c)
    PROVE  QaAnswer(c) = AnswerTo(c)
<1> DEFINE W == DOMAIN c.wrong
           reply(p) == Reply(Raised(c, p), ClausesOf(c.op, p))
           written == IF SizesFit(c.op, c.size) THEN Raised(c, "write") ELSE "ProtocolError"
<1>1. QaAnswer(c) =
          IF "token" \in W THEN Failed("SANDBOX_CONTRACT_UNVERIFIED") ELSE
          IF Raised(c, "input") # "nothing" THEN reply("input") ELSE
          IF Raised(c, "candidate") # "nothing" THEN reply("candidate") ELSE
          IF Raised(c, "handoff") # "nothing" THEN reply("handoff") ELSE
          IF Raised(c, "core") # "nothing" THEN reply("core") ELSE
          IF written # "nothing" THEN Reply(written, ClausesOf(c.op, "write")) ELSE
          Succeeded(Files(c.op))
  <2>1. /\ Raises(c, "input", InputEffects) = Raised(c, "input")
        /\ Raises(c, "candidate", InputEffects) = Raised(c, "candidate")
        /\ Raises(c, "handoff", HandoffEffects) = Raised(c, "handoff")
        /\ Raises(c, "core", Itself) = Raised(c, "core")
    BY DEF Raised, EffectsOf
  <2>2. QaWrite(c) = written
    BY DEF QaWrite, Raised, EffectsOf, SizesFit, Sized, WorkerLimits
  <2>3. Files(c.op) = {"qa"}
    BY DEF Files
  <2> HIDE DEF written
  <2>4. /\ ClausesOf(c.op, "input") = NoClause
        /\ ClausesOf(c.op, "candidate") = NoClause
        /\ ClausesOf(c.op, "handoff") = NoClause
        /\ ClausesOf(c.op, "core") = Else(MemoryLimit, Clause(Errors, "QA_FAILED"))
        /\ ClausesOf(c.op, "write") = Else(MemoryLimit, Clause(Errors, "QA_FAILED"))
    BY DEF ClausesOf, CoreClauses, WriteClauses
  <2>5. QaAnswer(c) =
            Head(Contract(c)
                 ?? Attempt(Raised(c, "input"), ClausesOf(c.op, "input"))
                 ?? Attempt(Raised(c, "candidate"), ClausesOf(c.op, "candidate"))
                 ?? Attempt(Raised(c, "handoff"), ClausesOf(c.op, "handoff"))
                 ?? Attempt(Raised(c, "core"), ClausesOf(c.op, "core"))
                 ?? Attempt(written, ClausesOf(c.op, "write"))
                 ?? <<Succeeded(Files(c.op))>>)
    BY <2>1, <2>2, <2>3, <2>4 DEF QaAnswer
  <2>6. QED BY <2>5, AttemptIs DEF Contract, ??
<1>2. \A p \in Steps : Raised(c, p) # "nothing" <=> p \in W
  BY RaisedIfWrong
<1>3. Cause(c) =
          IF "token" \in W THEN "token" ELSE
          IF "input" \in W THEN "input" ELSE
          IF "candidate" \in W THEN "candidate" ELSE
          IF "handoff" \in W THEN "handoff" ELSE
          IF "core" \in W THEN "core" ELSE
          IF ~SizesFit(c.op, c.size) THEN "size" ELSE
          IF "write" \in W THEN "write" ELSE
          IF "output" \in W THEN "output" ELSE
          IF "schema" \in W THEN "schema" ELSE
          IF "paper" \in W THEN "paper" ELSE
          "none"
  <2>1. W \subseteq {"token", "input", "candidate", "handoff", "core", "write", "output",
                    "schema", "paper"}
    BY DEF HasChild, IsSandboxCall, CanBeWrong
  <2>2. QED BY <2>1, CauseUnlessRender, SizeIsATrouble
<1> HIDE DEF W
<1>4. QED BY <1>1, <1>2, <1>3 DEF AnswerTo, StepReply, OversizedReply, Steps

(* The files of a success can be taken if they are there and fit.          *)
LEMMA FilesAreTaken ==
    ASSUME NEW c, IsSandboxCall(c)
    PROVE  IsTaken(c, Files(c.op)) <=> "output" \notin DOMAIN c.wrong /\ SizesFit(c.op, c.size)
<1>1. CASE c.op = "preflight"
  BY <1>1 DEF IsTaken, PreflightIsTaken, Files, Found, Sized, SizesFit, WorkerLimits
<1>2. CASE c.op = "normalize"
  BY <1>2 DEF IsTaken, NormalizationIsTaken, Files, Found, Sized, SizesFit, WorkerLimits
<1>3. CASE c.op = "extract"
  BY <1>3 DEF IsTaken, ExtractionIsTaken, Files, Found, Sized, SizesFit, WorkerLimits
<1>4. CASE c.op = "render"
  BY <1>4 DEF IsTaken, RenderIsTaken, Files, Found, Sized, SizesFit, WorkerLimits
<1>5. CASE c.op = "qa"
  BY <1>5 DEF IsTaken, QaIsTaken, Files, Found, Sized, SizesFit, WorkerLimits
<1>6. QED BY <1>1, <1>2, <1>3, <1>4, <1>5 DEF IsSandboxCall

(* What a child that was not stopped answers, for every operation.         *)
LEMMA DispatchedIs ==
    ASSUME NEW c, IsSandboxCall(c), HasChild(c)
    PROVE  Dispatched(c) = AnswerTo(c)
<1>1. CASE c.op = "preflight"
  BY <1>1, PreflightAnswerIs DEF Dispatched
<1>2. CASE c.op = "normalize"
  BY <1>2, NormalizationAnswerIs DEF Dispatched
<1>3. CASE c.op = "extract"
  BY <1>3, ExtractionAnswerIs DEF Dispatched
<1>4. CASE c.op = "render"
  BY <1>4, RenderAnswerIs DEF Dispatched
<1>5. CASE c.op = "qa"
  BY <1>5, QaAnswerIs DEF Dispatched
<1>6. QED BY <1>1, <1>2, <1>3, <1>4, <1>5 DEF IsSandboxCall

(* What the bridge is given: of what goes wrong before the child answers,  *)
(* and of what the child meets.                                            *)
RunTold(c) ==
    CASE Cause(c) \in {"cleanup", "token"} -> "SANDBOX_CONTRACT_UNVERIFIED"
      [] Cause(c) = "prepare" ->
             IF WrongThere(c) = "unavailable" THEN "SANDBOX_UNAVAILABLE"
             ELSE IF WrongThere(c) = "unreadable" THEN "OSError" ELSE "ProtocolError"
      [] Cause(c) = "machine" ->
             IF WrongThere(c) \in {"TIMEOUT", "OUTPUT_LIMIT", "CPU"} THEN "WORKER_LIMIT_EXCEEDED"
             ELSE IF WrongThere(c) = "EXECUTION" THEN FailureOf(c.op) ELSE "RuntimeError"
      [] Cause(c) \in Steps -> StepTold(c, Cause(c))
      [] Cause(c) = "size" -> CodeOf(c.op, "write")
      [] Cause(c) = "output" -> FailureOf(c.op)
      [] Cause(c) \in {"schema", "paper", "none"} -> "OK"

(* A child that answers has its answer told.                               *)
LEMMA ChildTells ==
    ASSUME NEW c, IsSandboxCall(c), HasChild(c)
    PROVE  Bridged(c, Dispatched(c)) = RunTold(c)
<1>1. Dispatched(c) = AnswerTo(c)
  BY DispatchedIs
<1>2. Cause(c) \in Steps \cup {"token", "size", "output", "schema", "paper", "none"}
  BY CausesAreTroubles DEF HasChild, Places, Steps
<1>3. CASE Cause(c) = "token"
  <2>1. Bridged(c, Failed("SANDBOX_CONTRACT_UNVERIFIED")) =
            IF "SANDBOX_CONTRACT_UNVERIFIED" \in Passed(c.op)
            THEN "SANDBOX_CONTRACT_UNVERIFIED" ELSE FailureOf(c.op)
    BY FailedIsReported DEF Bridged
  <2>2. "SANDBOX_CONTRACT_UNVERIFIED" \in Passed(c.op)
    BY DEF IsSandboxCall, Passed
  <2>3. QED BY <1>1, <1>3, <2>1, <2>2 DEF AnswerTo, RunTold, Steps
<1>4. CASE Cause(c) \in Steps
  <2>1. Cause(c) \in DOMAIN c.wrong
    BY <1>4, CausesAreTroubles DEF Steps
  <2>2. Bridged(c, StepReply(c, Cause(c))) = StepTold(c, Cause(c))
    BY <1>4, <2>1, StepTells
  <2>3. QED BY <1>1, <1>4, <2>2 DEF AnswerTo, RunTold, Steps
<1>5. CASE Cause(c) = "size"
  BY <1>1, <1>5, OversizedTells DEF AnswerTo, RunTold, Steps
<1>6. CASE Cause(c) \in {"output", "schema", "paper", "none"}
  <2>1. Bridged(c, Succeeded(Files(c.op))) =
            IF "output" \notin DOMAIN c.wrong /\ SizesFit(c.op, c.size) THEN "OK"
            ELSE FailureOf(c.op)
    BY OutputTells, FilesAreTaken DEF Bridged
  <2>2. AnswerTo(c) = Succeeded(Files(c.op))
    BY <1>6 DEF AnswerTo, Steps
  <2>3. CASE Cause(c) = "output"
    BY <1>1, <2>1, <2>2, <2>3, CausesAreTroubles DEF RunTold, Steps
  <2>4. CASE Cause(c) \in {"schema", "paper", "none"}
    BY <1>1, <2>1, <2>2, <2>4, LateCauses DEF RunTold, Steps
  <2>5. QED BY <1>6, <2>3, <2>4
<1>7. QED BY <1>2, <1>3, <1>4, <1>5, <1>6

(* So has everything that stops a call before.                             *)
LEMMA RunTells ==
    ASSUME NEW c, IsSandboxCall(c)
    PROVE  Translated(RunWorker(c), Passed(c.op), FailureOf(c.op)) = RunTold(c)
<1> DEFINE told(run) == Translated(run, Passed(c.op), FailureOf(c.op))
<1>1. CASE Cause(c) = "cleanup"
  <2>1. RunWorker(c) = <<"CLEANUP">>
    BY <1>1, EarlyCauses, RunWorkerIs
  <2>2. QED BY <1>1, <2>1 DEF Translated, RunTold, Steps
<1>2. CASE Cause(c) = "prepare"
  <2>1. "prepare" \in DOMAIN c.wrong /\ "cleanup" \notin DOMAIN c.wrong
    BY <1>2, EarlyCauses
  <2>2. RunWorker(c) = <<PrepareEffects[c.wrong["prepare"]]>>
    BY <2>1, RunWorkerIs
  <2>3. WrongThere(c) = c.wrong["prepare"]
    BY <1>2, <2>1 DEF WrongThere
  <2>4. WrongThere(c) \in {"unavailable", "unreadable", "missing", "linked"}
    BY <1>2, WhatIsWrong
  <2>5. PrepareEffects[WrongThere(c)] =
            IF WrongThere(c) = "unavailable" THEN "UNAVAILABLE"
            ELSE IF WrongThere(c) = "unreadable" THEN "OSError" ELSE "ProtocolError"
    BY <2>4 DEF PrepareEffects, ControlledPathEffects, Clause, Else
  <2>6. QED BY <1>2, <2>2, <2>3, <2>4, <2>5 DEF Translated, RunTold, Steps
<1>3. CASE Cause(c) = "machine"
  <2>1. /\ "machine" \in DOMAIN c.wrong
        /\ "cleanup" \notin DOMAIN c.wrong /\ "prepare" \notin DOMAIN c.wrong
    BY <1>3, EarlyCauses
  <2>2. RunWorker(c) = <<c.wrong["machine"]>>
    BY <2>1, RunWorkerIs
  <2>3. WrongThere(c) = c.wrong["machine"]
    BY <1>3, <2>1 DEF WrongThere
  <2>4. WrongThere(c) \in {"TIMEOUT", "OUTPUT_LIMIT", "CPU", "EXECUTION", "RuntimeError"}
    BY <1>3, WhatIsWrong
  <2>5. QED BY <1>3, <2>2, <2>3, <2>4 DEF Translated, RunTold, Steps
<1>4. CASE Cause(c) \notin {"cleanup", "prepare", "machine"}
  <2>1. HasChild(c)
    BY <1>4, EarlyCauses DEF HasChild
  <2>2. RunWorker(c) = Judged(c, Dispatched(c))
    BY <2>1, RunWorkerIs DEF HasChild
  <2>3. QED BY <2>1, <2>2, ChildTells DEF Bridged
<1>5. QED BY <1>1, <1>2, <1>3, <1>4

-----------------------------------------------------------------------------
(* From the code that the bridge is given to what the caller is told.      *)

(* The codes of a bridge for a path that cannot be read, a path that       *)
(* cannot be resolved, an invariant that does not hold, and a result that  *)
(* cannot be decoded.                                                      *)
BridgeOf(o) ==
    CASE o = "preflight" ->
             [unreadable |-> "INPUT_REJECTED", unresolved |-> "PREFLIGHT_ARTIFACT_INVALID",
              broken |-> "WORKER_FAILED", garbled |-> "PREFLIGHT_ARTIFACT_INVALID"]
      [] o = "normalize" ->
             [unreadable |-> "WORKER_FAILED", unresolved |-> "NORMALIZATION_ARTIFACT_INVALID",
              broken |-> "WORKER_FAILED", garbled |-> "NORMALIZATION_ARTIFACT_INVALID"]
      [] o = "extract" ->
             [unreadable |-> "WORKER_FAILED", unresolved |-> "EXTRACTION_ARTIFACT_INVALID",
              broken |-> "EXTRACTION_ARTIFACT_INVALID", garbled |-> "EXTRACTION_ARTIFACT_INVALID"]
      [] o = "render" ->
             [unreadable |-> "RENDER_INPUT_INVALID", unresolved |-> "raised",
              broken |-> "raised", garbled |-> "RENDER_MANIFEST_INVALID"]
      [] o = "qa" ->
             [unreadable |-> "QA_INPUT_INVALID", unresolved |-> "raised",
              broken |-> "raised", garbled |-> "QA_ARTIFACT_INVALID"]

(* What an operation tells of each cause.                                  *)
ToldOf(c) ==
    CASE Cause(c) = "prepare" ->
             IF WrongThere(c) = "unavailable" THEN "SANDBOX_UNAVAILABLE"
             ELSE IF WrongThere(c) = "unreadable" THEN BridgeOf(c.op).unreadable
             ELSE BridgeOf(c.op).unresolved
      [] Cause(c) = "machine" /\ WrongThere(c) = "RuntimeError" -> BridgeOf(c.op).broken
      [] Cause(c) = "schema" -> BridgeOf(c.op).garbled
      [] Cause(c) = "paper" -> IF c.op = "qa" THEN "QA_FAILED" ELSE "PREFLIGHT_REJECTED"
      [] OTHER -> RunTold(c)

(* The codes that the bridge of an operation takes over as they are.       *)
TakenOver(o) ==
    {"SANDBOX_CONTRACT_UNVERIFIED", "SANDBOX_UNAVAILABLE", "WORKER_LIMIT_EXCEEDED",
     "SCANNED_PDF_UNSUPPORTED", FailureOf(o), CodeOf(o, "write")}

(* These are codes, and no exceptions and no success.                      *)
LEMMA TakenOverAreCodes ==
    ASSUME NEW o \in SandboxOperations
    PROVE  TakenOver(o) \cap {"OSError", "ProtocolError", "RuntimeError", "OK"} = {}
  BY DEF TakenOver, FailureOf, CodeOf, SandboxOperations

(* What the bridge is given, cause by cause.                               *)
LEMMA RunToldIs ==
    ASSUME NEW c, IsSandboxCall(c)
    PROVE  /\ Cause(c) = "prepare" =>
                  RunTold(c) = IF WrongThere(c) = "unavailable" THEN "SANDBOX_UNAVAILABLE"
                               ELSE IF WrongThere(c) = "unreadable" THEN "OSError"
                               ELSE "ProtocolError"
           /\ Cause(c) = "machine" /\ WrongThere(c) = "RuntimeError" =>
                  RunTold(c) = "RuntimeError"
           /\ Cause(c) \in {"none", "schema", "paper"} => RunTold(c) = "OK"
           /\ \/ Cause(c) \in {"prepare", "none", "schema", "paper"}
              \/ Cause(c) = "machine" /\ WrongThere(c) = "RuntimeError"
              \/ RunTold(c) \in TakenOver(c.op)
<1>1. CASE Cause(c) \in {"prepare", "none", "schema", "paper"}
  BY <1>1 DEF RunTold, Steps
<1>2. CASE Cause(c) = "machine"
  <2>1. WrongThere(c) \in {"TIMEOUT", "OUTPUT_LIMIT", "CPU", "EXECUTION", "RuntimeError"}
    BY <1>2, WhatIsWrong
  <2>2. QED BY <1>2, <2>1 DEF RunTold, TakenOver, Steps
<1>3. CASE Cause(c) \in {"cleanup", "token", "size", "output"}
  BY <1>3 DEF RunTold, TakenOver, Steps
<1>4. CASE Cause(c) \in Steps
  <2>1. RunTold(c) = StepTold(c, Cause(c))
    BY <1>4 DEF RunTold, Steps
  <2>2. CodeOf(c.op, Cause(c)) \in {FailureOf(c.op), CodeOf(c.op, "write")}
    BY DEF CodeOf
  <2>3. StepTold(c, Cause(c)) \in TakenOver(c.op)
    BY <2>2 DEF StepTold, TakenOver
  <2>4. QED BY <1>4, <2>1, <2>3 DEF Steps
<1>5. QED BY <1>1, <1>2, <1>3, <1>4, CausesAreTroubles DEF Places, Steps

(* Preflight can reject a paper.                                           *)
LEMMA PreflightToldIs ==
    ASSUME NEW c, IsSandboxCall(c), c.op = "preflight"
    PROVE  PreflightTold(c) = ToldOf(c)
<1> DEFINE cause == Cause(c)
           code == PreflightWorker(RunWorker(c))
<1>1. code = RunTold(c)
  BY RunTells DEF PreflightWorker, Passed, FailureOf
<1>2. /\ cause \in {"none", "paper"} => PreflightIsDecoded(c)
      /\ cause = "schema" => ~PreflightIsDecoded(c)
  <2>1. /\ cause \in {"none", "paper"} =>
               SizesFit(c.op, c.size) /\ "schema" \notin DOMAIN c.wrong
        /\ cause = "schema" => "schema" \in DOMAIN c.wrong
    BY LateCauses, CausesAreTroubles
  <2>2. QED
    BY <2>1 DEF PreflightIsDecoded, Decoded, Sized, SizesFit,
           WorkerLimits, PreflightLimits
<1>3. /\ cause = "paper" => "paper" \in DOMAIN c.wrong
      /\ cause = "none" => "paper" \notin DOMAIN c.wrong
  BY LateCauses, CausesAreTroubles, WhatIsWrong
<1> HIDE DEF code, cause
<1>4. CASE cause = "prepare" \/ (cause = "machine" /\ WrongThere(c) = "RuntimeError")
  BY <1>1, <1>4, RunToldIs DEF PreflightTold, ToldOf, BridgeOf, code, cause
<1>5. CASE cause \in {"none", "schema", "paper"}
  BY <1>1, <1>2, <1>3, <1>5, RunToldIs DEF PreflightTold, ToldOf, BridgeOf, code, cause
<1>6. CASE code \in TakenOver(c.op)
  <2>1. code \notin {"OSError", "ProtocolError", "RuntimeError", "OK"}
    BY <1>6, TakenOverAreCodes DEF SandboxOperations
  <2>2. PreflightTold(c) = code
    BY <2>1 DEF PreflightTold, code
  <2>3. ToldOf(c) = RunTold(c)
    BY <1>1, <2>1, RunToldIs, WhatIsWrong DEF ToldOf
  <2>4. QED BY <1>1, <2>2, <2>3
<1>7. QED BY <1>1, <1>4, <1>5, <1>6, RunToldIs DEF cause

(* Normalization has one code for whatever cannot be decoded.              *)
LEMMA NormalizationToldIs ==
    ASSUME NEW c, IsSandboxCall(c), c.op = "normalize"
    PROVE  NormalizationTold(c) = ToldOf(c)
<1> DEFINE cause == Cause(c)
           code == NormalizationWorker(RunWorker(c))
<1>1. code = RunTold(c)
  BY RunTells DEF NormalizationWorker, Passed, FailureOf
<1>2. /\ cause \in {"none", "paper"} => NormalizationIsDecoded(c)
      /\ cause = "schema" => ~NormalizationIsDecoded(c)
  <2>1. /\ cause \in {"none", "paper"} =>
               SizesFit(c.op, c.size) /\ "schema" \notin DOMAIN c.wrong
        /\ cause = "schema" => "schema" \in DOMAIN c.wrong
    BY LateCauses, CausesAreTroubles
  <2>2. QED
    BY <2>1 DEF NormalizationIsDecoded, Decoded, Sized, SizesFit,
           WorkerLimits
<1>3. cause # "paper"
  BY LateCauses, CausesAreTroubles, WhatIsWrong
<1> HIDE DEF code, cause
<1>4. CASE cause = "prepare" \/ (cause = "machine" /\ WrongThere(c) = "RuntimeError")
  BY <1>1, <1>4, RunToldIs DEF NormalizationTold, ToldOf, BridgeOf, code, cause
<1>5. CASE cause \in {"none", "schema", "paper"}
  BY <1>1, <1>2, <1>3, <1>5, RunToldIs DEF NormalizationTold, ToldOf, BridgeOf, code, cause
<1>6. CASE code \in TakenOver(c.op)
  <2>1. code \notin {"OSError", "ProtocolError", "RuntimeError", "OK"}
    BY <1>6, TakenOverAreCodes DEF SandboxOperations
  <2>2. NormalizationTold(c) = code
    BY <2>1 DEF NormalizationTold, code
  <2>3. ToldOf(c) = RunTold(c)
    BY <1>1, <2>1, RunToldIs, WhatIsWrong DEF ToldOf
  <2>4. QED BY <1>1, <2>2, <2>3
<1>7. QED BY <1>1, <1>4, <1>5, <1>6, RunToldIs DEF cause

(* Extraction has one code for whatever it cannot take.                    *)
LEMMA ExtractionToldIs ==
    ASSUME NEW c, IsSandboxCall(c), c.op = "extract"
    PROVE  ExtractionTold(c) = ToldOf(c)
<1> DEFINE cause == Cause(c)
           code == ExtractionWorker(RunWorker(c))
<1>1. code = RunTold(c)
  BY RunTells DEF ExtractionWorker, Passed, FailureOf
<1>2. /\ cause \in {"none", "paper"} => Decoded(c)
      /\ cause = "schema" => ~Decoded(c)
  <2>1. /\ cause \in {"none", "paper"} =>
               SizesFit(c.op, c.size) /\ "schema" \notin DOMAIN c.wrong
        /\ cause = "schema" => "schema" \in DOMAIN c.wrong
    BY LateCauses, CausesAreTroubles
  <2>2. QED
    BY <2>1 DEF Decoded
<1>3. cause # "paper"
  BY LateCauses, CausesAreTroubles, WhatIsWrong
<1> HIDE DEF code, cause
<1>4. CASE cause = "prepare" \/ (cause = "machine" /\ WrongThere(c) = "RuntimeError")
  BY <1>1, <1>4, RunToldIs DEF ExtractionTold, ToldOf, BridgeOf, code, cause
<1>5. CASE cause \in {"none", "schema", "paper"}
  BY <1>1, <1>2, <1>3, <1>5, RunToldIs DEF ExtractionTold, ToldOf, BridgeOf, code, cause
<1>6. CASE code \in TakenOver(c.op)
  <2>1. code \notin {"OSError", "ProtocolError", "RuntimeError", "OK"}
    BY <1>6, TakenOverAreCodes DEF SandboxOperations
  <2>2. ExtractionTold(c) = code
    BY <2>1 DEF ExtractionTold, code
  <2>3. ToldOf(c) = RunTold(c)
    BY <1>1, <2>1, RunToldIs, WhatIsWrong DEF ToldOf
  <2>4. QED BY <1>1, <2>2, <2>3
<1>7. QED BY <1>1, <1>4, <1>5, <1>6, RunToldIs DEF cause

(* Rendering raises what is neither a code nor an OSError.                 *)
LEMMA RenderToldIs ==
    ASSUME NEW c, IsSandboxCall(c), c.op = "render"
    PROVE  RenderTold(c) = ToldOf(c)
<1> DEFINE cause == Cause(c)
           code == RenderWorker(RunWorker(c))
<1>1. code = RunTold(c)
  BY RunTells DEF RenderWorker, Passed, FailureOf
<1>2. /\ cause \in {"none", "paper"} => ManifestIsDecoded(c)
      /\ cause = "schema" => ~ManifestIsDecoded(c)
  <2>1. /\ cause \in {"none", "paper"} =>
               SizesFit(c.op, c.size) /\ "schema" \notin DOMAIN c.wrong
        /\ cause = "schema" => "schema" \in DOMAIN c.wrong
    BY LateCauses, CausesAreTroubles
  <2>2. QED
    BY <2>1 DEF ManifestIsDecoded, Decoded, Sized, SizesFit,
           WorkerLimits
<1>3. cause # "paper"
  BY LateCauses, CausesAreTroubles, WhatIsWrong
<1> HIDE DEF code, cause
<1>4. CASE cause = "prepare" \/ (cause = "machine" /\ WrongThere(c) = "RuntimeError")
  BY <1>1, <1>4, RunToldIs DEF RenderTold, ToldOf, BridgeOf, code, cause
<1>5. CASE cause \in {"none", "schema", "paper"}
  BY <1>1, <1>2, <1>3, <1>5, RunToldIs DEF RenderTold, ToldOf, BridgeOf, code, cause
<1>6. CASE code \in TakenOver(c.op)
  <2>1. code \notin {"OSError", "ProtocolError", "RuntimeError", "OK"}
    BY <1>6, TakenOverAreCodes DEF SandboxOperations
  <2>2. RenderTold(c) = code
    BY <2>1 DEF RenderTold, code
  <2>3. ToldOf(c) = RunTold(c)
    BY <1>1, <2>1, RunToldIs, WhatIsWrong DEF ToldOf
  <2>4. QED BY <1>1, <2>2, <2>3
<1>7. QED BY <1>1, <1>4, <1>5, <1>6, RunToldIs DEF cause

(* So does QA, and a report of it can fail.                                *)
LEMMA QaToldIs ==
    ASSUME NEW c, IsSandboxCall(c), c.op = "qa"
    PROVE  QaTold(c) = ToldOf(c)
<1> DEFINE cause == Cause(c)
           code == QaWorker(RunWorker(c))
<1>1. code = RunTold(c)
  BY RunTells DEF QaWorker, Passed, FailureOf
<1>2. /\ cause \in {"none", "paper"} => Decoded(c)
      /\ cause = "schema" => ~Decoded(c)
  <2>1. /\ cause \in {"none", "paper"} =>
               SizesFit(c.op, c.size) /\ "schema" \notin DOMAIN c.wrong
        /\ cause = "schema" => "schema" \in DOMAIN c.wrong
    BY LateCauses, CausesAreTroubles
  <2>2. QED
    BY <2>1 DEF Decoded
<1>3. /\ cause = "paper" => "paper" \in DOMAIN c.wrong
      /\ cause = "none" => "paper" \notin DOMAIN c.wrong
  BY LateCauses, CausesAreTroubles, WhatIsWrong
<1> HIDE DEF code, cause
<1>4. CASE cause = "prepare" \/ (cause = "machine" /\ WrongThere(c) = "RuntimeError")
  BY <1>1, <1>4, RunToldIs DEF QaTold, ToldOf, BridgeOf, code, cause
<1>5. CASE cause \in {"none", "schema", "paper"}
  BY <1>1, <1>2, <1>3, <1>5, RunToldIs DEF QaTold, ToldOf, BridgeOf, code, cause
<1>6. CASE code \in TakenOver(c.op)
  <2>1. code \notin {"OSError", "ProtocolError", "RuntimeError", "OK"}
    BY <1>6, TakenOverAreCodes DEF SandboxOperations
  <2>2. QaTold(c) = code
    BY <2>1 DEF QaTold, code
  <2>3. ToldOf(c) = RunTold(c)
    BY <1>1, <2>1, RunToldIs, WhatIsWrong DEF ToldOf
  <2>4. QED BY <1>1, <2>2, <2>3
<1>7. QED BY <1>1, <1>4, <1>5, <1>6, RunToldIs DEF cause

-----------------------------------------------------------------------------
(* The answers are true.                                                   *)

(* The codes that do not mean one thing only.                              *)
PlainCodes(o) ==
    Messages(o) \ {"SCANNED_PDF_UNSUPPORTED", "PREFLIGHT_REJECTED", "SANDBOX_CONTRACT_UNVERIFIED",
                   "SANDBOX_UNAVAILABLE", "WORKER_LIMIT_EXCEEDED"}

(* Every bridge has messages for what all of them tell.                    *)
LEMMA MessagesAre ==
    ASSUME NEW o \in SandboxOperations
    PROVE  /\ {"SANDBOX_CONTRACT_UNVERIFIED", "SANDBOX_UNAVAILABLE", "WORKER_LIMIT_EXCEEDED"}
                  \subseteq Messages(o)
           /\ "SCANNED_PDF_UNSUPPORTED" \in Messages("extract")
           /\ "PREFLIGHT_REJECTED" \in Messages("preflight")
           /\ PlainCodes(o) \subseteq Messages(o)
           /\ PlainCodes(o) \cap {"OK", "raised", "SCANNED_PDF_UNSUPPORTED", "PREFLIGHT_REJECTED",
                                  "SANDBOX_CONTRACT_UNVERIFIED", "SANDBOX_UNAVAILABLE",
                                  "WORKER_LIMIT_EXCEEDED"} = {}
  BY DEF Messages, PreflightMessages, NormalizationMessages, ExtractionMessages,
         SandboxOperations, PlainCodes

(* The codes of a bridge that have a message, and the two that have none.  *)
LEMMA CodesArePlain ==
    ASSUME NEW o \in SandboxOperations
    PROVE  /\ {FailureOf(o), CodeOf(o, "write"), BridgeOf(o).unreadable, BridgeOf(o).garbled}
                  \subseteq PlainCodes(o)
           /\ IF o \in {"render", "qa"}
              THEN BridgeOf(o).unresolved = "raised" /\ BridgeOf(o).broken = "raised"
              ELSE {BridgeOf(o).unresolved, BridgeOf(o).broken} \subseteq PlainCodes(o)
<1>1. CASE o = "preflight"
  BY <1>1 DEF PlainCodes, Messages, PreflightMessages, BridgeOf, FailureOf, CodeOf
<1>2. CASE o = "normalize"
  BY <1>2 DEF PlainCodes, Messages, NormalizationMessages, BridgeOf, FailureOf, CodeOf
<1>3. CASE o = "extract"
  BY <1>3 DEF PlainCodes, Messages, ExtractionMessages, BridgeOf, FailureOf, CodeOf
<1>4. CASE o = "render"
  BY <1>4 DEF PlainCodes, Messages, BridgeOf, FailureOf, CodeOf
<1>5. CASE o = "qa"
  BY <1>5 DEF PlainCodes, Messages, BridgeOf, FailureOf, CodeOf
<1>6. QED BY <1>1, <1>2, <1>3, <1>4, <1>5 DEF SandboxOperations

(* What is told of a cause is true of it.                                  *)
LEMMA ToldOfIsTrue ==
    ASSUME NEW c, IsSandboxCall(c)
    PROVE  IsTrueOf(ToldOf(c), c)
<1> DEFINE cause == Cause(c)
           what == WrongThere(c)
           told == ToldOf(c)
           plain == PlainCodes(c.op)
           starved == /\ what \in {"starved", "MemoryError"}
                      /\ c.reported \/ (cause \in {"core", "write"} /\ c.op # "preflight")
<1>1. c.op \in SandboxOperations
  BY DEF IsSandboxCall, SandboxOperations
<1>2. /\ plain \subseteq Messages(c.op)
      /\ plain \cap {"OK", "raised", "SCANNED_PDF_UNSUPPORTED", "PREFLIGHT_REJECTED",
                     "SANDBOX_CONTRACT_UNVERIFIED", "SANDBOX_UNAVAILABLE",
                     "WORKER_LIMIT_EXCEEDED"} = {}
  BY <1>1, MessagesAre
<1>3. /\ {FailureOf(c.op), CodeOf(c.op, "write"), BridgeOf(c.op).unreadable,
          BridgeOf(c.op).garbled} \subseteq plain
      /\ IF c.op \in {"render", "qa"}
         THEN BridgeOf(c.op).unresolved = "raised" /\ BridgeOf(c.op).broken = "raised"
         ELSE {BridgeOf(c.op).unresolved, BridgeOf(c.op).broken} \subseteq plain
  BY <1>1, CodesArePlain
<1> HIDE DEF plain
<1>4. CASE cause \in {"cleanup", "token"}
  <2>1. /\ told = "SANDBOX_CONTRACT_UNVERIFIED"
        /\ what \in {"left", "absent", "missing", "garbled"}
    BY <1>4, WhatIsWrong DEF ToldOf, RunTold, Steps
  <2>2. QED BY <1>1, <1>4, <2>1, MessagesAre DEF IsTrueOf
<1>5. CASE cause = "prepare"
  <2>1. /\ what \in {"unavailable", "unreadable", "missing", "linked"}
        /\ told = IF what = "unavailable" THEN "SANDBOX_UNAVAILABLE"
                  ELSE IF what = "unreadable" THEN BridgeOf(c.op).unreadable
                  ELSE BridgeOf(c.op).unresolved
    BY <1>5, WhatIsWrong DEF ToldOf
  <2>2. QED BY <1>1, <1>2, <1>3, <1>5, <2>1, MessagesAre DEF IsTrueOf
<1>6. CASE cause = "machine"
  <2>1. what \in {"TIMEOUT", "OUTPUT_LIMIT", "CPU", "EXECUTION", "RuntimeError"}
    BY <1>6, WhatIsWrong
  <2>2. told = IF what \in {"TIMEOUT", "OUTPUT_LIMIT", "CPU"} THEN "WORKER_LIMIT_EXCEEDED"
               ELSE IF what = "EXECUTION" THEN FailureOf(c.op) ELSE BridgeOf(c.op).broken
    BY <1>6, <2>1 DEF ToldOf, RunTold, Steps
  <2>3. QED BY <1>1, <1>2, <1>3, <1>6, <2>1, <2>2, MessagesAre DEF IsTrueOf
<1>7. CASE cause \in {"size", "output", "schema"}
  <2>1. told \in plain
    BY <1>3, <1>7 DEF ToldOf, RunTold, Steps
  <2>2. what \in {"none", "left", "absent", "missing", "garbled"}
    BY <1>7, WhatIsWrong
  <2>3. QED BY <1>1, <1>2, <1>7, <2>1, <2>2 DEF IsTrueOf
<1>8. CASE cause = "paper"
  <2>1. /\ c.op \in {"preflight", "qa"} /\ what \in {"rejected", "swallowed"}
        /\ told = IF c.op = "qa" THEN "QA_FAILED" ELSE "PREFLIGHT_REJECTED"
    BY <1>8, WhatIsWrong DEF ToldOf
  <2>2. told \in Messages(c.op)
    BY <1>1, <2>1, MessagesAre DEF Messages
  <2>3. QED BY <1>8, <2>1, <2>2 DEF IsTrueOf
<1>9. CASE cause = "none"
  <2>1. told = "OK" /\ what = "none"
    BY <1>9, WhatIsWrong DEF ToldOf, RunTold, Steps
  <2>2. QED BY <1>9, <2>1 DEF IsTrueOf
<1>10. CASE cause \in Steps
  <2>1. PICK code \in plain :
            told = IF starved THEN "WORKER_LIMIT_EXCEEDED"
                   ELSE IF what = "ScannedPdfUnsupportedError" THEN "SCANNED_PDF_UNSUPPORTED"
                   ELSE code
    <3>1. CodeOf(c.op, cause) \in plain
      BY <1>3 DEF CodeOf
    <3>2. told = StepTold(c, cause) /\ what = c.wrong[cause]
      BY <1>10, WhatIsWrong DEF ToldOf, RunTold, Steps
    <3>3. QED BY <3>1, <3>2 DEF StepTold
  <2>2. /\ cause = "core" /\ what = "swallowed" => c.op \in {"normalize", "render"}
        /\ cause = "core" /\ what = "swallowed" /\ c.op \in {"normalize", "render"} =>
               told = FailureOf(c.op)
    <3>1. told = StepTold(c, cause) /\ what = c.wrong[cause]
      BY <1>10, WhatIsWrong DEF ToldOf, RunTold, Steps
    <3>2. QED BY <1>10, <3>1, WhatIsWrong DEF StepTold, CodeOf
  <2>3. cause = "core" /\ what = "swallowed" =>
            told = IF c.op = "normalize" THEN "WORKER_FAILED" ELSE "RENDER_FAILED"
    BY <2>2 DEF FailureOf
  <2>4. /\ what \notin EarlyEvents
        /\ what = "ScannedPdfUnsupportedError" => cause = "core" /\ c.op = "extract"
    BY <1>10, WhatIsWrong
  <2>5. cause \notin {"none", "paper", "cleanup", "token", "prepare", "machine"}
    BY <1>10 DEF Steps
  <2> HIDE DEF told, what, cause
  <2>6. /\ told \notin {"OK", "PREFLIGHT_REJECTED", "SANDBOX_CONTRACT_UNVERIFIED",
                        "SANDBOX_UNAVAILABLE", "raised"}
        /\ told = "SCANNED_PDF_UNSUPPORTED" <=> what = "ScannedPdfUnsupportedError"
        /\ told = "WORKER_LIMIT_EXCEEDED" <=> starved
    BY <1>2, <2>1
  <2>7. told \in Messages(c.op)
    BY <1>1, <1>2, <2>1, <2>4, MessagesAre
  <2>8. QED BY <2>4, <2>5, <2>6, <2>7, <2>3 DEF IsTrueOf, EarlyEvents, told, what, cause
<1>11. QED
  BY <1>4, <1>5, <1>6, <1>7, <1>8, <1>9, <1>10, CausesAreTroubles DEF Places, Steps

(* So is what every operation tells.                                       *)
LEMMA ToldIsTrue ==
    ASSUME NEW c, IsSandboxCall(c)
    PROVE  IsTrueOf(Told(c), c)
<1>1. Told(c) = ToldOf(c)
  <2>1. CASE c.op = "preflight"
    BY <2>1, PreflightToldIs DEF Told
  <2>2. CASE c.op = "normalize"
    BY <2>2, NormalizationToldIs DEF Told
  <2>3. CASE c.op = "extract"
    BY <2>3, ExtractionToldIs DEF Told
  <2>4. CASE c.op = "render"
    BY <2>4, RenderToldIs DEF Told
  <2>5. CASE c.op = "qa"
    BY <2>5, QaToldIs DEF Told
  <2>6. QED BY <2>1, <2>2, <2>3, <2>4, <2>5 DEF IsSandboxCall
<1>2. QED BY <1>1, ToldOfIsTrue

-----------------------------------------------------------------------------
(* Induction over the subsets of a finite set, and what a fold reaches.    *)

(* Natural numbers have a least one among them.                            *)
LEMMA LeastExists ==
    ASSUME NEW T \in SUBSET Nat, T # {}
    PROVE  \E x \in T : \A y \in T : x <= y
<1>1. PICK x \in T : \A y \in T : ~(<<y, x>> \in OpToRel(<, Nat))
  BY NatLessThanWellFounded, WFMin
<1>2. \A y \in T : ~(y < x)
  BY <1>1 DEF OpToRel
<1>3. QED BY <1>2

(* And those up to a bound have a greatest one.                            *)
LEMMA MaxIsMember ==
    ASSUME NEW n \in Nat, NEW T \in SUBSET (1 .. n), T # {}
    PROVE  Max(T) \in T /\ \A y \in T : y <= Max(T)
<1> DEFINE U == {k \in Nat : \A y \in T : y <= k}
<1>1. n \in U OBVIOUS
<1>2. PICK k \in U : \A u \in U : k <= u
  <2> HIDE DEF U
  <2>1. U \in SUBSET Nat BY DEF U
  <2>2. QED BY <1>1, <2>1, LeastExists
<1>3. k \in T
  <2>1. k # 0
    <3>1. PICK y \in T : TRUE OBVIOUS
    <3>2. y \in 1 .. n /\ y <= k OBVIOUS
    <3>3. QED BY <3>2
  <2>2. k - 1 \in Nat /\ ~(k <= k - 1) BY <2>1
  <2>3. k - 1 \notin U BY <1>2, <2>2
  <2>4. PICK y \in T : ~(y <= k - 1) BY <2>2, <2>3
  <2>5. y = k BY <2>4
  <2>6. QED BY <2>5
<1>4. \A y \in T : k >= y
  BY <1>2
<1>5. Max(T) \in T /\ \A y \in T : Max(T) >= y
  BY <1>3, <1>4 DEF Max
<1>6. QED BY <1>5

(* Whatever holds of 0, and with every number of the next, holds of all.   *)
LEMMA NumbersInduct ==
    ASSUME NEW K \in SUBSET Nat, 0 \in K, \A k \in K : k + 1 \in K
    PROVE  K = Nat
<1> SUFFICES ASSUME Nat \ K # {} PROVE FALSE
  OBVIOUS
<1>1. PICK n \in Nat \ K : \A m \in Nat \ K : n <= m
  BY LeastExists
<1>2. \A m \in Nat \ K : ~(m < n)
  BY <1>1
<1>3. n \in Nat /\ n # 0
  OBVIOUS
<1>4. n - 1 \in K
  BY <1>2, <1>3
<1>5. (n - 1) + 1 \in K
  BY <1>4
<1>6. (n - 1) + 1 = n
  BY <1>3
<1>7. QED BY <1>5, <1>6

(* A way to take a finite set apart, an element at a time.                 *)
Picks(choice, S) == \A s \in SUBSET S : s # {} => choice[s] \in s

(* The rest of a set has one element less.                                 *)
LEMMA RestIsSmaller ==
    ASSUME NEW S, IsFiniteSet(S), NEW choice, Picks(choice, S),
           NEW s \in SUBSET S, s # {}
    PROVE  /\ s \ {choice[s]} \in SUBSET S
           /\ Cardinality(s) \in Nat /\ Cardinality(s) # 0
           /\ Cardinality(s \ {choice[s]}) = Cardinality(s) - 1
<1>1. IsFiniteSet(s) /\ choice[s] \in s
  BY FS_Subset DEF Picks
<1>2. QED BY <1>1, FS_RemoveElement, FS_CardinalityType, FS_EmptySet

(* What holds of no element, and with every rest of the whole, holds of    *)
(* all subsets.                                                            *)
LEMMA SubsetsInduct ==
    ASSUME NEW S, IsFiniteSet(S), NEW choice, Picks(choice, S),
           NEW Good \in SUBSET SUBSET S, {} \in Good,
           \A s \in SUBSET S : s # {} /\ s \ {choice[s]} \in Good => s \in Good
    PROVE  Good = SUBSET S
<1> DEFINE K == {k \in Nat : \A s \in SUBSET S : Cardinality(s) = k => s \in Good}
<1>1. 0 \in K
  BY FS_Subset, FS_EmptySet
<1>2. ASSUME NEW k \in K PROVE k + 1 \in K
  <2>1. k \in Nat OBVIOUS
  <2> SUFFICES ASSUME NEW s \in SUBSET S, Cardinality(s) = k + 1 PROVE s \in Good
    BY <2>1
  <2>2. s # {}
    BY FS_EmptySet, <2>1
  <2>3. Cardinality(s \ {choice[s]}) = k
    BY <2>1, <2>2, RestIsSmaller
  <2>4. QED BY <2>2, <2>3
<1>3. K = Nat
  <2> HIDE DEF K
  <2>1. K \in SUBSET Nat BY DEF K
  <2>2. QED BY <1>1, <1>2, <2>1, NumbersInduct
<1>4. ASSUME NEW s \in SUBSET S PROVE s \in Good
  <2>1. Cardinality(s) \in Nat BY FS_Subset, FS_CardinalityType
  <2>2. Cardinality(s) \in K BY <1>3, <2>1
  <2>3. QED BY <2>2
<1>5. QED BY <1>4

(* A value for every subset, made from that of its rest.                    *)
IsFold(g, S, choice, base, Step) ==
    g = [s \in SUBSET S |-> IF s = {} THEN base ELSE Step[s][g[s \ {choice[s]}]]]

(* Whatever the step does with the value of the rest, there are such values. *)
LEMMA FoldExists ==
    ASSUME NEW S, IsFiniteSet(S), NEW choice, Picks(choice, S), NEW base, NEW Step
    PROVE  \E g : IsFold(g, S, choice, base, Step)
<1> DEFINE Upto(k) == {s \in SUBSET S : Cardinality(s) <= k}
           Folds(g, D) == g = [s \in D |-> IF s = {} THEN base
                                           ELSE Step[s][g[s \ {choice[s]}]]]
           K == {k \in Nat : \E g : Folds(g, Upto(k))}
<1> HIDE DEF Folds
<1>1. 0 \in K
  <2> DEFINE g == [s \in Upto(0) |-> base]
  <2>1. Upto(0) = {{}}
    BY FS_Subset, FS_EmptySet, FS_CardinalityType
  <2>2. Folds(g, Upto(0)) BY <2>1 DEF Folds
  <2>3. QED BY <2>2
<1>2. ASSUME NEW k \in K PROVE k + 1 \in K
  <2>1. k \in Nat OBVIOUS
  <2>2. PICK g : Folds(g, Upto(k)) OBVIOUS
  <2> DEFINE h == [s \in Upto(k + 1) |-> IF s = {} THEN base
                                         ELSE Step[s][g[s \ {choice[s]}]]]
  <2>3. ASSUME NEW s \in Upto(k + 1), s # {}
        PROVE  /\ s \ {choice[s]} \in Upto(k) /\ s \ {choice[s]} \in Upto(k + 1)
    BY <2>1, <2>3, RestIsSmaller
  <2>4. ASSUME NEW s \in Upto(k) PROVE s \in Upto(k + 1) /\ g[s] = h[s]
    <3>1. s \in Upto(k + 1) BY <2>1, FS_Subset, FS_CardinalityType
    <3>2. g[s] = IF s = {} THEN base ELSE Step[s][g[s \ {choice[s]}]]
      BY <2>2 DEF Folds
    <3>3. QED BY <3>1, <3>2
  <2>5. Folds(h, Upto(k + 1))
    <3> HIDE DEF Upto
    <3>1. \A s \in Upto(k + 1) : s # {} => g[s \ {choice[s]}] = h[s \ {choice[s]}]
      BY <2>3, <2>4
    <3>2. QED BY <3>1 DEF Folds
  <2>6. k + 1 \in Nat BY <2>1
  <2> HIDE DEF Upto, h
  <2>7. QED BY <2>5, <2>6
<1>3. K = Nat
  <2> HIDE DEF K
  <2>1. K \in SUBSET Nat BY DEF K
  <2>2. QED BY <1>1, <1>2, <2>1, NumbersInduct
<1>4. Cardinality(S) \in Nat /\ Upto(Cardinality(S)) = SUBSET S
  BY FS_Subset, FS_CardinalityType
<1>5. \E g : Folds(g, Upto(Cardinality(S)))
  <2> HIDE DEF Upto
  <2>1. QED BY <1>3, <1>4
<1>6. PICK g : Folds(g, SUBSET S)
  <2> HIDE DEF Upto
  <2>1. QED BY <1>4, <1>5
<1>7. QED BY <1>6 DEF Folds, IsFold

(* A function of the subsets that is defined by such a step takes values   *)
(* among those that the step leads to.                                     *)
LEMMA FoldStays ==
    ASSUME NEW S, IsFiniteSet(S), NEW choice, Picks(choice, S),
           NEW States, NEW g, g[{}] \in States[{}],
           \A s \in SUBSET S : s # {} /\ g[s \ {choice[s]}] \in States[s \ {choice[s]}] =>
                                   g[s] \in States[s]
    PROVE  \A s \in SUBSET S : g[s] \in States[s]
<1> DEFINE Good == {s \in SUBSET S : g[s] \in States[s]}
<1>1. Good \in SUBSET SUBSET S /\ {} \in Good
  OBVIOUS
<1>2. \A s \in SUBSET S : s # {} /\ s \ {choice[s]} \in Good => s \in Good
  OBVIOUS
<1>3. Good = SUBSET S
  <2> HIDE DEF Good
  <2>1. QED BY <1>1, <1>2, SubsetsInduct
<1>4. QED BY <1>3

(* Such values exist, and where the steps lead among given ones, they are   *)
(* among them.                                                             *)
LEMMA FoldsInto ==
    ASSUME NEW S, IsFiniteSet(S), NEW choice, Picks(choice, S), NEW base, NEW Step,
           NEW States, base \in States[{}],
           \A s \in SUBSET S : s # {} =>
               \A a \in States[s \ {choice[s]}] : Step[s][a] \in States[s]
    PROVE  \E g : /\ IsFold(g, S, choice, base, Step)
                  /\ \A s \in SUBSET S : g[s] \in States[s]
<1>1. PICK g : IsFold(g, S, choice, base, Step)
  BY FoldExists
<1>2. g[{}] \in States[{}]
  BY <1>1 DEF IsFold
<1>3. \A s \in SUBSET S : s # {} => g[s] = Step[s][g[s \ {choice[s]}]]
  BY <1>1 DEF IsFold
<1>4. \A s \in SUBSET S : s # {} /\ g[s \ {choice[s]}] \in States[s \ {choice[s]}] =>
                                 g[s] \in States[s]
  BY <1>3
<1>5. \A s \in SUBSET S : g[s] \in States[s]
  BY <1>2, <1>4, FoldStays
<1>6. QED BY <1>1, <1>5

-----------------------------------------------------------------------------
(* Sorting.                                                                *)

(* An insertion adds its element to those of the sequence.                 *)
LEMMA InsertAtIs ==
    ASSUME NEW X, NEW seq \in Seq(X), NEW i \in 1 .. Len(seq) + 1, NEW x \in X
    PROVE  /\ InsertAt(seq, i, x) \in Seq(X)
           /\ Len(InsertAt(seq, i, x)) = Len(seq) + 1
           /\ ToSet(InsertAt(seq, i, x)) = ToSet(seq) \cup {x}
<1> DEFINE front == SubSeq(seq, 1, i - 1)
           back == SubSeq(seq, i, Len(seq))
           all == InsertAt(seq, i, x)
<1>1. /\ front \in Seq(X) /\ Len(front) = i - 1 /\ \A k \in 1 .. i - 1 : front[k] = seq[k]
  OBVIOUS
<1>2. /\ back \in Seq(X) /\ Len(back) = Len(seq) - i + 1
      /\ \A k \in 1 .. Len(seq) - i + 1 : back[k] = seq[k + i - 1]
  OBVIOUS
<1>3. all = front \o <<x>> \o back
  BY DEF InsertAt
<1> HIDE DEF front, back, all
<1>4. /\ all \in Seq(X) /\ Len(all) = Len(seq) + 1
      /\ \A k \in 1 .. i - 1 : all[k] = front[k]
      /\ all[i] = x
      /\ \A k \in i + 1 .. Len(seq) + 1 : all[k] = back[k - i]
  <2> DEFINE upto == front \o <<x>>
  <2>1. /\ upto \in Seq(X) /\ Len(upto) = i /\ upto[i] = x
        /\ \A k \in 1 .. i - 1 : upto[k] = front[k]
    BY <1>1
  <2>2. all = upto \o back
    BY <1>3
  <2> HIDE DEF upto
  <2>3. all \in Seq(X) /\ Len(all) = Len(upto) + Len(back)
    <3>1. upto \in Seq(X) /\ back \in Seq(X)
      BY <1>2, <2>1
    <3>2. QED BY <2>2, <3>1
  <2>7. Len(all) = Len(seq) + 1
    BY <1>2, <2>1, <2>3
  <2>4. \A k \in 1 .. i : all[k] = upto[k]
    BY <1>2, <2>1, <2>2
  <2>5. \A k \in i + 1 .. Len(seq) + 1 : all[k] = back[k - i]
    BY <1>2, <2>1, <2>2
  <2>6. QED BY <2>1, <2>3, <2>4, <2>5, <2>7
<1>5. ASSUME NEW k \in DOMAIN seq PROVE seq[k] \in ToSet(all)
  <2>1. CASE k < i
    BY <1>1, <1>4, <2>1 DEF ToSet
  <2>2. CASE k >= i
    <3>1. k + 1 \in i + 1 .. Len(seq) + 1 /\ all[k + 1] = back[k + 1 - i]
      BY <1>4, <2>2
    <3>2. k + 1 - i \in 1 .. Len(seq) - i + 1 /\ (k + 1 - i) + i - 1 = k
      BY <2>2
    <3>3. back[k + 1 - i] = seq[k]
      BY <1>2, <3>2
    <3>4. all[k + 1] = seq[k] /\ k + 1 \in DOMAIN all
      BY <1>4, <3>1, <3>3
    <3>5. QED BY <3>4 DEF ToSet
  <2>3. QED BY <2>1, <2>2
<1>6. ASSUME NEW k \in DOMAIN all PROVE all[k] \in ToSet(seq) \cup {x}
  <2>1. CASE k < i
    BY <1>1, <1>4, <2>1 DEF ToSet
  <2>2. CASE k = i
    BY <1>4, <2>2
  <2>3. CASE k > i
    <3>1. k \in i + 1 .. Len(seq) + 1
      BY <1>4, <2>3
    <3>2. k - i \in 1 .. Len(seq) - i + 1 /\ (k - i) + i - 1 \in DOMAIN seq
      BY <3>1
    <3>3. all[k] = seq[(k - i) + i - 1]
      BY <1>2, <1>4, <3>1, <3>2
    <3>4. QED BY <3>2, <3>3 DEF ToSet
  <2>4. QED BY <2>1, <2>2, <2>3
<1>7. x \in ToSet(all)
  <2>1. i \in DOMAIN all /\ all[i] = x
    BY <1>4
  <2>2. QED BY <2>1 DEF ToSet
<1>8. ToSet(all) = ToSet(seq) \cup {x}
  BY <1>5, <1>6, <1>7 DEF ToSet
<1>9. QED BY <1>4, <1>8 DEF all

(* An insertion sort keeps the elements, whatever comes before what.        *)
LEMMA InsertedIs ==
    ASSUME NEW S, IsFiniteSet(S), NEW before
    PROVE  /\ Inserted(S, before) \in Seq(S)
           /\ ToSet(Inserted(S, before)) = S
           /\ Len(Inserted(S, before)) = Cardinality(S)
<1> DEFINE choice == [s \in SUBSET S |-> CHOOSE x \in s : TRUE]
           Put(x, seq) == InsertAt(seq, 1 + Cardinality(before[x] \cap ToSet(seq)), x)
           Step == [s \in SUBSET S |-> [seq \in Seq(S) |-> Put(choice[s], seq)]]
           States == [s \in SUBSET S |->
               {q \in Seq(S) : ToSet(q) = s /\ Len(q) = Cardinality(s)}]
           Puts(g) == g = [s \in SUBSET S |-> IF s = {} THEN <<>>
                               ELSE LET x == CHOOSE y \in s : TRUE IN Put(x, g[s \ {x}])]
           iter == CHOOSE g : Puts(g)
<1>1. Picks(choice, S)
  BY DEF Picks
<1>2. \A s \in SUBSET S : s # {} => /\ choice[s] \in s /\ s \ {choice[s]} \in SUBSET S
                                     /\ choice[s] = CHOOSE x \in s : TRUE
  BY <1>1 DEF Picks
<1> HIDE DEF choice
<1>3. <<>> \in States[{}]
  BY FS_EmptySet DEF ToSet
<1>4. ASSUME NEW s \in SUBSET S, s # {}, NEW q \in States[s \ {choice[s]}]
      PROVE  Put(choice[s], q) \in States[s]
  <2> DEFINE x == choice[s]
             rest == s \ {x}
             i == 1 + Cardinality(before[x] \cap ToSet(q))
  <2>1. x \in s /\ rest \in SUBSET S /\ s = rest \cup {x} /\ x \in S
    BY <1>2, <1>4
  <2>2. q \in Seq(S) /\ ToSet(q) = rest /\ Len(q) = Cardinality(rest)
    BY <1>4, <2>1
  <2>3. Cardinality(s) = Cardinality(rest) + 1
    BY <1>1, <1>4, RestIsSmaller
  <2>4. i \in 1 .. Len(q) + 1
    <3>1. IsFiniteSet(rest)
      BY <2>1, FS_Subset
    <3>2. /\ IsFiniteSet(before[x] \cap rest)
          /\ Cardinality(before[x] \cap rest) <= Cardinality(rest)
      BY <3>1, FS_Subset
    <3>3. Cardinality(before[x] \cap rest) \in Nat
      BY <3>2, FS_CardinalityType
    <3>4. QED BY <2>2, <3>2, <3>3
  <2> HIDE DEF x, rest, i, States
  <2>5. /\ InsertAt(q, i, x) \in Seq(S) /\ Len(InsertAt(q, i, x)) = Len(q) + 1
        /\ ToSet(InsertAt(q, i, x)) = ToSet(q) \cup {x}
    <3>1. x \in S /\ q \in Seq(S) /\ i \in 1 .. Len(q) + 1
      BY <2>1, <2>2, <2>4
    <3>2. QED BY <3>1, InsertAtIs
  <2>6. InsertAt(q, i, x) \in States[s]
    BY <2>1, <2>2, <2>3, <2>5 DEF States
  <2>7. QED BY <2>6 DEF x, i
<1>5. \A s \in SUBSET S : States[s] \subseteq Seq(S)
  OBVIOUS
<1>6. \A s \in SUBSET S : \A q \in Seq(S) : Step[s][q] = Put(choice[s], q)
  <2> HIDE DEF Put
  <2>1. QED OBVIOUS
<1> HIDE DEF Step, Put
<1>7. \A s \in SUBSET S : s # {} =>
          \A q \in States[s \ {choice[s]}] : Step[s][q] \in States[s]
  <2> HIDE DEF States
  <2> SUFFICES ASSUME NEW s \in SUBSET S, s # {}, NEW q \in States[s \ {choice[s]}]
               PROVE  Step[s][q] \in States[s]
    OBVIOUS
  <2>1. q \in Seq(S) /\ Put(choice[s], q) \in States[s]
    BY <1>2, <1>4, <1>5
  <2>2. QED BY <1>6, <2>1
<1> HIDE DEF States
<1>8. PICK g : /\ IsFold(g, S, choice, <<>>, Step)
               /\ \A s \in SUBSET S : g[s] \in States[s]
  BY <1>1, <1>3, <1>7, FoldsInto
<1>9. Puts(g)
  <2>1. g = [s \in SUBSET S |-> g[s]] /\ g[{}] = <<>>
    BY <1>8 DEF IsFold
  <2>2. ASSUME NEW s \in SUBSET S, s # {}
        PROVE  g[s] = Put(CHOOSE x \in s : TRUE, g[s \ {CHOOSE x \in s : TRUE}])
    <3>1. g[s] = Step[s][g[s \ {choice[s]}]]
      BY <1>8, <2>2 DEF IsFold
    <3>2. g[s \ {choice[s]}] \in Seq(S)
      BY <1>2, <1>5, <1>8, <2>2
    <3>3. g[s] = Put(choice[s], g[s \ {choice[s]}])
      BY <1>6, <3>1, <3>2
    <3>4. QED BY <1>2, <2>2, <3>3
  <2>3. QED BY <2>1, <2>2
<1>10. Puts(iter)
  <2> HIDE DEF Puts
  <2>1. QED BY <1>9
<1> HIDE DEF iter
<1>11. /\ iter[{}] = <<>>
       /\ \A s \in SUBSET S : s # {} => iter[s] = Put(choice[s], iter[s \ {choice[s]}])
  BY <1>2, <1>10
<1>12. \A s \in SUBSET S : s # {} /\ iter[s \ {choice[s]}] \in States[s \ {choice[s]}] =>
                               iter[s] \in States[s]
  BY <1>4, <1>11
<1>13. iter[{}] \in States[{}]
  BY <1>3, <1>11
<1>14. \A s \in SUBSET S : iter[s] \in States[s]
  BY <1>1, <1>12, <1>13, FoldStays
<1>15. Inserted(S, before) = iter[S]
  BY DEF Inserted, FoldSet, MapThenFoldSet, iter, Put
<1>16. QED BY <1>14, <1>15 DEF States

-----------------------------------------------------------------------------
(* The binary search.                                                      *)

(* The binary search: among any trials of which the last is too long, it   *)
(* ends at one that fails, or between one that fits, or none, and the      *)
(* next, which does not.                                                   *)
LEMMA BinaryPrefixFinds ==
    ASSUME NEW n \in Nat \ {0}, NEW trials, ~WithinBudget(trials[n]),
           BinaryPrefix(n, trials).error = "none"
    PROVE  /\ BinaryPrefix(n, trials).low \in 0 .. n - 1
           /\ BinaryPrefix(n, trials).low > 0 =>
                 WithinBudget(trials[BinaryPrefix(n, trials).low])
           /\ ~WithinBudget(trials[BinaryPrefix(n, trials).low + 1])
<1> DEFINE S == 1 .. n
           Failures == {"none"} \cup {trials[k].error : k \in 0 .. n}
           Ranges == [low : 0 .. n, high : 0 .. n, error : Failures]
           choice == [s \in SUBSET S |-> Max(s)]
           Half(range) ==
               LET middle == (range.low + range.high) \div 2
               IN  IF range.error # "none" \/ range.low + 1 >= range.high THEN range
                   ELSE Narrowed(range, middle, trials[middle])
           Start == [low |-> 0, high |-> n, error |-> "none"]
           Step == [s \in SUBSET S |-> [range \in Ranges |-> Half(range)]]
           Bracketed(r) ==
               /\ r.low < r.high
               /\ r.low > 0 => WithinBudget(trials[r.low])
               /\ ~WithinBudget(trials[r.high])
           States == [s \in SUBSET S |->
               {r \in Ranges : r.error = "none" =>
                    /\ Bracketed(r)
                    /\ r.low + 1 = r.high \/ r.high - r.low <= n - Cardinality(s)}]
           Halves(g) == g = [s \in SUBSET S |-> IF s = {} THEN Start
                                 ELSE Half(g[s \ {Max(s)}])]
           iter == CHOOSE g : Halves(g)
<1>1. IsFiniteSet(S) /\ Cardinality(S) = n
  BY FS_Interval
<1>2. Picks(choice, S) /\ \A s \in SUBSET S : choice[s] = Max(s)
  BY MaxIsMember DEF Picks
<1>3. \A s \in SUBSET S : s # {} => /\ s \ {choice[s]} \in SUBSET S
                                     /\ Cardinality(s) \in Nat
                                     /\ Cardinality(s \ {choice[s]}) = Cardinality(s) - 1
  <2> HIDE DEF S, choice
  <2>1. QED BY <1>1, <1>2, RestIsSmaller, SMTT(30)
<1> HIDE DEF choice
<1>4. Start \in States[{}]
  BY FS_EmptySet
<1>5. ASSUME NEW s \in SUBSET S, s # {}, NEW r \in States[s \ {choice[s]}]
      PROVE  Half(r) \in States[s]
  <2>1. /\ r \in Ranges
        /\ r.error = "none" =>
              /\ Bracketed(r)
              /\ r.low + 1 = r.high \/ r.high - r.low <= n - (Cardinality(s) - 1)
    BY <1>3, <1>5
  <2>2. CASE r.error # "none"
    BY <2>1, <2>2
  <2>3. CASE r.error = "none" /\ r.low + 1 >= r.high
    BY <2>1, <2>3
  <2>4. CASE r.error = "none" /\ ~(r.low + 1 >= r.high)
    <3> DEFINE middle == (r.low + r.high) \div 2
               trial == trials[middle]
    <3>1. middle \in 0 .. n /\ r.low < middle /\ middle < r.high
      BY <2>1, <2>4
    <3>2. Half(r) = Narrowed(r, middle, trial)
      BY <2>4
    <3>3. r.low \in 0 .. n /\ r.high \in 0 .. n /\ Cardinality(s) \in Nat
      BY <1>3, <1>5, <2>1
    <3>4. /\ r.low > 0 => WithinBudget(trials[r.low])
          /\ ~WithinBudget(trials[r.high])
          /\ r.high - r.low <= n - (Cardinality(s) - 1)
      BY <2>1, <2>4, <3>3
    <3>5. trial.error \in Failures
      BY <3>1
    <3> HIDE DEF Half, middle, Failures
    <3>6. CASE trial.error # "none"
      <4> DEFINE h == [r EXCEPT !.error = trial.error]
      <4>1. Half(r) = h
        BY <3>2, <3>6 DEF Narrowed
      <4>2. h \in Ranges /\ h.error # "none"
        BY <2>1, <3>5, <3>6
      <4> HIDE DEF h, Ranges
      <4>3. QED BY <4>1, <4>2
    <3>7. CASE trial.error = "none" /\ WithinBudget(trial)
      <4> DEFINE h == [r EXCEPT !.low = middle]
      <4>1. Half(r) = h
        BY <3>2, <3>7 DEF Narrowed
      <4>2. h \in Ranges /\ h.low = middle /\ h.high = r.high
        BY <2>1, <3>1
      <4> HIDE DEF h, Ranges
      <4>3. h.high - h.low <= n - Cardinality(s)
        BY <3>1, <3>3, <3>4, <4>2
      <4>4. Bracketed(h)
        BY <3>1, <3>4, <3>7, <4>2
      <4>5. h \in States[s]
        BY <4>2, <4>3, <4>4
      <4>6. QED BY <4>1, <4>5
    <3>8. CASE trial.error = "none" /\ ~WithinBudget(trial)
      <4> DEFINE h == [r EXCEPT !.high = middle]
      <4>1. Half(r) = h
        BY <3>2, <3>8 DEF Narrowed
      <4>2. h \in Ranges /\ h.high = middle /\ h.low = r.low
        BY <2>1, <3>1
      <4> HIDE DEF h, Ranges
      <4>3. h.high - h.low <= n - Cardinality(s)
        BY <3>1, <3>3, <3>4, <4>2
      <4>4. Bracketed(h)
        BY <3>1, <3>4, <3>8, <4>2
      <4>5. h \in States[s]
        BY <4>2, <4>3, <4>4
      <4>6. QED BY <4>1, <4>5
    <3>9. QED BY <3>6, <3>7, <3>8
  <2>5. QED BY <2>2, <2>3, <2>4
<1>6. \A s \in SUBSET S : States[s] \subseteq Ranges
  OBVIOUS
<1>7. \A s \in SUBSET S : \A r \in Ranges : Step[s][r] = Half(r)
  <2> HIDE DEF Half, Ranges
  <2>1. QED OBVIOUS
<1> HIDE DEF States, Step, Half, Start, Ranges
<1>8. \A s \in SUBSET S : s # {} =>
          \A r \in States[s \ {choice[s]}] : Step[s][r] \in States[s]
  <2> HIDE DEF S
  <2>1. QED BY <1>3, <1>5, <1>6, <1>7
<1>9. PICK g : /\ IsFold(g, S, choice, Start, Step)
               /\ \A s \in SUBSET S : g[s] \in States[s]
  <2> HIDE DEF S
  <2>1. QED BY <1>1, <1>2, <1>4, <1>8, FoldsInto
<1>10. Halves(g)
  <2> HIDE DEF S
  <2>1. g = [s \in SUBSET S |-> g[s]] /\ g[{}] = Start
    BY <1>9 DEF IsFold
  <2>2. \A s \in SUBSET S : s # {} => g[s] = Step[s][g[s \ {choice[s]}]]
    BY <1>9 DEF IsFold
  <2>3. \A s \in SUBSET S : s # {} => g[s \ {choice[s]}] \in Ranges
    BY <1>3, <1>6, <1>9
  <2>4. \A s \in SUBSET S : s # {} => g[s] = Half(g[s \ {Max(s)}])
    <3> SUFFICES ASSUME NEW s \in SUBSET S, s # {} PROVE g[s] = Half(g[s \ {Max(s)}])
      OBVIOUS
    <3>1. g[s \ {choice[s]}] \in Ranges /\ g[s] = Step[s][g[s \ {choice[s]}]]
      BY <2>2, <2>3
    <3>2. g[s] = Half(g[s \ {choice[s]}])
      BY <1>7, <3>1
    <3>3. QED BY <1>2, <3>2
  <2>5. QED BY <2>1, <2>4
<1>11. Halves(iter)
  <2> HIDE DEF Halves
  <2>1. QED BY <1>10
<1> HIDE DEF iter
<1>12. iter[{}] = Start /\ \A s \in SUBSET S : s # {} => iter[s] = Half(iter[s \ {choice[s]}])
  <2> HIDE DEF S
  <2>1. QED BY <1>2, <1>11
<1>13. \A s \in SUBSET S : iter[s] \in States[s]
  <2> HIDE DEF S
  <2>1. iter[{}] \in States[{}]
    BY <1>4, <1>12
  <2>2. \A s \in SUBSET S : s # {} /\ iter[s \ {choice[s]}] \in States[s \ {choice[s]}] =>
                                 iter[s] \in States[s]
    BY <1>5, <1>12
  <2>3. QED BY <1>1, <1>2, <2>1, <2>2, FoldStays
<1>14. BinaryPrefix(n, trials) = iter[S]
  BY DEF BinaryPrefix, FoldLeft, MapThenFoldSet, iter, Half, Start
<1>15. iter[S] \in States[S]
  <2> HIDE DEF S
  <2>1. QED BY <1>13
<1>16. QED
  <2> DEFINE r == iter[S]
  <2>1. /\ r \in Ranges /\ Bracketed(r)
        /\ r.low + 1 = r.high \/ r.high - r.low <= n - Cardinality(S)
    BY <1>14, <1>15 DEF States
  <2>2. r.low \in Nat /\ r.high \in 0 .. n
    BY <2>1 DEF Ranges
  <2> HIDE DEF r, S
  <2>3. r.low + 1 = r.high
    BY <1>1, <2>1, <2>2
  <2>4. QED BY <1>14, <2>1, <2>2, <2>3 DEF r

-----------------------------------------------------------------------------
(* Sequences and their values.                                             *)

(* A sequence has finitely many elements.                                  *)
LEMMA ElementsFinite ==
    ASSUME NEW X, NEW q \in Seq(X)
    PROVE  /\ IsFiniteSet(ToSet(q)) /\ ToSet(q) \in SUBSET X
           /\ IsFiniteSet(DOMAIN q)
           /\ q # <<>> => ToSet(q) # {}
<1>1. Len(q) \in Nat /\ DOMAIN q = 1 .. Len(q)
  OBVIOUS
<1>2. IsFiniteSet(1 .. Len(q))
  BY <1>1, FS_Interval
<1>3. q \in Surjection(DOMAIN q, ToSet(q))
  BY DEF Surjection, ToSet
<1>4. IsFiniteSet(ToSet(q))
  BY <1>1, <1>2, <1>3, FS_Surjection
<1>5. QED BY <1>1, <1>2, <1>4 DEF ToSet

(* The values of a function on a finite set are finitely many.             *)
LEMMA ValuesFinite ==
    ASSUME NEW f, IsFiniteSet(DOMAIN f)
    PROVE  IsFiniteSet({f[x] : x \in DOMAIN f})
<1> DEFINE T == {f[x] : x \in DOMAIN f}
           g == [x \in DOMAIN f |-> f[x]]
<1>1. g \in Surjection(DOMAIN f, T)
  BY DEF Surjection
<1> HIDE DEF g
<1>2. QED BY <1>1, FS_Surjection

(* The canonical order holds the candidates of the manifest.               *)
LEMMA FrozenAre ==
    ASSUME NEW X, NEW Y, NEW teaching \in Seq(X), NEW figures \in Seq(Y)
    PROVE  LET frozen == FreezeCandidates(teaching, figures)
           IN  /\ frozen.teaching \in Seq(ToSet(teaching))
               /\ frozen.figures \in Seq(ToSet(figures))
               /\ ToSet(frozen.teaching) = ToSet(teaching)
               /\ ToSet(frozen.figures) = ToSet(figures)
<1>1. IsFiniteSet(ToSet(teaching)) /\ IsFiniteSet(ToSet(figures))
  BY ElementsFinite
<1> DEFINE terms == Sorted(ToSet(teaching), TeachingBefore)
           notes == Sorted(ToSet(figures), FigureBefore)
<1>2. terms \in Seq(ToSet(teaching)) /\ ToSet(terms) = ToSet(teaching)
  BY <1>1, InsertedIs DEF Sorted
<1>3. notes \in Seq(ToSet(figures)) /\ ToSet(notes) = ToSet(figures)
  BY <1>1, InsertedIs DEF Sorted
<1>4. FreezeCandidates(teaching, figures) = [teaching |-> terms, figures |-> notes]
  BY DEF FreezeCandidates
<1> HIDE DEF terms, notes
<1>5. QED BY <1>2, <1>3, <1>4

(* The optional notes are a sequence.                                      *)
LEMMA OptionalIsSequence ==
    ASSUME NEW X, NEW Y, NEW frozen,
           frozen.teaching \in Seq(X), frozen.figures \in Seq(Y)
    PROVE  Len(Placements(frozen).optional) \in Nat
<1> DEFINE represented(i) == {frozen.figures[j].figure : j \in 1 .. i - 1}
           figure(i) == FigurePlacement(frozen.figures[i], frozen.figures[i].essential
                                            \/ frozen.figures[i].figure \notin represented(i))
           term(i) == TeachingPlacement(frozen.teaching[i], frozen.teaching[i].essential)
           readings == [i \in DOMAIN frozen.figures |-> figure(i)]
           terms == [i \in DOMAIN frozen.teaching |-> term(i)]
           all == {figure(i) : i \in DOMAIN frozen.figures}
                  \cup {term(i) : i \in DOMAIN frozen.teaching}
           core == {p \in all : p.essential}
           optionalTerms == {i \in DOMAIN frozen.teaching : ~frozen.teaching[i].essential}
           survivor == IF \E p \in core : p.kind = "dark-orange-teaching" THEN {}
                       ELSE IF optionalTerms = {} THEN {} ELSE {term(Min(optionalTerms))}
           before(a, b) ==
               \/ KindOrder[a.kind] < KindOrder[b.kind]
               \/ a.kind = b.kind /\ a.priority > b.priority
               \/ a.kind = b.kind /\ a.priority = b.priority /\ a.key < b.key
           rest == (all \ core) \ survivor
<1>1. IsFiniteSet(all)
  <2>1. IsFiniteSet(DOMAIN readings) /\ IsFiniteSet(DOMAIN terms)
    BY ElementsFinite
  <2>2. {readings[i] : i \in DOMAIN readings} = {figure(i) : i \in DOMAIN frozen.figures}
    <3> HIDE DEF figure
    <3>1. QED OBVIOUS
  <2>3. {terms[i] : i \in DOMAIN terms} = {term(i) : i \in DOMAIN frozen.teaching}
    <3> HIDE DEF term
    <3>1. QED OBVIOUS
  <2> HIDE DEF readings, terms, figure, term
  <2>4. QED BY <2>1, <2>2, <2>3, ValuesFinite, FS_Union
<1> HIDE DEF all
<1>2. IsFiniteSet(rest)
  <2> HIDE DEF core, survivor
  <2>1. QED BY <1>1, FS_Subset
<1> HIDE DEF rest
<1>3. Len(Sorted(rest, before)) \in Nat
  <2> HIDE DEF before
  <2>1. QED BY <1>2, InsertedIs DEF Sorted
<1>4. Placements(frozen).optional = Sorted(rest, before)
  BY DEF Placements, all, rest
<1>5. QED BY <1>3, <1>4

-----------------------------------------------------------------------------
(* The selection of the notes.                                             *)

(* The least of some numbers is one of them.                               *)
LEMMA MinIsMember ==
    ASSUME NEW T \in SUBSET Nat, T # {}
    PROVE  Min(T) \in T
BY LeastExists DEF Min

(* Where no first error is found, the search has not failed.               *)
LEMMA NoneFails ==
    ASSUME NEW first, NEW base, NEW full, NEW search, NEW final,
           FirstError(<<first, base, full, search, final>>) = "none"
    PROVE  search = "none"
<1> DEFINE errors == <<first, base, full, search, final>>
           failed == {i \in DOMAIN errors : errors[i] # "none"}
<1>1. failed \in SUBSET Nat
  OBVIOUS
<1>2. FirstError(errors) = IF failed = {} THEN "none" ELSE errors[Min(failed)]
  BY DEF FirstError
<1>3. failed # {} => errors[Min(failed)] # "none"
  <2>1. SUFFICES ASSUME failed # {} PROVE Min(failed) \in failed
    OBVIOUS
  <2> HIDE DEF failed
  <2>2. QED BY <1>1, <2>1, MinIsMember
<1>4. failed = {}
  <2> HIDE DEF failed, errors
  <2>1. FirstError(errors) = "none"
    BY DEF errors
  <2>2. QED BY <1>2, <1>3, <2>1
<1>5. 4 \in DOMAIN errors /\ errors[4] = search
  OBVIOUS
<1>6. QED BY <1>4, <1>5

(* If fewer notes never take more pages, no longer prefix of the optional  *)
(* notes would have stayed within the budget: however many there are.      *)
LEMMA SearchFinds ==
    ASSUME NEW paper, IsPaper(paper), SelectNotes(paper).error = "none",
           FewerNotesFit(SelectNotes(paper))
    PROVE  LongestPrefix(SelectNotes(paper))
<1> DEFINE m == paper.manifest
           frozen == FreezeCandidates(m.teaching, m.figures)
           placed == Placements(frozen)
           first == Probe(paper, placed.core)
           core == CoreWithin(placed.core, frozen, first)
           n == Len(placed.optional)
           trials == [k \in 0 .. n |-> Probe(paper, WithPrefix(core, placed.optional, k))]
           tried == n > 0 /\ WithinBudget(trials[0])
           searched == tried /\ ~WithinBudget(trials[n])
           search == BinaryPrefix(n, trials)
           kept == IF ~tried THEN 0 ELSE IF searched THEN search.low ELSE n
           selection == SelectNotes(paper)
<1>1. n \in Nat
  <2>1. m.teaching \in Seq(Terms) /\ m.figures \in Seq(FigureNotes)
    BY DEF IsPaper
  <2> HIDE DEF m
  <2>2. /\ frozen.teaching \in Seq(ToSet(m.teaching))
        /\ frozen.figures \in Seq(ToSet(m.figures))
    BY <2>1, FrozenAre, ZenonT(30)
  <2> HIDE DEF frozen
  <2>3. QED BY <2>2, OptionalIsSequence
<1>2. /\ selection.kept = kept /\ selection.optional = n
      /\ selection.trial = trials[kept] /\ selection.trials = trials
      /\ selection.error = FirstError(<<Verdict(first), Verdict(trials[0]),
                                        IF tried THEN trials[n].error ELSE "none",
                                        IF searched THEN search.error ELSE "none",
                                        Verdict(trials[kept])>>)
  BY ZenonT(30) DEF SelectNotes, Chosen
<1>3. searched => search.error = "none"
  <2> HIDE DEF first, trials, n, kept, searched, tried, search
  <2>1. (IF searched THEN search.error ELSE "none") = "none"
    BY <1>2, NoneFails
  <2>2. QED BY <2>1
<1> HIDE DEF n, placed, frozen, first, core, trials
<1>4. \A j, k \in 0 .. n :
          j <= k /\ WithinBudget(trials[k]) => WithinBudget(trials[j])
  <2> HIDE DEF kept
  <2>1. QED BY <1>2 DEF FewerNotesFit
<1>5. SUFFICES /\ kept \in 0 .. n
               /\ kept > 0 => WithinBudget(trials[kept])
               /\ kept < n => ~WithinBudget(trials[kept + 1])
  <2> HIDE DEF kept
  <2>1. SUFFICES ASSUME NEW k \in kept + 1 .. n, WithinBudget(trials[k])
                 PROVE  FALSE
    BY <1>2, <1>5 DEF LongestPrefix
  <2>2. k \in 0 .. n /\ kept + 1 \in 0 .. n /\ kept + 1 <= k /\ kept < n
    BY <1>1, <1>5
  <2>3. QED BY <1>4, <1>5, <2>1, <2>2
<1>6. CASE ~tried
  <2>1. kept = 0
    BY <1>6
  <2>2. n > 0 => 0 \in 0 .. n /\ 1 \in 0 .. n /\ 0 <= 1
    BY <1>1
  <2>3. n > 0 => ~WithinBudget(trials[1])
    BY <1>4, <1>6, <2>2
  <2> HIDE DEF kept, tried
  <2>4. QED BY <1>1, <2>1, <2>3
<1>7. CASE tried /\ ~searched
  <2>1. kept = n /\ WithinBudget(trials[n])
    BY <1>7
  <2> HIDE DEF kept, tried, searched
  <2>2. QED BY <1>1, <2>1
<1>8. CASE searched
  <2>1. kept = search.low /\ n \in Nat \ {0} /\ ~WithinBudget(trials[n])
    BY <1>1, <1>8
  <2>2. search.error = "none"
    BY <1>3, <1>8
  <2> HIDE DEF kept, tried, searched
  <2>3. /\ search.low \in 0 .. n - 1
        /\ search.low > 0 => WithinBudget(trials[search.low])
        /\ ~WithinBudget(trials[search.low + 1])
    BY <2>1, <2>2, BinaryPrefixFinds
  <2> HIDE DEF search
  <2>4. QED BY <1>1, <2>1, <2>3
<1>9. QED BY <1>6, <1>7, <1>8

(* An edition is made from the selected notes.                             *)
LEMMA EditionIsSelected ==
    ASSUME NEW paper, MakeEdition(paper).error = "none"
    PROVE  /\ MakeEdition(paper).selection = SelectNotes(paper)
           /\ SelectNotes(paper).error = "none"
<1> DEFINE final == Finalize(paper)
<1>1. final.error = "none" /\ MakeEdition(paper).selection = final.selection
  <2>1. final.error = "none"
    <3>1. SUFFICES ASSUME final.error # "none" PROVE FALSE
      OBVIOUS
    <3> HIDE DEF final
    <3>2. MakeEdition(paper) = final
      BY <3>1 DEF MakeEdition, final
    <3>3. QED BY <3>1, <3>2
  <2> HIDE DEF final
  <2>2. QED BY <2>1 DEF MakeEdition, final
<1>2. final.selection = SelectNotes(paper) /\ SelectNotes(paper).error = "none"
  BY <1>1 DEF Finalize
<1>3. QED BY <1>1, <1>2

(* So the longest prefix of the notes is in every edition.                 *)
LEMMA EditionIsLongest ==
    ASSUME NEW paper, IsPaper(paper), MakeEdition(paper).error = "none",
           FewerNotesFit(MakeEdition(paper).selection)
    PROVE  LongestPrefix(MakeEdition(paper).selection)
BY EditionIsSelected, SearchFinds

-----------------------------------------------------------------------------
(* A fold over the numbers from 1 to n, and its values.                    *)
IsUnfolding(g, n, base, Step) ==
    g = [s \in SUBSET (1 .. n) |-> IF s = {} THEN base ELSE Step[Max(s)][g[s \ {Max(s)}]]]

ValuesIn(g, n, X) == \A s \in SUBSET (1 .. n) : g[s] \in X

(* It is one as far as its values are known.                               *)
Unfolds(iter, n, X, base, Step) ==
    /\ iter[{}] = base
    /\ \A s \in SUBSET (1 .. n) : s # {} /\ iter[s \ {Max(s)}] \in X =>
           iter[s] = Step[Max(s)][iter[s \ {Max(s)}]]

(* What n steps lead to, one after the other.                              *)
IsHistory(h, n, X, base, Step) ==
    /\ h \in [0 .. n -> X]
    /\ h[0] = base
    /\ \A k \in 1 .. n : h[k] = Step[k][h[k - 1]]

(* A fold over the numbers from 1 to n has all its values among X, when    *)
(* the steps lead from X to X.                                             *)
LEMMA HistoryExists ==
    ASSUME NEW n \in Nat, NEW X, NEW base \in X, NEW Step \in [1 .. n -> [X -> X]]
    PROVE  \E g : IsUnfolding(g, n, base, Step) /\ ValuesIn(g, n, X)
<1> DEFINE S == 1 .. n
           choice == [s \in SUBSET S |-> Max(s)]
           States == [s \in SUBSET S |-> X]
           Steps0 == [s \in SUBSET S |-> Step[Max(s)]]
<1>1. IsFiniteSet(S)
  BY FS_Interval
<1>2. Picks(choice, S) /\ \A s \in SUBSET S : s # {} => Max(s) \in s
  BY MaxIsMember DEF Picks
<1>3. \A s \in SUBSET S : s # {} => \A a \in X : Step[Max(s)][a] \in X
  BY <1>2
<1>4. \A s \in SUBSET S : choice[s] = Max(s) /\ States[s] = X /\ Steps0[s] = Step[Max(s)]
  OBVIOUS
<1> HIDE DEF S, choice, States, Steps0
<1>5. \A s \in SUBSET S : s # {} =>
          \A a \in States[s \ {choice[s]}] : Steps0[s][a] \in States[s]
  BY <1>3, <1>4
<1>6. base \in States[{}]
  BY <1>4
<1>7. PICK g : /\ IsFold(g, S, choice, base, Steps0)
               /\ \A s \in SUBSET S : g[s] \in States[s]
  BY <1>1, <1>2, <1>5, <1>6, FoldsInto
<1>8. g = [s \in SUBSET S |-> IF s = {} THEN base ELSE Step[Max(s)][g[s \ {Max(s)}]]]
  BY <1>4, <1>7 DEF IsFold
<1>9. \A s \in SUBSET S : g[s] \in X
  BY <1>4, <1>7
<1>10. QED BY <1>8, <1>9 DEF S, IsUnfolding, ValuesIn

(* What such a fold computes is the end of a history of n steps.           *)
LEMMA HistoryOf ==
    ASSUME NEW n \in Nat, NEW X, NEW base \in X, NEW Step \in [1 .. n -> [X -> X]],
           NEW iter, Unfolds(iter, n, X, base, Step)
    PROVE  \E h : IsHistory(h, n, X, base, Step) /\ h[n] = iter[1 .. n]
<1> DEFINE h == [k \in 0 .. n |-> iter[1 .. k]]
           K == {k \in Nat : k <= n => iter[1 .. k] \in X}
<1> USE DEF Unfolds
<1>1. \A k \in 1 .. n : /\ 1 .. k \in SUBSET (1 .. n) /\ 1 .. k # {}
                        /\ Max(1 .. k) = k /\ (1 .. k) \ {k} = 1 .. k - 1
  <2> SUFFICES ASSUME NEW k \in 1 .. n PROVE Max(1 .. k) = k
    OBVIOUS
  <2>1. Max(1 .. k) \in 1 .. k /\ \A y \in 1 .. k : y <= Max(1 .. k)
    <3>1. k \in Nat /\ 1 \in 1 .. k
      OBVIOUS
    <3>2. QED BY <3>1, MaxIsMember
  <2>2. QED BY <2>1
<1>2. \A k \in 1 .. n : iter[1 .. k - 1] \in X => iter[1 .. k] = Step[k][iter[1 .. k - 1]]
  BY <1>1
<1>3. 1 .. 0 = {}
  OBVIOUS
<1>4. K = Nat
  <2>1. 0 \in K
    BY <1>3
  <2>2. ASSUME NEW k \in K PROVE k + 1 \in K
    <3>1. SUFFICES ASSUME k + 1 <= n PROVE iter[1 .. k + 1] \in X
      OBVIOUS
    <3>2. k + 1 \in 1 .. n /\ (k + 1) - 1 = k
      BY <3>1
    <3>3. iter[1 .. k] \in X
      BY <3>2
    <3>4. QED BY <1>2, <3>2, <3>3
  <2>3. K \in SUBSET Nat
    OBVIOUS
  <2> HIDE DEF K
  <2>4. QED BY <2>1, <2>2, <2>3, NumbersInduct
<1>5. \A k \in 0 .. n : iter[1 .. k] \in X
  BY <1>4
<1>6. h \in [0 .. n -> X]
  BY <1>5
<1>7. h[0] = base /\ h[n] = iter[1 .. n]
  BY <1>3
<1>8. \A k \in 1 .. n : h[k] = Step[k][h[k - 1]]
  BY <1>2, <1>5
<1>9. QED BY <1>6, <1>7, <1>8 DEF IsHistory

(* What holds at the start and is kept by each of n steps holds to the end. *)
LEMMA StepsKeep ==
    ASSUME NEW n \in Nat, NEW Good, Good[0], \A k \in 1 .. n : Good[k - 1] => Good[k]
    PROVE  \A k \in 0 .. n : Good[k]
<1> DEFINE K == {k \in Nat : k <= n => Good[k]}
<1>1. 0 \in K
  OBVIOUS
<1>2. ASSUME NEW k \in K PROVE k + 1 \in K
  <2>1. SUFFICES ASSUME k + 1 <= n PROVE Good[k + 1]
    OBVIOUS
  <2>2. k + 1 \in 1 .. n /\ (k + 1) - 1 = k
    BY <2>1
  <2>3. Good[k]
    BY <2>2
  <2>4. QED BY <2>2, <2>3
<1>3. K \in SUBSET Nat
  OBVIOUS
<1>4. K = Nat
  <2> HIDE DEF K
  <2>1. QED BY <1>1, <1>2, <1>3, NumbersInduct
<1>5. QED BY <1>4

(* Finitely many numbers, taken apart one at a time, have a greatest one.  *)
LEMMA GreatestByRest ==
    ASSUME NEW T, IsFiniteSet(T), \A x \in T : x \in Nat, NEW choice, Picks(choice, T)
    PROVE  \A s \in SUBSET T : s # {} => \E m \in s : \A y \in s : y <= m
<1> DEFINE Good == {s \in SUBSET T : s # {} => \E m \in s : \A y \in s : y <= m}
<1>1. \A s \in SUBSET T : s # {} => choice[s] \in s
  BY DEF Picks
<1>2. ASSUME NEW s \in SUBSET T, s # {}, s \ {choice[s]} \in Good PROVE s \in Good
  <2> DEFINE x == choice[s]
             rest == s \ {choice[s]}
  <2>1. x \in s /\ x \in Nat
    BY <1>1, <1>2
  <2>2. CASE rest = {}
    <3>1. s = {x}
      BY <2>1, <2>2
    <3>2. \A y \in s : y <= x
      BY <2>1, <3>1
    <3>3. QED BY <2>1, <3>2
  <2>3. CASE rest # {}
    <3>1. PICK m \in rest : \A y \in rest : y <= m
      BY <1>2, <2>3
    <3>2. m \in Nat /\ m \in s
      OBVIOUS
    <3>3. CASE x <= m
      BY <2>1, <3>1, <3>2, <3>3
    <3>4. CASE ~(x <= m)
      <4>1. \A y \in s : y <= x
        BY <2>1, <3>1, <3>2, <3>4
      <4>2. QED BY <2>1, <4>1
    <3>5. QED BY <3>3, <3>4
  <2>4. QED BY <2>2, <2>3
<1>3. Good \in SUBSET SUBSET T /\ {} \in Good
  OBVIOUS
<1>4. \A s \in SUBSET T : s # {} /\ s \ {choice[s]} \in Good => s \in Good
  BY <1>2
<1>5. Good = SUBSET T
  <2> HIDE DEF Good
  <2>1. QED BY <1>3, <1>4, SubsetsInduct
<1>6. QED BY <1>5

(* Finitely many numbers have a greatest one.                              *)
LEMMA FiniteMax ==
    ASSUME NEW T \in SUBSET Nat, IsFiniteSet(T), T # {}
    PROVE  Max(T) \in T /\ \A y \in T : y <= Max(T)
<1> DEFINE choice == [s \in SUBSET T |-> CHOOSE x \in s : TRUE]
<1>1. Picks(choice, T)
  BY DEF Picks
<1> HIDE DEF choice
<1>2. PICK m \in T : \A y \in T : y <= m
  BY <1>1, GreatestByRest
<1>3. Max(T) \in T /\ \A y \in T : Max(T) >= y
  BY <1>2 DEF Max
<1>4. QED BY <1>3

(* What a layout can end with, its lines, and how far it has come.         *)
LayoutErrors == {"none", "LayoutComplexityError", "LayoutInfeasibleError"}

PlacedLines == [flow : Nat, line : Nat, page : Nat, column : {0, 1}, columns : {1, 2},
                top : Nat, height : Nat]
Layouts == [pages : Nat, column : {0, 1}, top : Nat, start : Nat, columns : {1, 2},
            placed : Seq(PlacedLines), error : LayoutErrors]

(* What is below the lines of a page is a finite set of numbers.           *)
Bottoms(placed, page) == {l.top + l.height : l \in {p \in ToSet(placed) : p.page = page}}

(* They are numbers, finitely many, one for every line of the page.        *)
LEMMA BottomsAre ==
    ASSUME NEW placed \in Seq(PlacedLines), NEW page
    PROVE  /\ IsFiniteSet(Bottoms(placed, page))
           /\ Bottoms(placed, page) \in SUBSET Nat
           /\ \A i \in DOMAIN placed : placed[i].page = page =>
                 placed[i].top + placed[i].height \in Bottoms(placed, page)
           /\ \A b \in Bottoms(placed, page) : \E i \in DOMAIN placed :
                 placed[i].page = page /\ b = placed[i].top + placed[i].height
<1> DEFINE T == {p \in ToSet(placed) : p.page = page}
           f == [l \in T |-> l.top + l.height]
<1>1. IsFiniteSet(ToSet(placed)) /\ ToSet(placed) \in SUBSET PlacedLines
  BY ElementsFinite
<1>2. IsFiniteSet(DOMAIN f)
  <2>1. IsFiniteSet(T)
    BY <1>1, FS_Subset
  <2> HIDE DEF T
  <2>2. QED BY <2>1
<1>3. Bottoms(placed, page) = {f[l] : l \in DOMAIN f}
  BY DEF Bottoms
<1>4. IsFiniteSet(Bottoms(placed, page))
  <2> HIDE DEF f
  <2>1. QED BY <1>2, <1>3, ValuesFinite
<1>5. \A l \in PlacedLines : l.top + l.height \in Nat
  BY DEF PlacedLines
<1>6. Bottoms(placed, page) \in SUBSET Nat
  BY <1>1, <1>5 DEF Bottoms
<1>7. QED BY <1>4, <1>6 DEF Bottoms, ToSet

(* A new page keeps the form of a layout.                                  *)
LEMMA NewPageType ==
    ASSUME NEW s \in Layouts
    PROVE  NewPage(s) \in Layouts
<1> DEFINE next == s.pages + 1
<1>1. next \in Nat /\ Margin \in Nat /\ "LayoutComplexityError" \in LayoutErrors
  BY PaginationAssumption DEF Layouts, LayoutErrors
<1> HIDE DEF next
<1>2. [s EXCEPT !.pages = next, !.column = 0, !.top = Margin, !.start = Margin] \in Layouts
  BY <1>1 DEF Layouts
<1>3. [s EXCEPT !.error = "LayoutComplexityError"] \in Layouts
  BY <1>1 DEF Layouts
<1>4. QED BY <1>2, <1>3 DEF NewPage, next

(* So does the next column.                                                *)
LEMMA NextColumnType ==
    ASSUME NEW s \in Layouts
    PROVE  NextColumn(s) \in Layouts
<1>1. NewPage(s) \in Layouts
  BY NewPageType
<1>2. [s EXCEPT !.column = 1, !.top = s.start] \in Layouts
  BY DEF Layouts
<1>3. QED BY <1>1, <1>2 DEF NextColumn

(* The highest place below everything on the page.                         *)
Below(s) == Max({s.top} \cup Bottoms(s.placed, s.pages))

(* It is at or below every line of the page.                               *)
LEMMA BelowIs ==
    ASSUME NEW s \in Layouts
    PROVE  /\ Below(s) \in Nat /\ s.top <= Below(s)
           /\ \A i \in DOMAIN s.placed : s.placed[i].page = s.pages =>
                 s.placed[i].top + s.placed[i].height <= Below(s)
<1>1. s.placed \in Seq(PlacedLines) /\ s.top \in Nat
  BY DEF Layouts
<1>2. /\ IsFiniteSet(Bottoms(s.placed, s.pages)) /\ Bottoms(s.placed, s.pages) \in SUBSET Nat
      /\ \A i \in DOMAIN s.placed : s.placed[i].page = s.pages =>
            s.placed[i].top + s.placed[i].height \in Bottoms(s.placed, s.pages)
  BY <1>1, BottomsAre
<1> DEFINE T == {s.top} \cup Bottoms(s.placed, s.pages)
<1>3. T \in SUBSET Nat /\ IsFiniteSet(T) /\ s.top \in T
  BY <1>1, <1>2, FS_Singleton, FS_Union
<1>4. Max(T) \in T /\ \A y \in T : y <= Max(T)
  <2> HIDE DEF T
  <2>1. QED BY <1>3, FiniteMax
<1>5. QED BY <1>2, <1>3, <1>4 DEF Below

(* The gap before a flow.                                                  *)
GapBefore(graph, f) == IF f > 1 /\ graph.flows[f - 1].unit # graph.flows[f].unit
                       THEN BlockGap ELSE 0

(* A flow that begins places nothing, and stays in its column or goes below *)
(* all columns.                                                            *)
LEMMA BeginFlowDoes ==
    ASSUME NEW s \in Layouts, NEW graph, NEW f
    PROVE  LET n == BeginFlow(s, graph, f)
               gap == GapBefore(graph, f)
               columns == graph.flows[f].columns
           IN  /\ n.placed = s.placed /\ n.pages = s.pages /\ n.error = s.error
               /\ n.columns = columns
               /\ columns # s.columns =>
                     n.column = 0 /\ n.top = Below(s) + gap /\ n.start = Below(s) + gap
               /\ columns = s.columns =>
                     n.column = s.column /\ n.top = s.top + gap /\ n.start = s.start
<1> DEFINE n == BeginFlow(s, graph, f)
           gap == GapBefore(graph, f)
           columns == graph.flows[f].columns
           below == Below(s) + gap
           next == s.top + gap
<1>1. /\ columns # s.columns =>
             n = [s EXCEPT !.columns = columns, !.column = 0, !.top = below, !.start = below]
      /\ columns = s.columns => n = [s EXCEPT !.top = next]
  BY DEF BeginFlow, Below, Bottoms, GapBefore
<1> HIDE DEF n, gap, columns, below, next
<1>2. CASE columns # s.columns
  <2>1. n = [s EXCEPT !.columns = columns, !.column = 0, !.top = below, !.start = below]
    BY <1>1, <1>2
  <2>2. /\ n.placed = s.placed /\ n.pages = s.pages /\ n.error = s.error
        /\ n.columns = columns /\ n.column = 0 /\ n.top = below /\ n.start = below
    BY <2>1 DEF Layouts
  <2>3. QED BY <1>2, <2>2 DEF n, gap, columns, below
<1>3. CASE columns = s.columns
  <2>1. n = [s EXCEPT !.top = next]
    BY <1>1, <1>3
  <2>2. /\ n.placed = s.placed /\ n.pages = s.pages /\ n.error = s.error
        /\ n.columns = s.columns /\ n.column = s.column /\ n.top = next /\ n.start = s.start
    BY <2>1 DEF Layouts
  <2>3. QED BY <1>3, <2>2 DEF n, gap, columns, next
<1>4. QED BY <1>2, <1>3

(* A flow of a graph has a number, columns, lines with a height, and a     *)
(* gap before it.                                                          *)
LEMMA FlowsAre ==
    ASSUME NEW graph, IsGraph(graph), NEW f \in DOMAIN graph.flows
    PROVE  /\ f \in Nat /\ graph.flows[f].columns \in {1, 2}
           /\ graph.flows[f].heights \in Seq(Nat \ {0})
           /\ graph.flows[f].heights # <<>>
           /\ GapBefore(graph, f) \in Nat
           /\ graph.warning \in Nat \ {0} /\ graph.sources \in Nat \ {0}
<1>1. graph.flows \in Seq(LayoutFlows)
  BY DEF IsGraph
<1>2. graph.flows[f] \in LayoutFlows /\ f \in Nat
  BY <1>1
<1>3. graph.flows[f].columns \in {1, 2} /\ graph.flows[f].heights \in Seq(Nat \ {0})
  BY <1>2 DEF LayoutFlows
<1>4. QED BY <1>2, <1>3, PaginationAssumption DEF IsGraph, GapBefore

(* A flow that begins keeps the form of a layout.                          *)
LEMMA BeginFlowType ==
    ASSUME NEW s \in Layouts, NEW graph, IsGraph(graph), NEW f \in DOMAIN graph.flows
    PROVE  BeginFlow(s, graph, f) \in Layouts
<1> DEFINE n == BeginFlow(s, graph, f)
           columns == graph.flows[f].columns
           below == Below(s) + GapBefore(graph, f)
           next == s.top + GapBefore(graph, f)
<1>1. below \in Nat /\ next \in Nat /\ columns \in {1, 2}
  <2>1. Below(s) \in Nat /\ GapBefore(graph, f) \in Nat /\ graph.flows[f].columns \in {1, 2}
    BY BelowIs, FlowsAre
  <2>2. QED BY <2>1 DEF Layouts
<1>2. /\ columns # s.columns =>
             n = [s EXCEPT !.columns = columns, !.column = 0, !.top = below, !.start = below]
      /\ columns = s.columns => n = [s EXCEPT !.top = next]
  BY DEF BeginFlow, Below, Bottoms, GapBefore
<1> HIDE DEF n, columns, below, next
<1>3. [s EXCEPT !.columns = columns, !.column = 0, !.top = below, !.start = below] \in Layouts
  BY <1>1 DEF Layouts
<1>4. [s EXCEPT !.top = next] \in Layouts
  BY <1>1 DEF Layouts
<1>5. n \in Layouts
  BY <1>2, <1>3, <1>4
<1>6. QED BY <1>5 DEF n

(* Where line k of flow f goes: here or to one of the next two columns.    *)
Moved(s, graph, f, k, w) == IF MustMove(s, graph, f, k, w) THEN NextColumn(s) ELSE s
Settled(s, graph, f, k, w) == Moved(Moved(s, graph, f, k, w), graph, f, k, w)

(* The line that is placed there.                                          *)
LineAt(m, graph, f, k) ==
    [flow |-> f, line |-> k, page |-> m.pages, column |-> m.column,
     columns |-> graph.flows[f].columns, top |-> m.top,
     height |-> graph.flows[f].heights[k]]

(* A line is placed where it goes, or there is an error.                   *)
LEMMA PlaceLineIs ==
    ASSUME NEW s, NEW graph, NEW f, NEW k, NEW w
    PROVE  LET m == Settled(s, graph, f, k, w)
               height == graph.flows[f].heights[k]
           IN  PlaceLine(s, graph, f, k, w) =
                   IF m.error # "none" THEN m
                   ELSE IF m.top + height <= Bottom(graph, m.pages, w)
                   THEN [m EXCEPT !.placed = Append(m.placed, LineAt(m, graph, f, k)),
                                  !.top = m.top + height]
                   ELSE [m EXCEPT !.error = "LayoutInfeasibleError"]
BY DEF PlaceLine, Settled, Moved, LineAt

(* One move keeps the form of a layout.                                    *)
LEMMA MovedType ==
    ASSUME NEW s \in Layouts, NEW graph, NEW f, NEW k, NEW w
    PROVE  Moved(s, graph, f, k, w) \in Layouts
BY NextColumnType DEF Moved

(* So do two.                                                              *)
LEMMA SettledType ==
    ASSUME NEW s \in Layouts, NEW graph, NEW f, NEW k, NEW w
    PROVE  Settled(s, graph, f, k, w) \in Layouts
BY MovedType DEF Settled

(* Placing a line keeps the form of a layout.                              *)
LEMMA PlaceLineType ==
    ASSUME NEW s \in Layouts, NEW graph, IsGraph(graph), NEW f \in DOMAIN graph.flows,
           NEW k \in DOMAIN graph.flows[f].heights, NEW w
    PROVE  PlaceLine(s, graph, f, k, w) \in Layouts
<1> DEFINE m == Settled(s, graph, f, k, w)
           line == LineAt(m, graph, f, k)
           height == graph.flows[f].heights[k]
<1>1. m \in Layouts
  BY SettledType
<1> HIDE DEF m
<1>2. height \in Nat /\ graph.flows[f].columns \in {1, 2} /\ f \in Nat /\ k \in Nat
  BY FlowsAre
<1>3. line \in PlacedLines
  BY <1>1, <1>2 DEF LineAt, PlacedLines, Layouts
<1> HIDE DEF line, height
<1>4. Append(m.placed, line) \in Seq(PlacedLines) /\ m.top + height \in Nat
  BY <1>1, <1>2, <1>3 DEF Layouts
<1>5. [m EXCEPT !.placed = Append(m.placed, line), !.top = m.top + height] \in Layouts
  BY <1>1, <1>4 DEF Layouts
<1>6. [m EXCEPT !.error = "LayoutInfeasibleError"] \in Layouts
  BY <1>1 DEF Layouts, LayoutErrors
<1>7. QED BY <1>1, <1>5, <1>6, PlaceLineIs DEF m, line, height

(* A line that comes before another: on an earlier page, above it, or in   *)
(* the column at its left.                                                 *)
Before(a, b) ==
    \/ a.page < b.page
    \/ a.page = b.page /\ a.top + a.height <= b.top
    \/ a.page = b.page /\ a.columns = 2 /\ b.columns = 2 /\ a.column < b.column

(* A line that is behind the place where the next one would go, and behind *)
(* the top of the column that is next.                                     *)
Behind(s, l) ==
    \/ l.page < s.pages
    \/ l.page = s.pages /\ l.top + l.height <= s.start
    \/ /\ l.page = s.pages /\ l.columns = s.columns
       /\ \/ l.column < s.column
          \/ l.column = s.column /\ l.top + l.height <= s.top

(* A line within its column.                                               *)
InColumn(l, graph, w) ==
    /\ l \in PlacedLines
    /\ 0 < l.height
    /\ l.columns = 1 => l.column = 0
    /\ Margin <= l.top
    /\ l.top + l.height <= Bottom(graph, l.page, w)

(* What is placed so far is sound, and so is the place of the next line.   *)
Standing(s, graph, w) ==
    /\ s \in Layouts
    /\ s.pages # 0 /\ Margin <= s.start /\ s.start <= s.top
    /\ s.columns = 1 => s.column = 0
    /\ \A i \in DOMAIN s.placed : Behind(s, s.placed[i]) /\ InColumn(s.placed[i], graph, w)
    /\ \A i, j \in DOMAIN s.placed : i < j => Before(s.placed[i], s.placed[j])

(* The fields of a layout.                                                 *)
LEMMA LayoutFields ==
    ASSUME NEW s \in Layouts
    PROVE  /\ s.pages \in Nat /\ s.column \in {0, 1} /\ s.top \in Nat /\ s.start \in Nat
           /\ s.columns \in {1, 2} /\ s.placed \in Seq(PlacedLines) /\ s.error \in LayoutErrors
           /\ \A i \in DOMAIN s.placed : s.placed[i] \in PlacedLines
BY DEF Layouts

(* The fields of a placed line.                                            *)
LEMMA LineFields ==
    ASSUME NEW l \in PlacedLines
    PROVE  /\ l.page \in Nat /\ l.column \in {0, 1} /\ l.columns \in {1, 2}
           /\ l.top \in Nat /\ l.height \in Nat /\ l.flow \in Nat /\ l.line \in Nat
BY DEF PlacedLines

(* Moving on changes the place of the next line, and nothing else.         *)
LEMMA NewPageIs ==
    ASSUME NEW s \in Layouts
    PROVE  LET n == NewPage(s)
           IN  /\ n.placed = s.placed /\ n.columns = s.columns
               /\ \/ /\ n.error = "LayoutComplexityError" /\ n.pages = s.pages
                     /\ n.column = s.column /\ n.top = s.top /\ n.start = s.start
                     /\ s.pages >= MaxPages
                  \/ /\ n.error = s.error /\ n.pages = s.pages + 1
                     /\ n.column = 0 /\ n.top = Margin /\ n.start = Margin
BY DEF NewPage, Layouts

(* What was placed is behind the top of a new page.                        *)
LEMMA NewPageStands ==
    ASSUME NEW s, NEW graph, NEW w, Standing(s, graph, w)
    PROVE  Standing(NewPage(s), graph, w)
<1> DEFINE n == NewPage(s)
<1>1. s \in Layouts /\ n \in Layouts
  BY NewPageType DEF Standing
<1>2. /\ n.placed = s.placed /\ n.columns = s.columns
      /\ \/ /\ n.pages = s.pages
            /\ n.column = s.column /\ n.top = s.top /\ n.start = s.start
         \/ /\ n.pages = s.pages + 1
            /\ n.column = 0 /\ n.top = Margin /\ n.start = Margin
  BY <1>1, NewPageIs
<1> HIDE DEF n
<1>3. n.pages # 0 /\ Margin <= n.start /\ n.start <= n.top /\ (n.columns = 1 => n.column = 0)
  BY <1>1, <1>2, LayoutFields, PaginationAssumption DEF Standing
<1>4. ASSUME NEW i \in DOMAIN n.placed
      PROVE  Behind(n, n.placed[i])
  <2>1. Behind(s, s.placed[i]) /\ s.placed[i] \in PlacedLines
    BY <1>1, <1>2, LayoutFields DEF Standing
  <2>2. s.placed[i].page \in Nat /\ s.pages \in Nat
    BY <1>1, <2>1, LayoutFields, LineFields
  <2>3. QED BY <1>2, <2>1, <2>2 DEF Behind
<1>5. QED BY <1>1, <1>2, <1>3, <1>4 DEF Standing, n

(* The next column is on the page, or on the next one, or there is no      *)
(* page left.                                                              *)
LEMMA NextColumnIs ==
    ASSUME NEW s \in Layouts
    PROVE  LET n == NextColumn(s)
           IN  /\ n.placed = s.placed /\ n.columns = s.columns
               /\ \/ /\ n.error = "LayoutComplexityError" /\ n.pages = s.pages
                     /\ n.column = s.column /\ n.top = s.top /\ n.start = s.start
                  \/ /\ n.error = s.error /\ n.pages = s.pages + 1
                     /\ n.column = 0 /\ n.top = Margin /\ n.start = Margin
                  \/ /\ n.error = s.error /\ n.pages = s.pages /\ s.columns = 2 /\ s.column = 0
                     /\ n.column = 1 /\ n.top = s.start /\ n.start = s.start
<1>1. CASE s.columns = 2 /\ s.column = 0
  BY <1>1 DEF NextColumn, Layouts
<1>2. CASE ~(s.columns = 2 /\ s.column = 0)
  BY <1>2, NewPageIs DEF NextColumn
<1>3. QED BY <1>1, <1>2

(* What was placed is behind the top of the next column.                   *)
LEMMA NextColumnStands ==
    ASSUME NEW s, NEW graph, NEW w, Standing(s, graph, w)
    PROVE  Standing(NextColumn(s), graph, w)
<1>1. CASE ~(s.columns = 2 /\ s.column = 0)
  BY <1>1, NewPageStands DEF NextColumn
<1>2. CASE s.columns = 2 /\ s.column = 0
  <2> DEFINE n == NextColumn(s)
  <2>1. s \in Layouts /\ n \in Layouts
    BY NextColumnType DEF Standing
  <2>2. /\ n.placed = s.placed /\ n.columns = s.columns /\ n.pages = s.pages
        /\ n.column = 1 /\ n.top = s.start /\ n.start = s.start
    BY <1>2, <2>1 DEF NextColumn, Layouts
  <2> HIDE DEF n
  <2>3. n.pages # 0 /\ Margin <= n.start /\ n.start <= n.top /\ (n.columns = 1 => n.column = 0)
    BY <1>2, <2>1, <2>2, LayoutFields, PaginationAssumption DEF Standing
  <2>4. ASSUME NEW i \in DOMAIN n.placed
        PROVE  Behind(n, n.placed[i])
    <3>1. Behind(s, s.placed[i]) /\ s.placed[i] \in PlacedLines
      BY <2>1, <2>2, LayoutFields DEF Standing
    <3> DEFINE l == s.placed[i]
    <3>2. l.column \in {0, 1} /\ l.page \in Nat /\ s.pages \in Nat
      BY <2>1, <3>1, LayoutFields, LineFields
    <3> HIDE DEF l
    <3>3. Behind(s, l)
      BY <3>1 DEF l
    <3>4. Behind(n, l)
      BY <1>2, <2>2, <3>2, <3>3 DEF Behind
    <3>5. QED BY <2>2, <3>4 DEF l
  <2>5. QED BY <2>1, <2>2, <2>3, <2>4 DEF Standing, n
<1>3. QED BY <1>1, <1>2

(* Two moves leave what was placed behind.                                 *)
LEMMA SettledStands ==
    ASSUME NEW s, NEW graph, NEW f, NEW k, NEW w, Standing(s, graph, w)
    PROVE  Standing(Settled(s, graph, f, k, w), graph, w)
<1>1. ASSUME NEW x, Standing(x, graph, w)
      PROVE  Standing(Moved(x, graph, f, k, w), graph, w)
  BY <1>1, NextColumnStands DEF Moved
<1>2. QED BY <1>1 DEF Settled

(* Where a flow begins is behind all that is placed.                       *)
LEMMA BeginFlowStands ==
    ASSUME NEW s, NEW graph, NEW f, NEW w, Standing(s, graph, w), IsGraph(graph),
           f \in DOMAIN graph.flows
    PROVE  /\ Standing(BeginFlow(s, graph, f), graph, w)
           /\ BeginFlow(s, graph, f).columns = graph.flows[f].columns
<1> DEFINE n == BeginFlow(s, graph, f)
           gap == GapBefore(graph, f)
<1>1. s \in Layouts /\ n \in Layouts
  BY BeginFlowType DEF Standing
<1>2. /\ Below(s) \in Nat /\ s.top <= Below(s) /\ gap \in Nat
      /\ graph.flows[f].columns \in {1, 2}
      /\ \A i \in DOMAIN s.placed : s.placed[i].page = s.pages =>
             s.placed[i].top + s.placed[i].height <= Below(s)
  BY <1>1, BelowIs, FlowsAre
<1>3. /\ n.placed = s.placed /\ n.pages = s.pages
      /\ \/ /\ n.columns = graph.flows[f].columns /\ n.column = 0
            /\ n.top = Below(s) + gap /\ n.start = Below(s) + gap
         \/ /\ n.columns = s.columns /\ n.columns = graph.flows[f].columns
            /\ n.column = s.column
            /\ n.top = s.top + gap /\ n.start = s.start
  BY <1>1, <1>2, BeginFlowDoes
<1> HIDE DEF n, gap
<1>4. n.pages # 0 /\ Margin <= n.start /\ n.start <= n.top /\ (n.columns = 1 => n.column = 0)
  BY <1>1, <1>2, <1>3, LayoutFields, PaginationAssumption DEF Standing
<1>5. ASSUME NEW i \in DOMAIN n.placed
      PROVE  Behind(n, n.placed[i])
  <2>1. Behind(s, s.placed[i]) /\ s.placed[i] \in PlacedLines
    BY <1>1, <1>3, LayoutFields DEF Standing
  <2> DEFINE l == s.placed[i]
  <2>2. /\ l.column \in {0, 1} /\ l.page \in Nat /\ l.top + l.height \in Nat
        /\ s.pages \in Nat /\ s.top \in Nat /\ s.start \in Nat
        /\ l.page = s.pages => l.top + l.height <= Below(s)
    BY <1>1, <1>2, <1>3, <2>1, LayoutFields, LineFields, SMTT(30)
  <2> HIDE DEF l
  <2>3. Behind(s, l)
    BY <2>1 DEF l
  <2>4. Behind(n, l)
    BY <1>2, <1>3, <2>2, <2>3 DEF Behind
  <2>5. QED BY <1>3, <2>4 DEF l
<1>6. QED BY <1>1, <1>3, <1>4, <1>5 DEF Standing, n

(* Two moves and nothing else.                                             *)
LEMMA SettledIs ==
    ASSUME NEW s \in Layouts, NEW graph, NEW f, NEW k, NEW w
    PROVE  LET m == Settled(s, graph, f, k, w)
           IN  /\ m \in Layouts
               /\ m.placed = s.placed /\ m.columns = s.columns /\ s.pages <= m.pages
<1>1. ASSUME NEW x \in Layouts
      PROVE  LET m == Moved(x, graph, f, k, w)
             IN  /\ m \in Layouts
                 /\ m.placed = x.placed /\ m.columns = x.columns /\ x.pages <= m.pages
  <2>1. NextColumn(x) \in Layouts /\ x.pages \in Nat
    BY NextColumnType, LayoutFields
  <2>2. /\ NextColumn(x).placed = x.placed /\ NextColumn(x).columns = x.columns
        /\ x.pages <= NextColumn(x).pages
    BY <2>1, NextColumnIs
  <2>3. QED BY <2>1, <2>2 DEF Moved
<1> DEFINE a == Moved(s, graph, f, k, w)
           b == Moved(a, graph, f, k, w)
<1>2. a \in Layouts /\ a.placed = s.placed /\ a.columns = s.columns /\ s.pages <= a.pages
  BY <1>1
<1>3. b \in Layouts /\ b.placed = a.placed /\ b.columns = a.columns /\ a.pages <= b.pages
  <2> HIDE DEF a
  <2>1. QED BY <1>1, <1>2
<1>4. s.pages \in Nat /\ a.pages \in Nat /\ b.pages \in Nat
  BY <1>2, <1>3, LayoutFields
<1>5. b = Settled(s, graph, f, k, w)
  BY DEF Settled
<1> HIDE DEF a, b
<1>6. QED BY <1>2, <1>3, <1>4, <1>5

(* What placing a line does.                                               *)
LEMMA PlaceLineDoes ==
    ASSUME NEW s \in Layouts, NEW graph, IsGraph(graph), NEW f \in DOMAIN graph.flows,
           NEW k \in DOMAIN graph.flows[f].heights, NEW w
    PROVE  LET m == Settled(s, graph, f, k, w)
               r == PlaceLine(s, graph, f, k, w)
               line == LineAt(m, graph, f, k)
           IN  /\ r \in Layouts
               /\ r.pages = m.pages /\ r.column = m.column /\ r.columns = s.columns
               /\ r.start = m.start
               /\ \/ /\ r.error = "none" /\ m.error = "none"
                     /\ r.placed = Append(s.placed, line)
                     /\ r.top = m.top + line.height
                     /\ r.top <= Bottom(graph, m.pages, w)
                  \/ /\ r.error # "none" /\ r.placed = s.placed /\ r.top = m.top
                     /\ \/ r.error = m.error
                        \/ /\ m.error = "none" /\ r.error = "LayoutInfeasibleError"
                           /\ ~(m.top + line.height <= Bottom(graph, m.pages, w))
<1> DEFINE m == Settled(s, graph, f, k, w)
           r == PlaceLine(s, graph, f, k, w)
           line == LineAt(m, graph, f, k)
           height == graph.flows[f].heights[k]
           bottom == Bottom(graph, m.pages, w)
<1>1. m \in Layouts /\ m.placed = s.placed /\ m.columns = s.columns
  BY SettledIs
<1>2. r \in Layouts
  BY PlaceLineType, SMTT(30)
<1>3. r = IF m.error # "none" THEN m
          ELSE IF m.top + height <= bottom
          THEN [m EXCEPT !.placed = Append(m.placed, line), !.top = m.top + height]
          ELSE [m EXCEPT !.error = "LayoutInfeasibleError"]
  BY PlaceLineIs
<1>4. line.height = height
  BY DEF LineAt
<1> HIDE DEF m, r, line, height, bottom
<1>5. CASE m.error # "none"
  BY <1>1, <1>2, <1>3, <1>5 DEF m, r, line, bottom
<1>6. CASE m.error = "none" /\ m.top + height <= bottom
  <2>1. r = [m EXCEPT !.placed = Append(m.placed, line), !.top = m.top + height]
    BY <1>3, <1>6
  <2>2. /\ r.pages = m.pages /\ r.column = m.column /\ r.columns = s.columns
        /\ r.start = m.start /\ r.error = m.error
        /\ r.placed = Append(s.placed, line) /\ r.top = m.top + height
    BY <1>1, <2>1 DEF Layouts
  <2>3. QED BY <1>2, <1>4, <1>6, <2>2 DEF m, r, line, bottom
<1>7. CASE m.error = "none" /\ ~(m.top + height <= bottom)
  <2>1. r = [m EXCEPT !.error = "LayoutInfeasibleError"]
    BY <1>3, <1>7
  <2>2. /\ r.pages = m.pages /\ r.column = m.column /\ r.columns = s.columns
        /\ r.start = m.start /\ r.error = "LayoutInfeasibleError"
        /\ r.placed = s.placed /\ r.top = m.top
    BY <1>1, <2>1 DEF Layouts
  <2>3. QED BY <1>2, <1>4, <1>7, <2>2 DEF m, r, line, bottom
<1>8. QED BY <1>5, <1>6, <1>7

(* The line that is placed is the one of the flow.                         *)
LEMMA LineAtIs ==
    ASSUME NEW m \in Layouts, NEW graph, IsGraph(graph), NEW f \in DOMAIN graph.flows,
           NEW k \in DOMAIN graph.flows[f].heights
    PROVE  LET line == LineAt(m, graph, f, k)
           IN  /\ line \in PlacedLines
               /\ line.flow = f /\ line.line = k
               /\ line.page = m.pages /\ line.column = m.column
               /\ line.columns = graph.flows[f].columns
               /\ line.top = m.top /\ line.height = graph.flows[f].heights[k]
               /\ 0 < line.height
<1>1. /\ graph.flows[f].heights[k] \in Nat /\ 0 < graph.flows[f].heights[k]
      /\ graph.flows[f].columns \in {1, 2} /\ f \in Nat /\ k \in Nat
  BY FlowsAre
<1>2. QED BY <1>1, LayoutFields DEF LineAt, PlacedLines

(* What is behind the place of the next line comes before that line.       *)
LEMMA BehindIsBefore ==
    ASSUME NEW s \in Layouts, s.start <= s.top, NEW l \in PlacedLines, NEW n \in PlacedLines,
           Behind(s, l), l.columns = 1 => l.column = 0, s.columns = 1 => s.column = 0,
           n.page = s.pages, n.top = s.top, n.column = s.column, n.columns = s.columns
    PROVE  Before(l, n)
<1>1. /\ l.page \in Nat /\ l.top + l.height \in Nat /\ s.pages \in Nat
      /\ s.start \in Nat /\ s.top \in Nat /\ l.column \in {0, 1} /\ s.column \in {0, 1}
      /\ s.columns \in {1, 2} /\ l.columns \in {1, 2}
  BY LayoutFields, LineFields
<1>2. QED BY <1>1 DEF Behind, Before

(* With one more line, what is placed is still sound.                      *)
LEMMA PlaceLineStands ==
    ASSUME NEW s, NEW graph, IsGraph(graph), NEW f \in DOMAIN graph.flows,
           NEW k \in DOMAIN graph.flows[f].heights, NEW w, Standing(s, graph, w),
           s.columns = graph.flows[f].columns
    PROVE  /\ Standing(PlaceLine(s, graph, f, k, w), graph, w)
           /\ PlaceLine(s, graph, f, k, w).columns = s.columns
<1> DEFINE m == Settled(s, graph, f, k, w)
           r == PlaceLine(s, graph, f, k, w)
           line == LineAt(m, graph, f, k)
<1>1. s \in Layouts /\ m \in Layouts /\ m.placed = s.placed /\ m.columns = s.columns
  BY SettledIs DEF Standing
<1>2. Standing(m, graph, w)
  BY SettledStands
<1>3. /\ r \in Layouts
      /\ r.pages = m.pages /\ r.column = m.column /\ r.columns = s.columns
      /\ r.start = m.start
      /\ \/ /\ r.placed = Append(s.placed, line)
            /\ r.top = m.top + line.height /\ r.top <= Bottom(graph, m.pages, w)
         \/ r.placed = s.placed /\ r.top = m.top
  BY <1>1, PlaceLineDoes
<1>4. /\ line \in PlacedLines
      /\ line.page = m.pages /\ line.column = m.column /\ line.columns = m.columns
      /\ line.top = m.top /\ 0 < line.height
  BY <1>1, LineAtIs
<1> HIDE DEF m, r, line
<1>5. CASE r.placed = s.placed /\ r.top = m.top
  BY <1>1, <1>2, <1>3, <1>5 DEF Standing, Behind, r
<1>6. CASE r.placed = Append(s.placed, line) /\ r.top = m.top + line.height
           /\ r.top <= Bottom(graph, m.pages, w)
  <2>1. /\ m.top \in Nat /\ m.start \in Nat /\ line.height \in Nat /\ s.placed \in Seq(PlacedLines)
        /\ m.pages \in Nat /\ m.column \in {0, 1}
    BY <1>1, <1>4, LayoutFields, LineFields
  <2>2. /\ r.pages # 0 /\ Margin <= r.start /\ r.start <= r.top
        /\ r.columns = 1 => r.column = 0
    BY <1>1, <1>2, <1>3, <1>6, <2>1, PaginationAssumption DEF Standing
  <2>3. /\ DOMAIN r.placed = 1 .. Len(s.placed) + 1 /\ DOMAIN s.placed = 1 .. Len(s.placed)
        /\ r.placed[Len(s.placed) + 1] = line /\ Len(s.placed) \in Nat
        /\ \A i \in DOMAIN s.placed : r.placed[i] = s.placed[i] /\ s.placed[i] \in PlacedLines
    BY <1>6, <2>1
  <2>4. Behind(r, line) /\ InColumn(line, graph, w)
    <3>1. Behind(r, line)
      BY <1>1, <1>3, <1>4, <1>6, <2>1 DEF Behind
    <3>2. Margin <= m.top /\ (m.columns = 1 => m.column = 0)
      BY <1>2, <2>1, PaginationAssumption DEF Standing
    <3>3. QED BY <1>4, <1>6, <3>1, <3>2 DEF InColumn
  <2>5. ASSUME NEW i \in DOMAIN s.placed
        PROVE  /\ Behind(r, s.placed[i]) /\ InColumn(s.placed[i], graph, w)
               /\ Before(s.placed[i], line)
    <3> DEFINE l == s.placed[i]
    <3>1. Behind(m, l) /\ InColumn(l, graph, w) /\ l \in PlacedLines
      BY <1>1, <1>2, <2>3 DEF Standing
    <3>2. l.page \in Nat /\ l.top + l.height \in Nat
      BY <3>1, LineFields
    <3> HIDE DEF l
    <3>3. Behind(r, l)
      BY <1>1, <1>3, <1>6, <2>1, <3>1, <3>2 DEF Behind
    <3>4. Before(l, line)
      BY <1>1, <1>2, <1>4, <3>1, BehindIsBefore DEF InColumn, Standing
    <3>5. QED BY <3>1, <3>3, <3>4 DEF l
  <2>6. ASSUME NEW i \in DOMAIN r.placed, NEW j \in DOMAIN r.placed, i < j
        PROVE  Before(r.placed[i], r.placed[j])
    <3>1. i \in DOMAIN s.placed
      BY <2>3, <2>6
    <3>2. CASE j \in DOMAIN s.placed
      BY <1>1, <1>2, <2>3, <2>6, <3>1, <3>2 DEF Standing
    <3>3. CASE j = Len(s.placed) + 1
      BY <2>3, <2>5, <3>1, <3>3
    <3>4. QED BY <2>3, <3>2, <3>3
  <2>7. ASSUME NEW i \in DOMAIN r.placed
        PROVE  Behind(r, r.placed[i]) /\ InColumn(r.placed[i], graph, w)
    BY <2>3, <2>4, <2>5
  <2>8. QED BY <1>3, <2>2, <2>6, <2>7 DEF Standing, r
<1>7. QED BY <1>3, <1>5, <1>6 DEF r

(* The height of lines is the end of a history of partial heights.         *)
LEMMA HeightHistory ==
    ASSUME NEW lines \in Seq(Nat)
    PROVE  \E p \in [0 .. Len(lines) -> Nat] :
              /\ p[0] = 0
              /\ \A k \in 1 .. Len(lines) : p[k] = p[k - 1] + lines[k]
              /\ TotalHeight(lines) = p[Len(lines)]
<1> DEFINE n == Len(lines)
           S == 1 .. n
           Step == [k \in 1 .. n |-> [x \in Nat |-> x + lines[k]]]
           IsIter(g) == g = [s \in SUBSET S |-> IF s = {} THEN 0
                                 ELSE g[s \ {Max(s)}] + lines[Max(s)]]
           iter == CHOOSE g : IsIter(g)
<1>1. n \in Nat /\ DOMAIN lines = S /\ \A k \in 1 .. n : lines[k] \in Nat
  OBVIOUS
<1> HIDE DEF n
<1>2. \A s \in SUBSET S : s # {} => Max(s) \in 1 .. n /\ s \ {Max(s)} \in SUBSET S
  BY <1>1, MaxIsMember
<1>3. \A k \in 1 .. n, x \in Nat : Step[k][x] = x + lines[k]
  OBVIOUS
<1>4. 0 \in Nat /\ Step \in [1 .. n -> [Nat -> Nat]]
  BY <1>1
<1> HIDE DEF Step
<1>5. PICK g : IsUnfolding(g, n, 0, Step) /\ ValuesIn(g, n, Nat)
  BY <1>1, <1>4, HistoryExists
<1>6. IsIter(g)
  BY <1>2, <1>3, <1>5 DEF IsUnfolding, ValuesIn
<1>7. IsIter(iter)
  <2> HIDE DEF IsIter
  <2>1. QED BY <1>6
<1> HIDE DEF iter
<1>8. Unfolds(iter, n, Nat, 0, Step)
  BY <1>2, <1>3, <1>7 DEF Unfolds
<1>9. PICK h : IsHistory(h, n, Nat, 0, Step) /\ h[n] = iter[1 .. n]
  <2> DEFINE X == Nat
             base == 0
  <2>1. n \in Nat /\ base \in X /\ Step \in [1 .. n -> [X -> X]] /\ Unfolds(iter, n, X, base, Step)
    BY <1>1, <1>4, <1>8
  <2> HIDE DEF IsIter, X, base
  <2>2. \E h : IsHistory(h, n, X, base, Step) /\ h[n] = iter[1 .. n]
    BY <2>1, HistoryOf
  <2>3. QED BY <2>2 DEF X, base
<1>10. \A k \in 1 .. n : h[k] = h[k - 1] + lines[k]
  <2> SUFFICES ASSUME NEW k \in 1 .. n PROVE h[k] = h[k - 1] + lines[k]
    OBVIOUS
  <2>1. k - 1 \in 0 .. n
    BY <1>1
  <2>2. h[k - 1] \in Nat
    BY <1>9, <2>1 DEF IsHistory
  <2>3. QED BY <1>3, <1>9, <2>2 DEF IsHistory
<1>11. TotalHeight(lines) = iter[S]
  BY <1>1 DEF TotalHeight, FoldLeft, MapThenFoldSet, iter
<1>12. QED BY <1>9, <1>10, <1>11 DEF n, IsHistory

(* The partial heights of lines.                                           *)
Heights(p, lines) ==
    /\ p \in [0 .. Len(lines) -> Nat]
    /\ p[0] = 0
    /\ \A k \in 1 .. Len(lines) : p[k] = p[k - 1] + lines[k]

(* The first lines have the height of their part of the history.           *)
LEMMA HeightOfFirst ==
    ASSUME NEW lines \in Seq(Nat), NEW p, Heights(p, lines), NEW m \in 0 .. Len(lines)
    PROVE  TotalHeight(SubSeq(lines, 1, m)) = p[m]
<1> DEFINE sub == SubSeq(lines, 1, m)
<1>1. m \in Nat /\ sub \in Seq(Nat) /\ Len(sub) = m /\ \A k \in 1 .. m : sub[k] = lines[k]
  OBVIOUS
<1> HIDE DEF sub
<1>2. PICK q \in [0 .. m -> Nat] : /\ q[0] = 0
                                   /\ \A k \in 1 .. m : q[k] = q[k - 1] + sub[k]
                                   /\ TotalHeight(sub) = q[m]
  BY <1>1, HeightHistory
<1> DEFINE Good == [k \in 0 .. m |-> q[k] = p[k]]
<1>3. Good[0]
  <2>1. 0 \in 0 .. m /\ q[0] = p[0]
    BY <1>1, <1>2 DEF Heights
  <2>2. QED BY <2>1
<1>4. ASSUME NEW k \in 1 .. m, Good[k - 1] PROVE Good[k]
  <2>1. k - 1 \in 0 .. m /\ k \in 0 .. m /\ k \in 1 .. Len(lines)
    BY <1>1
  <2>2. q[k] = q[k - 1] + sub[k] /\ p[k] = p[k - 1] + lines[k] /\ q[k - 1] = p[k - 1]
    BY <1>2, <1>4, <2>1 DEF Heights
  <2>3. QED BY <1>1, <2>1, <2>2
<1>5. Good[m]
  <2> HIDE DEF Good
  <2>1. \A k \in 0 .. m : Good[k]
    BY <1>1, <1>3, <1>4, StepsKeep
  <2>2. QED BY <1>1, <2>1
<1>6. m \in 0 .. m /\ q[m] = p[m]
  <2>1. m \in 0 .. m
    BY <1>1
  <2>2. Good[m] = (q[m] = p[m])
    BY <2>1
  <2>3. QED BY <1>5, <2>1, <2>2
<1>7. QED BY <1>2, <1>6 DEF sub

(* What is wanted after one more flow.                                     *)
Ahead(x, graph, g) ==
    IF x.remaining = 0 THEN x
    ELSE LET next == FirstLines(graph.flows[g].heights, x.remaining)
         IN  [remaining |-> x.remaining - Len(next),
              height |-> x.height + GapBefore(graph, g) + TotalHeight(next)]

(* What is wanted: lines that are to follow, and a height.                 *)
Wants == [remaining : Nat, height : Nat]

(* At first, the lines of the heading itself are wanted.                   *)
FirstWant(graph, f) ==
    [remaining |-> HeadingWithNext, height |-> TotalHeight(graph.flows[f].heights)]

(* The height of lines is a number.                                        *)
LEMMA TotalHeightType ==
    ASSUME NEW lines \in Seq(Nat)
    PROVE  TotalHeight(lines) \in Nat
BY HeightHistory

(* The first lines are as many as are asked for, or all.                   *)
LEMMA FirstLinesAre ==
    ASSUME NEW lines \in Seq(Nat), NEW n \in Nat
    PROVE  /\ FirstLines(lines, n) \in Seq(Nat)
           /\ Len(FirstLines(lines, n)) <= n /\ Len(FirstLines(lines, n)) <= Len(lines)
           /\ FirstLines(lines, n) = SubSeq(lines, 1, Len(FirstLines(lines, n)))
           /\ Len(FirstLines(lines, n)) = n \/ Len(FirstLines(lines, n)) = Len(lines)
<1>1. CASE n < Len(lines)
  <2>1. FirstLines(lines, n) = SubSeq(lines, 1, n)
    BY <1>1 DEF FirstLines
  <2>2. SubSeq(lines, 1, n) \in Seq(Nat) /\ Len(SubSeq(lines, 1, n)) = n
    BY <1>1
  <2>3. QED BY <1>1, <2>1, <2>2
<1>2. CASE ~(n < Len(lines))
  <2>1. FirstLines(lines, n) = lines
    BY <1>2 DEF FirstLines
  <2>2. SubSeq(lines, 1, Len(lines)) = lines
    OBVIOUS
  <2>3. QED BY <1>2, <2>1, <2>2
<1>3. QED BY <1>1, <1>2

(* What is wanted after one more flow is of the same form.                 *)
LEMMA AheadType ==
    ASSUME NEW graph, IsGraph(graph), NEW g \in DOMAIN graph.flows, NEW x \in Wants
    PROVE  Ahead(x, graph, g) \in Wants
<1> DEFINE next == FirstLines(graph.flows[g].heights, x.remaining)
<1>1. x.remaining \in Nat /\ x.height \in Nat
  BY DEF Wants
<1>2. graph.flows[g].heights \in Seq(Nat) /\ GapBefore(graph, g) \in Nat
  <2>1. graph.flows[g].heights \in Seq(Nat \ {0}) /\ GapBefore(graph, g) \in Nat
    BY FlowsAre
  <2>2. QED BY <2>1
<1>3. next \in Seq(Nat) /\ Len(next) <= x.remaining
  BY <1>1, <1>2, FirstLinesAre
<1> HIDE DEF next
<1>4. TotalHeight(next) \in Nat /\ Len(next) \in Nat
  BY <1>3, TotalHeightType
<1>5. Ahead(x, graph, g) =
          IF x.remaining = 0 THEN x
          ELSE [remaining |-> x.remaining - Len(next),
                height |-> x.height + GapBefore(graph, g) + TotalHeight(next)]
  BY DEF Ahead, next
<1>6. QED BY <1>1, <1>2, <1>3, <1>4, <1>5 DEF Wants

(* The height a heading wants is the end of a history of wants.            *)
LEMMA ReserveHistory ==
    ASSUME NEW graph, IsGraph(graph), NEW f \in DOMAIN graph.flows
    PROVE  LET n == Len(graph.flows) - f
           IN  \E r \in [0 .. n -> Wants] :
                  /\ r[0] = FirstWant(graph, f)
                  /\ \A k \in 1 .. n : r[k] = Ahead(r[k - 1], graph, f + k)
                  /\ Reserve(graph, f) = r[n].height
<1> DEFINE n == Len(graph.flows) - f
           seq == [k \in 1 .. n |-> f + k]
           S == DOMAIN seq
           base == FirstWant(graph, f)
           Follow(x, g) ==
               IF x.remaining = 0 THEN x
               ELSE [remaining |-> x.remaining -
                                      Len(FirstLines(graph.flows[g].heights, x.remaining)),
                     height |-> x.height +
                         (IF graph.flows[g - 1].unit # graph.flows[g].unit THEN BlockGap ELSE 0)
                         + TotalHeight(FirstLines(graph.flows[g].heights, x.remaining))]
           Step == [k \in 1 .. n |-> [x \in Wants |-> Ahead(x, graph, f + k)]]
           IsIter(g) == g = [s \in SUBSET S |-> IF s = {} THEN base
                                ELSE Follow(g[s \ {Max(s)}], seq[Max(s)])]
           iter == CHOOSE g : IsIter(g)
<1>0. Reserve(graph, f) = iter[S].height
  BY DEF Reserve, FoldLeft, MapThenFoldSet, iter, base, FirstWant
<1>1. n \in Nat /\ f \in Nat \ {0} /\ \A k \in 1 .. n : f + k \in DOMAIN graph.flows
  BY DEF IsGraph
<1> HIDE DEF n
<1>2. \A s \in SUBSET S : s # {} => Max(s) \in 1 .. n /\ s \ {Max(s)} \in SUBSET S
  BY <1>1, MaxIsMember
<1>3. \A k \in 1 .. n, x \in Wants : /\ Step[k][x] = Ahead(x, graph, f + k)
                                      /\ Step[k][x] = Follow(x, seq[k])
  <2> SUFFICES ASSUME NEW k \in 1 .. n, NEW x \in Wants
               PROVE  Ahead(x, graph, f + k) = Follow(x, f + k)
    OBVIOUS
  <2>1. f + k > 1
    BY <1>1
  <2>2. QED BY <2>1 DEF Ahead, GapBefore
<1>4. base \in Wants
  <2>1. graph.flows[f].heights \in Seq(Nat)
    <3>1. graph.flows[f].heights \in Seq(Nat \ {0})
      BY FlowsAre
    <3>2. QED BY <3>1
  <2>2. QED BY <2>1, TotalHeightType, PaginationAssumption DEF FirstWant, Wants
<1>5. Step \in [1 .. n -> [Wants -> Wants]]
  BY <1>1, AheadType
<1> HIDE DEF Step, base, Follow
<1>6. PICK g : IsUnfolding(g, n, base, Step) /\ ValuesIn(g, n, Wants)
  BY <1>1, <1>4, <1>5, HistoryExists
<1>7. IsIter(g)
  BY <1>2, <1>3, <1>6 DEF IsUnfolding, ValuesIn
<1>8. IsIter(iter)
  <2> HIDE DEF IsIter
  <2>1. QED BY <1>7
<1> HIDE DEF iter
<1>9. Unfolds(iter, n, Wants, base, Step)
  <2>1. iter[{}] = base /\ S = 1 .. n
    BY <1>8
  <2>2. ASSUME NEW s \in SUBSET S, s # {}, iter[s \ {Max(s)}] \in Wants
        PROVE  iter[s] = Step[Max(s)][iter[s \ {Max(s)}]]
    <3>1. iter[s] = Follow(iter[s \ {Max(s)}], seq[Max(s)])
      BY <1>8, <2>2
    <3>2. Max(s) \in 1 .. n
      BY <1>2, <2>2
    <3>3. QED BY <1>3, <2>2, <3>1, <3>2
  <2> HIDE DEF S
  <2>3. QED BY <2>1, <2>2 DEF Unfolds
<1>10. PICK h : IsHistory(h, n, Wants, base, Step) /\ h[n] = iter[1 .. n]
  <2> HIDE DEF IsIter
  <2>1. QED BY <1>1, <1>4, <1>5, <1>9, HistoryOf
<1>11. \A k \in 1 .. n : h[k] = Ahead(h[k - 1], graph, f + k)
  <2> SUFFICES ASSUME NEW k \in 1 .. n PROVE h[k] = Ahead(h[k - 1], graph, f + k)
    OBVIOUS
  <2>1. k - 1 \in 0 .. n
    BY <1>1
  <2>2. h[k - 1] \in Wants
    BY <1>10, <2>1 DEF IsHistory
  <2>3. QED BY <1>3, <1>10, <2>2 DEF IsHistory
<1>12. QED BY <1>0, <1>10, <1>11 DEF n, IsHistory, base

(* The lines of a flow, one after the other.                               *)
FlowHistory(h, s, graph, f, w) ==
    /\ h \in [0 .. Len(graph.flows[f].heights) -> Layouts]
    /\ h[0] = BeginFlow(s, graph, f)
    /\ \A k \in 1 .. Len(graph.flows[f].heights) : h[k] = PlaceLine(h[k - 1], graph, f, k, w)

(* A flow is placed line after line.                                       *)
LEMMA PlaceFlowIs ==
    ASSUME NEW s \in Layouts, NEW graph, IsGraph(graph), NEW f \in DOMAIN graph.flows, NEW w
    PROVE  \E h : /\ FlowHistory(h, s, graph, f, w)
                  /\ PlaceFlow(s, graph, f, w) = h[Len(graph.flows[f].heights)]
<1> DEFINE n == Len(graph.flows[f].heights)
           seq == [k \in DOMAIN graph.flows[f].heights |-> k]
           S == DOMAIN seq
           base == BeginFlow(s, graph, f)
           Step == [k \in 1 .. n |-> [x \in Layouts |-> PlaceLine(x, graph, f, k, w)]]
           IsIter(g) == g = [t \in SUBSET S |-> IF t = {} THEN base
                                ELSE PlaceLine(g[t \ {Max(t)}], graph, f, seq[Max(t)], w)]
           iter == CHOOSE g : IsIter(g)
<1>0. PlaceFlow(s, graph, f, w) = iter[S]
  BY DEF PlaceFlow, FoldLeft, MapThenFoldSet, iter, base
<1>1. n \in Nat /\ DOMAIN graph.flows[f].heights = 1 .. n /\ S = 1 .. n
  BY FlowsAre
<1>2. \A t \in SUBSET (1 .. n) : t # {} => Max(t) \in 1 .. n /\ t \ {Max(t)} \in SUBSET (1 .. n)
  <2> HIDE DEF n
  <2>1. QED BY <1>1, MaxIsMember
<1>3. \A k \in 1 .. n, x \in Layouts : /\ Step[k][x] = PlaceLine(x, graph, f, k, w)
                                       /\ seq[k] = k
  BY <1>1
<1>4. base \in Layouts
  BY BeginFlowType
<1>5. Step \in [1 .. n -> [Layouts -> Layouts]]
  BY <1>1, PlaceLineType
<1> HIDE DEF Step, base, n, seq
<1>6. PICK g : IsUnfolding(g, n, base, Step) /\ ValuesIn(g, n, Layouts)
  BY <1>1, <1>4, <1>5, HistoryExists
<1>7. IsIter(g)
  <2>1. \A t \in SUBSET (1 .. n) : t # {} =>
            Step[Max(t)][g[t \ {Max(t)}]] = PlaceLine(g[t \ {Max(t)}], graph, f, seq[Max(t)], w)
    BY <1>2, <1>3, <1>6 DEF ValuesIn
  <2>2. g = [t \in SUBSET (1 .. n) |-> IF t = {} THEN base
                ELSE PlaceLine(g[t \ {Max(t)}], graph, f, seq[Max(t)], w)]
    BY <1>6, <2>1 DEF IsUnfolding
  <2> HIDE DEF S
  <2>3. QED BY <1>1, <2>2
<1>8. IsIter(iter)
  <2> HIDE DEF IsIter
  <2>1. QED BY <1>7
<1> HIDE DEF iter
<1>9. Unfolds(iter, n, Layouts, base, Step)
  <2> HIDE DEF S
  <2>1. iter = [t \in SUBSET (1 .. n) |-> IF t = {} THEN base
                   ELSE PlaceLine(iter[t \ {Max(t)}], graph, f, seq[Max(t)], w)]
    BY <1>1, <1>8
  <2>2. \A t \in SUBSET (1 .. n) : t # {} /\ iter[t \ {Max(t)}] \in Layouts =>
            Step[Max(t)][iter[t \ {Max(t)}]] =
                PlaceLine(iter[t \ {Max(t)}], graph, f, seq[Max(t)], w)
    BY <1>2, <1>3
  <2>3. QED BY <2>1, <2>2 DEF Unfolds
<1>10. PICK h : IsHistory(h, n, Layouts, base, Step) /\ h[n] = iter[1 .. n]
  <2> HIDE DEF IsIter
  <2>1. QED BY <1>1, <1>4, <1>5, <1>9, HistoryOf
<1>11. \A k \in 1 .. n : h[k] = PlaceLine(h[k - 1], graph, f, k, w)
  <2> SUFFICES ASSUME NEW k \in 1 .. n PROVE h[k] = PlaceLine(h[k - 1], graph, f, k, w)
    OBVIOUS
  <2>1. k - 1 \in 0 .. n
    BY <1>1
  <2>2. h[k - 1] \in Layouts
    BY <1>10, <2>1 DEF IsHistory
  <2>3. QED BY <1>3, <1>10, <2>2 DEF IsHistory
<1>12. FlowHistory(h, s, graph, f, w)
  BY <1>10, <1>11 DEF FlowHistory, n, IsHistory, base
<1>13. PlaceFlow(s, graph, f, w) = h[n]
  BY <1>0, <1>1, <1>10
<1>14. QED BY <1>12, <1>13 DEF n

(* The flows, one after the other.                                         *)
PackStep(x, graph, f, w) == IF x.error # "none" THEN x ELSE PlaceFlow(x, graph, f, w)

(* The pages after each flow.                                              *)
PackHistory(h, graph, w) ==
    /\ h \in [0 .. Len(graph.flows) -> Layouts]
    /\ h[0] = FirstPage
    /\ \A f \in 1 .. Len(graph.flows) : h[f] = PackStep(h[f - 1], graph, f, w)

(* Placing a flow keeps the form of a layout.                              *)
LEMMA PlaceFlowType ==
    ASSUME NEW s \in Layouts, NEW graph, IsGraph(graph), NEW f \in DOMAIN graph.flows, NEW w
    PROVE  PlaceFlow(s, graph, f, w) \in Layouts
<1>1. PICK h : /\ FlowHistory(h, s, graph, f, w)
               /\ PlaceFlow(s, graph, f, w) = h[Len(graph.flows[f].heights)]
  BY PlaceFlowIs
<1>2. Len(graph.flows[f].heights) \in 0 .. Len(graph.flows[f].heights)
  BY FlowsAre
<1>3. QED BY <1>1, <1>2 DEF FlowHistory

(* The empty first page has the form of a layout.                          *)
LEMMA FirstPageType == FirstPage \in Layouts
BY PaginationAssumption DEF FirstPage, Layouts, LayoutErrors

(* The flows are packed one after the other.                               *)
LEMMA PackIs ==
    ASSUME NEW graph, IsGraph(graph), NEW w
    PROVE  \E h : PackHistory(h, graph, w) /\ Pack(graph, w) = h[Len(graph.flows)]
<1> DEFINE n == Len(graph.flows)
           seq == [f \in DOMAIN graph.flows |-> f]
           S == DOMAIN seq
           base == FirstPage
           Step == [k \in 1 .. n |-> [x \in Layouts |-> PackStep(x, graph, k, w)]]
           IsIter(g) == g = [t \in SUBSET S |-> IF t = {} THEN base
                                ELSE PackStep(g[t \ {Max(t)}], graph, seq[Max(t)], w)]
           iter == CHOOSE g : IsIter(g)
<1>0. Pack(graph, w) = iter[S]
  BY DEF Pack, FoldLeft, MapThenFoldSet, iter, base, PackStep
<1>1. n \in Nat /\ DOMAIN graph.flows = 1 .. n /\ S = 1 .. n
  BY DEF IsGraph
<1>2. \A t \in SUBSET (1 .. n) : t # {} => Max(t) \in 1 .. n /\ t \ {Max(t)} \in SUBSET (1 .. n)
  <2> HIDE DEF n
  <2>1. QED BY <1>1, MaxIsMember
<1>3. \A k \in 1 .. n, x \in Layouts : Step[k][x] = PackStep(x, graph, k, w) /\ seq[k] = k
  BY <1>1
<1>4. base \in Layouts
  BY FirstPageType
<1>5. Step \in [1 .. n -> [Layouts -> Layouts]]
  BY <1>1, PlaceFlowType DEF PackStep
<1> HIDE DEF Step, base, n, seq
<1>6. PICK g : IsUnfolding(g, n, base, Step) /\ ValuesIn(g, n, Layouts)
  BY <1>1, <1>4, <1>5, HistoryExists
<1>7. IsIter(g)
  <2>1. \A t \in SUBSET (1 .. n) : t # {} =>
            Step[Max(t)][g[t \ {Max(t)}]] = PackStep(g[t \ {Max(t)}], graph, seq[Max(t)], w)
    BY <1>2, <1>3, <1>6 DEF ValuesIn
  <2>2. g = [t \in SUBSET (1 .. n) |-> IF t = {} THEN base
                ELSE PackStep(g[t \ {Max(t)}], graph, seq[Max(t)], w)]
    BY <1>6, <2>1 DEF IsUnfolding
  <2> HIDE DEF S
  <2>3. QED BY <1>1, <2>2
<1>8. IsIter(iter)
  <2> HIDE DEF IsIter
  <2>1. QED BY <1>7
<1> HIDE DEF iter
<1>9. Unfolds(iter, n, Layouts, base, Step)
  <2> HIDE DEF S
  <2>1. iter = [t \in SUBSET (1 .. n) |-> IF t = {} THEN base
                   ELSE PackStep(iter[t \ {Max(t)}], graph, seq[Max(t)], w)]
    BY <1>1, <1>8
  <2>2. \A t \in SUBSET (1 .. n) : t # {} /\ iter[t \ {Max(t)}] \in Layouts =>
            Step[Max(t)][iter[t \ {Max(t)}]] = PackStep(iter[t \ {Max(t)}], graph, seq[Max(t)], w)
    BY <1>2, <1>3
  <2>3. QED BY <2>1, <2>2 DEF Unfolds
<1>10. PICK h : IsHistory(h, n, Layouts, base, Step) /\ h[n] = iter[1 .. n]
  <2> HIDE DEF IsIter
  <2>1. QED BY <1>1, <1>4, <1>5, <1>9, HistoryOf
<1>11. \A k \in 1 .. n : h[k] = PackStep(h[k - 1], graph, k, w)
  <2> SUFFICES ASSUME NEW k \in 1 .. n PROVE h[k] = PackStep(h[k - 1], graph, k, w)
    OBVIOUS
  <2>1. k - 1 \in 0 .. n
    BY <1>1
  <2>2. h[k - 1] \in Layouts
    BY <1>10, <2>1 DEF IsHistory
  <2>3. QED BY <1>3, <1>10, <2>2 DEF IsHistory
<1>12. PackHistory(h, graph, w)
  BY <1>10, <1>11 DEF PackHistory, n, IsHistory, base
<1>13. Pack(graph, w) = h[n]
  BY <1>0, <1>1, <1>10
<1>14. QED BY <1>12, <1>13 DEF n

(* The height a heading wants is a number.                                 *)
LEMMA ReserveType ==
    ASSUME NEW graph, IsGraph(graph), NEW f \in DOMAIN graph.flows
    PROVE  Reserve(graph, f) \in Nat
<1> DEFINE n == Len(graph.flows) - f
<1>1. PICK r \in [0 .. n -> Wants] : Reserve(graph, f) = r[n].height
  BY ReserveHistory
<1>2. n \in 0 .. n
  BY DEF IsGraph
<1>3. r[n] \in Wants
  BY <1>1, <1>2
<1>4. QED BY <1>1, <1>3 DEF Wants

(* A column ends above the margin, and at most the statement and a gap     *)
(* higher.                                                                 *)
LEMMA BottomType ==
    ASSUME NEW graph, IsGraph(graph), NEW page, NEW w
    PROVE  /\ Bottom(graph, page, w) \in Int
           /\ Bottom(graph, page, w) <= PageHeight - Margin
           /\ PageHeight - Margin - graph.warning - BlockGap <= Bottom(graph, page, w)
BY PaginationAssumption DEF Bottom, IsGraph

(* Nothing moves away from the top of a page, and nothing moves at all     *)
(* after an error.                                                         *)
LEMMA TopIsEmpty ==
    ASSUME NEW s \in Layouts, NEW graph, IsGraph(graph), NEW f \in DOMAIN graph.flows,
           NEW k, NEW w, s.top = Margin \/ s.error # "none"
    PROVE  ~MustMove(s, graph, f, k, w)
<1>1. Reserve(graph, f) \in Nat /\ Bottom(graph, s.pages, w) \in Int /\ Margin \in Nat
  BY ReserveType, BottomType, PaginationAssumption
<1>2. QED BY <1>1 DEF MustMove

(* Two moves are enough.                                                   *)
LEMMA SettledDecides ==
    ASSUME NEW s \in Layouts, NEW graph, IsGraph(graph), NEW f \in DOMAIN graph.flows,
           NEW k, NEW w
    PROVE  ~MustMove(Settled(s, graph, f, k, w), graph, f, k, w)
<1> DEFINE a == Moved(s, graph, f, k, w)
           b == Moved(a, graph, f, k, w)
<1>1. a \in Layouts
  BY MovedType
<1>2. b = Settled(s, graph, f, k, w)
  BY DEF Settled
<1> SUFFICES ~MustMove(b, graph, f, k, w)
  BY <1>2
<1>3. CASE ~MustMove(a, graph, f, k, w)
  BY <1>3 DEF Moved
<1>4. CASE MustMove(a, graph, f, k, w)
  <2>1. a = NextColumn(s)
    BY <1>4 DEF Moved
  <2>2. a.top # Margin /\ a.error = "none"
    BY <1>1, <1>4, TopIsEmpty
  <2>3. a.columns = 2 /\ a.column = 1
    BY <2>1, <2>2, NextColumnIs
  <2>4. b = NextColumn(a)
    BY <1>4 DEF Moved
  <2> HIDE DEF a, b
  <2>5. b = NewPage(a)
    BY <2>3, <2>4 DEF NextColumn
  <2>6. b \in Layouts /\ (b.top = Margin \/ b.error # "none")
    BY <1>1, <2>5, NewPageType, NewPageIs
  <2>7. QED BY <2>6, TopIsEmpty
<1>5. QED BY <1>3, <1>4

(* Moving can only run out of pages, and an error stays.                   *)
LEMMA SettledError ==
    ASSUME NEW s \in Layouts, NEW graph, IsGraph(graph), NEW f \in DOMAIN graph.flows,
           NEW k, NEW w
    PROVE  LET m == Settled(s, graph, f, k, w)
           IN  /\ m.error = s.error \/ m.error = "LayoutComplexityError"
               /\ s.error # "none" => m = s
<1>1. ASSUME NEW x \in Layouts
      PROVE  LET m == Moved(x, graph, f, k, w)
             IN  /\ m.error = x.error \/ m.error = "LayoutComplexityError"
                 /\ x.error # "none" => m = x
  <2>1. NextColumn(x).error = x.error \/ NextColumn(x).error = "LayoutComplexityError"
    BY NextColumnIs
  <2>2. x.error # "none" => ~MustMove(x, graph, f, k, w)
    BY TopIsEmpty
  <2>3. QED BY <2>1, <2>2 DEF Moved
<1> DEFINE a == Moved(s, graph, f, k, w)
           b == Moved(a, graph, f, k, w)
<1>2. a \in Layouts
  BY MovedType
<1>3. b = Settled(s, graph, f, k, w)
  BY DEF Settled
<1>4. /\ a.error = s.error \/ a.error = "LayoutComplexityError"
      /\ s.error # "none" => a = s
  BY <1>1
<1>5. /\ b.error = a.error \/ b.error = "LayoutComplexityError"
      /\ a.error # "none" => b = a
  <2> HIDE DEF a
  <2>1. QED BY <1>1, <1>2
<1> HIDE DEF a, b
<1>6. QED BY <1>3, <1>4, <1>5

(* When everything fits, no line is too high.                              *)
LEMMA LinesFit ==
    ASSUME NEW s \in Layouts, NEW graph, IsGraph(graph), NEW f \in DOMAIN graph.flows,
           NEW k \in DOMAIN graph.flows[f].heights, NEW w,
           EverythingFits(graph), s.error # "LayoutInfeasibleError"
    PROVE  PlaceLine(s, graph, f, k, w).error # "LayoutInfeasibleError"
<1> DEFINE m == Settled(s, graph, f, k, w)
           line == LineAt(m, graph, f, k)
           height == graph.flows[f].heights[k]
           bottom == Bottom(graph, m.pages, w)
           r == PlaceLine(s, graph, f, k, w)
<1>1. m \in Layouts /\ ~MustMove(m, graph, f, k, w)
  BY SettledIs, SettledDecides
<1>2. m.error # "LayoutInfeasibleError"
  BY SettledError
<1>3. line.height = height /\ height \in Nat
  BY FlowsAre DEF LineAt
<1>4. bottom \in Int /\ Margin + height <= bottom
  <2>1. height + graph.warning + BlockGap <= PageHeight - 2 * Margin
    BY DEF EverythingFits
  <2>2. /\ bottom \in Int
        /\ PageHeight - Margin - graph.warning - BlockGap <= bottom
        /\ graph.warning \in Nat
    BY BottomType, FlowsAre
  <2> HIDE DEF bottom, height
  <2>3. QED BY <1>3, <2>1, <2>2, PaginationAssumption
<1>5. m.error = "none" => m.top + height <= bottom
  <2>1. m.error = "none" => ~(m.top # Margin /\ m.top + height > bottom)
    BY <1>1 DEF MustMove
  <2>2. m.top \in Nat
    BY <1>1, LayoutFields
  <2> HIDE DEF m, height, bottom
  <2>3. QED BY <1>3, <1>4, <2>1, <2>2
<1>6. \/ r.error = "none"
      \/ r.error = m.error
      \/ m.error = "none" /\ ~(m.top + line.height <= bottom)
  BY PlaceLineDoes
<1>7. QED
  <2> HIDE DEF m, line, height, bottom, r
  <2>1. r.error # "LayoutInfeasibleError"
    BY <1>2, <1>3, <1>5, <1>6
  <2>2. QED BY <2>1 DEF r

(* A line as it is in the graph.                                           *)
Genuine(l, graph) ==
    /\ l.flow \in DOMAIN graph.flows
    /\ l.line \in DOMAIN graph.flows[l.flow].heights
    /\ l.height = graph.flows[l.flow].heights[l.line]
    /\ l.columns = graph.flows[l.flow].columns

(* A line that is earlier in the order of the flows.                       *)
Earlier(a, b) == a.flow < b.flow \/ (a.flow = b.flow /\ a.line < b.line)

(* All lines before line k + 1 of flow f are placed, and no others, each   *)
(* once.                                                                   *)
Contents(placed, graph, f, k) ==
    /\ \A i \in DOMAIN placed :
          /\ Genuine(placed[i], graph)
          /\ placed[i].flow < f \/ (placed[i].flow = f /\ placed[i].line <= k)
    /\ \A g \in DOMAIN graph.flows : \A j \in DOMAIN graph.flows[g].heights :
          g < f \/ (g = f /\ j <= k) =>
              \E i \in DOMAIN placed : placed[i].flow = g /\ placed[i].line = j
    /\ \A i, j \in DOMAIN placed : i < j => Earlier(placed[i], placed[j])

(* With one more line placed, all lines up to it are.                      *)
LEMMA AppendContents ==
    ASSUME NEW placed \in Seq(PlacedLines), NEW graph, IsGraph(graph),
           NEW f \in DOMAIN graph.flows, NEW k \in DOMAIN graph.flows[f].heights,
           NEW line \in PlacedLines, line.flow = f, line.line = k, Genuine(line, graph),
           Contents(placed, graph, f, k - 1)
    PROVE  Contents(Append(placed, line), graph, f, k)
<1> DEFINE new == Append(placed, line)
           n == Len(placed)
<1>1. f \in Nat /\ k \in Nat
  BY FlowsAre
<1>2. /\ n \in Nat /\ DOMAIN placed = 1 .. n /\ DOMAIN new = 1 .. n + 1 /\ new[n + 1] = line
      /\ \A i \in 1 .. n : new[i] = placed[i] /\ placed[i] \in PlacedLines
  OBVIOUS
<1>3. \A i \in 1 .. n : placed[i].flow \in Nat /\ placed[i].line \in Nat
  BY <1>2, LineFields
<1> HIDE DEF new, n
<1>4. ASSUME NEW i \in DOMAIN new
      PROVE  /\ Genuine(new[i], graph)
             /\ new[i].flow < f \/ (new[i].flow = f /\ new[i].line <= k)
  <2>1. CASE i \in 1 .. n
    BY <1>1, <1>2, <1>3, <2>1 DEF Contents
  <2>2. CASE i = n + 1
    BY <1>1, <1>2, <2>2
  <2>3. QED BY <1>2, <2>1, <2>2
<1>5. ASSUME NEW g \in DOMAIN graph.flows, NEW j \in DOMAIN graph.flows[g].heights,
             g < f \/ (g = f /\ j <= k)
      PROVE  \E i \in DOMAIN new : new[i].flow = g /\ new[i].line = j
  <2>1. CASE g = f /\ j = k
    <3>1. n + 1 \in DOMAIN new /\ new[n + 1].flow = g /\ new[n + 1].line = j
      BY <1>2, <2>1
    <3>2. QED BY <3>1
  <2>2. CASE ~(g = f /\ j = k)
    <3>1. j \in Nat /\ g \in Nat
      BY FlowsAre, SMTT(30)
    <3>2. g < f \/ (g = f /\ j <= k - 1)
      BY <1>1, <1>5, <2>2, <3>1
    <3>3. PICK i \in DOMAIN placed : placed[i].flow = g /\ placed[i].line = j
      BY <3>2 DEF Contents
    <3>4. i \in DOMAIN new /\ new[i] = placed[i]
      BY <1>2
    <3>5. QED BY <3>3, <3>4
  <2>3. QED BY <2>1, <2>2
<1>6. ASSUME NEW i \in DOMAIN new, NEW j \in DOMAIN new, i < j
      PROVE  Earlier(new[i], new[j])
  <2>1. i \in 1 .. n
    BY <1>2, <1>6
  <2>2. CASE j \in 1 .. n
    BY <1>2, <1>6, <2>1, <2>2 DEF Contents
  <2>3. CASE j = n + 1
    <3>1. placed[i].flow < f \/ (placed[i].flow = f /\ placed[i].line <= k - 1)
      BY <1>2, <2>1 DEF Contents
    <3>2. QED BY <1>1, <1>2, <1>3, <2>1, <2>3, <3>1 DEF Earlier
  <2>4. QED BY <1>2, <2>2, <2>3
<1>7. QED BY <1>4, <1>5, <1>6 DEF Contents, new

(* When all lines of a flow are placed, the next flow is next.             *)
LEMMA NextContents ==
    ASSUME NEW placed \in Seq(PlacedLines), NEW graph, IsGraph(graph),
           NEW f \in DOMAIN graph.flows,
           Contents(placed, graph, f, Len(graph.flows[f].heights))
    PROVE  Contents(placed, graph, f + 1, 0)
<1>1. f \in Nat /\ \A i \in DOMAIN placed : placed[i].flow \in Nat /\ placed[i].line \in Nat
  BY FlowsAre, LineFields
<1>2. ASSUME NEW g \in DOMAIN graph.flows, NEW j \in DOMAIN graph.flows[g].heights,
             g < f + 1 \/ (g = f + 1 /\ j <= 0)
      PROVE  g < f \/ (g = f /\ j <= Len(graph.flows[f].heights))
  <2>1. /\ g \in Nat /\ j \in Nat \ {0} /\ j <= Len(graph.flows[g].heights)
    BY FlowsAre, SMTT(30)
  <2>2. QED BY <1>1, <1>2, <2>1
<1>3. QED BY <1>1, <1>2 DEF Contents

(* How far a flow has come.                                                *)
Placing(s, graph, f, k, w) ==
    /\ Standing(s, graph, w)
    /\ s.columns = graph.flows[f].columns
    /\ s.error = "none" => Contents(s.placed, graph, f, k)
    /\ EverythingFits(graph) => s.error # "LayoutInfeasibleError"

(* Placing a line brings the flow one line further.                        *)
LEMMA PlaceLineGoes ==
    ASSUME NEW graph, IsGraph(graph), NEW f \in DOMAIN graph.flows,
           NEW k \in DOMAIN graph.flows[f].heights, NEW w, NEW s,
           Placing(s, graph, f, k - 1, w)
    PROVE  Placing(PlaceLine(s, graph, f, k, w), graph, f, k, w)
<1> DEFINE m == Settled(s, graph, f, k, w)
           r == PlaceLine(s, graph, f, k, w)
           line == LineAt(m, graph, f, k)
<1>1. s \in Layouts /\ Standing(s, graph, w) /\ s.columns = graph.flows[f].columns
  BY DEF Placing, Standing
<1>2. Standing(r, graph, w) /\ r.columns = graph.flows[f].columns
  BY <1>1, PlaceLineStands
<1>3. EverythingFits(graph) => r.error # "LayoutInfeasibleError"
  BY <1>1, LinesFit DEF Placing
<1>4. ASSUME r.error = "none" PROVE Contents(r.placed, graph, f, k)
  <2>1. m.error = "none" /\ r.placed = Append(s.placed, line)
    BY <1>1, <1>4, PlaceLineDoes
  <2>2. s.error = "none"
    BY <1>1, <2>1, SettledError
  <2>3. m \in Layouts
    BY <1>1, SettledIs
  <2>4. Genuine(line, graph) /\ line \in PlacedLines /\ line.flow = f /\ line.line = k
    BY <2>3, LineAtIs DEF Genuine
  <2> HIDE DEF m, r, line
  <2>5. s.placed \in Seq(PlacedLines)
    BY <1>1, LayoutFields
  <2>6. QED BY <2>1, <2>2, <2>4, <2>5, AppendContents DEF Placing
<1>5. QED BY <1>2, <1>3, <1>4 DEF Placing

(* A flow begins with none of its lines placed.                            *)
LEMMA BeginFlowGoes ==
    ASSUME NEW graph, IsGraph(graph), NEW f \in DOMAIN graph.flows, NEW w, NEW s,
           Standing(s, graph, w), s.error = "none", Contents(s.placed, graph, f, 0)
    PROVE  Placing(BeginFlow(s, graph, f), graph, f, 0, w)
<1> DEFINE n == BeginFlow(s, graph, f)
<1>1. Standing(n, graph, w) /\ n.columns = graph.flows[f].columns
  BY BeginFlowStands
<1>2. s \in Layouts
  BY DEF Standing
<1>3. n.placed = s.placed /\ n.error = s.error
  BY <1>2, BeginFlowDoes
<1>4. QED BY <1>1, <1>3 DEF Placing

(* How far the paper has come.                                             *)
Packing(s, graph, f, w) ==
    /\ Standing(s, graph, w)
    /\ s.error = "none" => Contents(s.placed, graph, f + 1, 0)
    /\ EverythingFits(graph) => s.error # "LayoutInfeasibleError"

(* A flow is placed line by line, and then all of it is.                   *)
LEMMA PlaceFlowGoes ==
    ASSUME NEW graph, IsGraph(graph), NEW f \in DOMAIN graph.flows, NEW w, NEW s,
           Packing(s, graph, f - 1, w), s.error = "none"
    PROVE  /\ Packing(PlaceFlow(s, graph, f, w), graph, f, w)
           /\ \A h : FlowHistory(h, s, graph, f, w) =>
                 \A k \in 0 .. Len(graph.flows[f].heights) : Placing(h[k], graph, f, k, w)
<1> DEFINE n == Len(graph.flows[f].heights)
<1>1. n \in Nat /\ DOMAIN graph.flows[f].heights = 1 .. n /\ f \in Nat /\ (f - 1) + 1 = f
  <2>1. graph.flows[f].heights \in Seq(Nat \ {0}) /\ f \in Nat
    BY FlowsAre
  <2>2. QED BY <2>1
<1>2. s \in Layouts /\ Standing(s, graph, w) /\ Contents(s.placed, graph, f, 0)
  BY <1>1 DEF Packing, Standing
<1>3. ASSUME NEW h, FlowHistory(h, s, graph, f, w)
      PROVE  \A k \in 0 .. n : Placing(h[k], graph, f, k, w)
  <2> DEFINE Good == [k \in 0 .. n |-> Placing(h[k], graph, f, k, w)]
  <2>1. Good[0]
    <3>1. Placing(h[0], graph, f, 0, w)
      BY <1>2, <1>3, BeginFlowGoes DEF FlowHistory
    <3>2. QED BY <1>1, <3>1
  <2>2. ASSUME NEW k \in 1 .. n, Good[k - 1] PROVE Good[k]
    <3>1. k - 1 \in 0 .. n /\ k \in 0 .. n
      BY <1>1
    <3>2. Placing(h[k - 1], graph, f, k - 1, w)
      BY <2>2, <3>1
    <3>3. h[k] = PlaceLine(h[k - 1], graph, f, k, w)
      BY <1>3 DEF FlowHistory
    <3>4. Placing(h[k], graph, f, k, w)
      BY <1>1, <3>2, <3>3, PlaceLineGoes
    <3>5. QED BY <3>1, <3>4
  <2>3. \A k \in 0 .. n : Good[k]
    <3> HIDE DEF Good, n
    <3>1. QED BY <1>1, <2>1, <2>2, StepsKeep
  <2>4. QED BY <2>3
<1>4. PICK h : FlowHistory(h, s, graph, f, w) /\ PlaceFlow(s, graph, f, w) = h[n]
  BY <1>2, PlaceFlowIs, SMTT(30)
<1>5. Placing(h[n], graph, f, n, w)
  BY <1>1, <1>3, <1>4
<1>6. h[n] \in Layouts /\ h[n].placed \in Seq(PlacedLines)
  BY <1>5, LayoutFields DEF Placing, Standing
<1>7. Packing(h[n], graph, f, w)
  BY <1>5, <1>6, NextContents DEF Placing, Packing
<1>8. QED BY <1>3, <1>4, <1>7

(* At the start nothing is placed and nothing is wrong.                    *)
LEMMA FirstPageStands ==
    ASSUME NEW graph, IsGraph(graph), NEW w
    PROVE  Packing(FirstPage, graph, 0, w)
<1>1. FirstPage \in Layouts
  BY FirstPageType
<1>2. /\ FirstPage.pages = 1 /\ FirstPage.start = Margin /\ FirstPage.top = Margin
      /\ FirstPage.column = 0 /\ FirstPage.placed = <<>> /\ FirstPage.error = "none"
  BY DEF FirstPage
<1>3. Standing(FirstPage, graph, w)
  BY <1>1, <1>2, PaginationAssumption DEF Standing
<1>4. Contents(<<>>, graph, 0 + 1, 0)
  <2> SUFFICES ASSUME NEW g \in DOMAIN graph.flows, NEW j \in DOMAIN graph.flows[g].heights
               PROVE  ~(g < 0 + 1 \/ (g = 0 + 1 /\ j <= 0))
    BY DEF Contents
  <2>1. g \in Nat \ {0} /\ j \in Nat \ {0}
    BY FlowsAre, SMTT(30) DEF IsGraph
  <2>2. QED BY <2>1
<1>5. QED BY <1>2, <1>3, <1>4 DEF Packing

(* After every flow, all lines up to it are placed soundly.                *)
LEMMA PackGoes ==
    ASSUME NEW graph, IsGraph(graph), NEW w, NEW h, PackHistory(h, graph, w)
    PROVE  \A f \in 0 .. Len(graph.flows) : Packing(h[f], graph, f, w)
<1> DEFINE n == Len(graph.flows)
           Good == [f \in 0 .. n |-> Packing(h[f], graph, f, w)]
<1>1. n \in Nat /\ DOMAIN graph.flows = 1 .. n
  BY DEF IsGraph
<1>2. Good[0]
  <2>1. Packing(h[0], graph, 0, w)
    BY FirstPageStands DEF PackHistory
  <2>2. QED BY <1>1, <2>1
<1>3. ASSUME NEW f \in 1 .. n, Good[f - 1] PROVE Good[f]
  <2>1. f - 1 \in 0 .. n /\ f \in 0 .. n /\ f \in DOMAIN graph.flows
    BY <1>1
  <2>2. Packing(h[f - 1], graph, f - 1, w)
    BY <1>3, <2>1
  <2>3. h[f] = PackStep(h[f - 1], graph, f, w)
    BY DEF PackHistory
  <2>4. Packing(h[f], graph, f, w)
    <3>1. CASE h[f - 1].error # "none"
      <4>1. h[f] = h[f - 1]
        BY <2>3, <3>1 DEF PackStep
      <4>2. QED BY <2>2, <3>1, <4>1 DEF Packing
    <3>2. CASE h[f - 1].error = "none"
      <4>1. h[f] = PlaceFlow(h[f - 1], graph, f, w)
        BY <2>3, <3>2 DEF PackStep
      <4>2. QED BY <2>1, <2>2, <3>2, <4>1, PlaceFlowGoes
    <3>3. QED BY <3>1, <3>2
  <2>5. QED BY <2>1, <2>4
<1>4. \A f \in 0 .. n : Good[f]
  <2> HIDE DEF Good, n
  <2>1. QED BY <1>1, <1>2, <1>3, StepsKeep
<1>5. QED BY <1>4

(* Pages only grow in number.                                              *)
LEMMA PagesGrow ==
    ASSUME NEW s \in Layouts, NEW graph, IsGraph(graph), NEW f \in DOMAIN graph.flows
    PROVE  /\ BeginFlow(s, graph, f).pages = s.pages
           /\ \A k \in DOMAIN graph.flows[f].heights : \A w :
                 s.pages <= PlaceLine(s, graph, f, k, w).pages
<1>1. BeginFlow(s, graph, f).pages = s.pages
  BY BeginFlowDoes
<1>2. ASSUME NEW k \in DOMAIN graph.flows[f].heights, NEW w
      PROVE  s.pages <= PlaceLine(s, graph, f, k, w).pages
  BY PlaceLineDoes, SettledIs, SMTT(30)
<1>3. QED BY <1>1, <1>2

(* A page that is not reached might as well have the statement.            *)
LEMMA PlaceLineSame ==
    ASSUME NEW s \in Layouts, NEW graph, IsGraph(graph), NEW f \in DOMAIN graph.flows,
           NEW k \in DOMAIN graph.flows[f].heights, NEW w \in Nat, s.pages # 0,
           PlaceLine(s, graph, f, k, NoWarning).pages < w
    PROVE  PlaceLine(s, graph, f, k, w) = PlaceLine(s, graph, f, k, NoWarning)
<1> DEFINE a == Moved(s, graph, f, k, NoWarning)
           m == Moved(a, graph, f, k, NoWarning)
<1>1. ASSUME NEW x \in Layouts, x.pages # 0, x.pages < w
      PROVE  /\ Bottom(graph, x.pages, w) = Bottom(graph, x.pages, NoWarning)
             /\ Moved(x, graph, f, k, w) = Moved(x, graph, f, k, NoWarning)
  <2>1. x.pages # w /\ x.pages # NoWarning
    BY <1>1, LayoutFields DEF NoWarning
  <2>2. Bottom(graph, x.pages, w) = Bottom(graph, x.pages, NoWarning)
    BY <2>1 DEF Bottom
  <2>3. MustMove(x, graph, f, k, w) = MustMove(x, graph, f, k, NoWarning)
    BY <2>2 DEF MustMove
  <2>4. QED BY <2>2, <2>3 DEF Moved
<1>2. ASSUME NEW x \in Layouts
      PROVE  /\ Moved(x, graph, f, k, NoWarning) \in Layouts
             /\ x.pages <= Moved(x, graph, f, k, NoWarning).pages
  <2>1. NextColumn(x) \in Layouts /\ x.pages \in Nat
    BY NextColumnType, LayoutFields
  <2>2. x.pages <= NextColumn(x).pages
    BY <2>1, NextColumnIs
  <2>3. QED BY <2>1, <2>2 DEF Moved
<1>3. a \in Layouts /\ s.pages <= a.pages
  BY <1>2
<1>4. m \in Layouts /\ a.pages <= m.pages
  <2> HIDE DEF a
  <2>1. QED BY <1>2, <1>3
<1>5. m = Settled(s, graph, f, k, NoWarning)
  BY DEF Settled
<1>6. m.pages < w
  BY <1>5, PlaceLineDoes
<1>7. s.pages \in Nat /\ a.pages \in Nat /\ m.pages \in Nat
  BY <1>3, <1>4, LayoutFields
<1> HIDE DEF a, m
<1>8. Moved(s, graph, f, k, w) = a
  BY <1>1, <1>3, <1>4, <1>6, <1>7 DEF a
<1>9. Moved(a, graph, f, k, w) = m
  BY <1>1, <1>3, <1>4, <1>6, <1>7 DEF m
<1>10. Settled(s, graph, f, k, w) = m
  BY <1>8, <1>9 DEF Settled
<1>11. Bottom(graph, m.pages, w) = Bottom(graph, m.pages, NoWarning)
  BY <1>1, <1>3, <1>4, <1>6, <1>7
<1>12. QED BY <1>5, <1>10, <1>11, PlaceLineIs

(* It makes no difference to a flow that ends before that page.            *)
LEMMA PlaceFlowSame ==
    ASSUME NEW s \in Layouts, NEW graph, IsGraph(graph), NEW f \in DOMAIN graph.flows,
           NEW w \in Nat, s.pages # 0
    PROVE  /\ s.pages <= PlaceFlow(s, graph, f, NoWarning).pages
           /\ \/ w <= PlaceFlow(s, graph, f, NoWarning).pages
              \/ PlaceFlow(s, graph, f, w) = PlaceFlow(s, graph, f, NoWarning)
<1> DEFINE n == Len(graph.flows[f].heights)
<1>1. n \in Nat /\ DOMAIN graph.flows[f].heights = 1 .. n /\ s.pages \in Nat
  <2>1. graph.flows[f].heights \in Seq(Nat \ {0})
    BY FlowsAre
  <2>2. QED BY <2>1, LayoutFields
<1>2. PICK h : /\ FlowHistory(h, s, graph, f, NoWarning)
               /\ PlaceFlow(s, graph, f, NoWarning) = h[n]
  BY PlaceFlowIs
<1>3. PICK g : FlowHistory(g, s, graph, f, w) /\ PlaceFlow(s, graph, f, w) = g[n]
  BY PlaceFlowIs
<1> DEFINE Good == [k \in 0 .. n |-> /\ s.pages <= h[k].pages
                                     /\ w <= h[k].pages \/ g[k] = h[k]]
<1>4. \A k \in 0 .. n : h[k] \in Layouts /\ h[k].pages \in Nat
  BY <1>2, LayoutFields DEF FlowHistory
<1>5. Good[0]
  <2>1. g[0] = h[0] /\ h[0].pages = s.pages
    BY <1>2, <1>3, PagesGrow DEF FlowHistory
  <2>2. 0 \in 0 .. n
    BY <1>1
  <2>3. QED BY <1>1, <2>1, <2>2
<1>6. ASSUME NEW k \in 1 .. n, Good[k - 1] PROVE Good[k]
  <2>1. k - 1 \in 0 .. n /\ k \in 0 .. n /\ k \in DOMAIN graph.flows[f].heights
    BY <1>1
  <2>2. /\ s.pages <= h[k - 1].pages
        /\ w <= h[k - 1].pages \/ g[k - 1] = h[k - 1]
    BY <1>6, <2>1
  <2>3. /\ h[k] = PlaceLine(h[k - 1], graph, f, k, NoWarning)
        /\ g[k] = PlaceLine(g[k - 1], graph, f, k, w)
    BY <1>2, <1>3 DEF FlowHistory
  <2>4. /\ h[k - 1] \in Layouts /\ h[k - 1].pages \in Nat /\ h[k].pages \in Nat
        /\ h[k - 1].pages <= h[k].pages
    BY <1>4, <2>1, <2>3, PagesGrow
  <2>5. h[k].pages < w /\ g[k - 1] = h[k - 1] => g[k] = h[k]
    BY <1>1, <2>1, <2>2, <2>3, <2>4, PlaceLineSame, SMTT(30)
  <2>6. s.pages <= h[k].pages /\ (w <= h[k].pages \/ g[k] = h[k])
    BY <1>1, <2>2, <2>4, <2>5
  <2>7. QED BY <2>1, <2>6
<1>7. Good[n]
  <2> HIDE DEF Good, n
  <2>1. \A k \in 0 .. n : Good[k]
    BY <1>1, <1>5, <1>6, StepsKeep
  <2>2. QED BY <1>1, <2>1
<1>8. s.pages <= h[n].pages /\ (w <= h[n].pages \/ g[n] = h[n])
  <2>1. n \in 0 .. n
    BY <1>1
  <2> HIDE DEF n
  <2>2. QED BY <1>7, <2>1
<1>9. QED BY <1>2, <1>3, <1>8

(* Nor to a paper that ends before it.                                     *)
LEMMA PackSame ==
    ASSUME NEW graph, IsGraph(graph), NEW w \in Nat, Pack(graph, NoWarning).pages < w
    PROVE  Pack(graph, w) = Pack(graph, NoWarning)
<1> DEFINE n == Len(graph.flows)
<1>1. n \in Nat /\ DOMAIN graph.flows = 1 .. n
  BY DEF IsGraph
<1>2. PICK h : PackHistory(h, graph, NoWarning) /\ Pack(graph, NoWarning) = h[n]
  BY PackIs
<1>3. PICK g : PackHistory(g, graph, w) /\ Pack(graph, w) = g[n]
  BY PackIs
<1> DEFINE Good == [k \in 0 .. n |-> w <= h[k].pages \/ g[k] = h[k]]
<1>4. \A k \in 0 .. n : h[k] \in Layouts /\ h[k].pages \in Nat /\ h[k].pages # 0
  BY <1>2, PackGoes, LayoutFields DEF Packing, Standing
<1>5. Good[0]
  <2>1. g[0] = h[0]
    BY <1>2, <1>3 DEF PackHistory
  <2>2. 0 \in 0 .. n
    BY <1>1
  <2>3. QED BY <2>1, <2>2
<1>6. ASSUME NEW k \in 1 .. n, Good[k - 1] PROVE Good[k]
  <2>1. k - 1 \in 0 .. n /\ k \in 0 .. n /\ k \in DOMAIN graph.flows
    BY <1>1
  <2>2. w <= h[k - 1].pages \/ g[k - 1] = h[k - 1]
    BY <1>6, <2>1
  <2>3. /\ h[k] = PackStep(h[k - 1], graph, k, NoWarning)
        /\ g[k] = PackStep(g[k - 1], graph, k, w)
    BY <1>2, <1>3 DEF PackHistory
  <2>4. /\ h[k - 1] \in Layouts /\ h[k - 1].pages \in Nat /\ h[k - 1].pages # 0
        /\ h[k].pages \in Nat
    BY <1>4, <2>1
  <2>5. w <= h[k].pages \/ g[k] = h[k]
    <3>1. CASE h[k - 1].error # "none"
      BY <2>2, <2>3, <3>1 DEF PackStep
    <3>2. CASE h[k - 1].error = "none"
      <4>1. h[k] = PlaceFlow(h[k - 1], graph, k, NoWarning)
        BY <2>3, <3>2 DEF PackStep
      <4>2. /\ h[k - 1].pages <= h[k].pages
            /\ w <= h[k].pages \/ PlaceFlow(h[k - 1], graph, k, w) = h[k]
        BY <2>1, <2>4, <4>1, PlaceFlowSame
      <4>3. g[k - 1] = h[k - 1] => g[k] = PlaceFlow(h[k - 1], graph, k, w)
        BY <2>3, <3>2 DEF PackStep
      <4>4. QED BY <2>2, <2>4, <4>2, <4>3
    <3>3. QED BY <3>1, <3>2
  <2>6. QED BY <2>1, <2>5
<1>7. Good[n]
  <2> HIDE DEF Good, n
  <2>1. \A k \in 0 .. n : Good[k]
    BY <1>1, <1>5, <1>6, StepsKeep
  <2>2. QED BY <1>1, <2>1
<1>8. n \in 0 .. n
  BY <1>1
<1>9. w <= h[n].pages \/ g[n] = h[n]
  <2> HIDE DEF n
  <2>1. QED BY <1>7, <1>8
<1>10. h[n].pages \in Nat
  <2> HIDE DEF n
  <2>1. QED BY <1>4, <1>8
<1>11. QED BY <1>2, <1>3, <1>9, <1>10

(* What is free below the blocks of the last page.                         *)
LEMMA FreeTopIs ==
    ASSUME NEW run \in Layouts
    PROVE  /\ FreeTop(run) \in Nat
           /\ \A i \in DOMAIN run.placed : run.placed[i].page = run.pages =>
                 run.placed[i].top + run.placed[i].height + BlockGap <= FreeTop(run)
           /\ \/ FreeTop(run) = Margin
              \/ \E i \in DOMAIN run.placed :
                    /\ run.placed[i].page = run.pages
                    /\ FreeTop(run) = run.placed[i].top + run.placed[i].height + BlockGap
<1> DEFINE T == Bottoms(run.placed, run.pages)
<1>1. /\ IsFiniteSet(T) /\ T \in SUBSET Nat
      /\ \A i \in DOMAIN run.placed : run.placed[i].page = run.pages =>
            run.placed[i].top + run.placed[i].height \in T
      /\ \A b \in T : \E i \in DOMAIN run.placed :
            run.placed[i].page = run.pages /\ b = run.placed[i].top + run.placed[i].height
  <2>1. run.placed \in Seq(PlacedLines)
    BY LayoutFields
  <2>2. QED BY <2>1, BottomsAre
<1>2. FreeTop(run) = IF T = {} THEN Margin ELSE Max(T) + BlockGap
  BY DEF FreeTop, Bottoms
<1> HIDE DEF T
<1>3. Margin \in Nat /\ BlockGap \in Nat
  BY PaginationAssumption
<1>4. CASE T = {}
  BY <1>1, <1>2, <1>3, <1>4
<1>5. CASE T # {}
  <2>1. Max(T) \in T /\ \A y \in T : y <= Max(T)
    BY <1>1, <1>5, FiniteMax
  <2>2. Max(T) \in Nat /\ FreeTop(run) = Max(T) + BlockGap
    BY <1>1, <1>2, <1>5, <2>1
  <2>3. PICK i \in DOMAIN run.placed :
            run.placed[i].page = run.pages /\ Max(T) = run.placed[i].top + run.placed[i].height
    BY <1>1, <2>1
  <2>4. ASSUME NEW j \in DOMAIN run.placed, run.placed[j].page = run.pages
        PROVE  run.placed[j].top + run.placed[j].height + BlockGap <= FreeTop(run)
    <3>1. run.placed[j].top + run.placed[j].height \in T
      BY <1>1, <2>4
    <3> DEFINE b == run.placed[j].top + run.placed[j].height
    <3>2. b \in Nat /\ b <= Max(T)
      BY <1>1, <2>1, <3>1
    <3> HIDE DEF b
    <3>3. b + BlockGap <= FreeTop(run)
      BY <1>3, <2>2, <3>2
    <3>4. QED BY <3>3 DEF b
  <2>5. FreeTop(run) = run.placed[i].top + run.placed[i].height + BlockGap
    BY <2>2, <2>3
  <2>6. QED BY <1>3, <2>2, <2>3, <2>4, <2>5
<1>6. QED BY <1>4, <1>5

(* The greatest of three numbers.                                          *)
LEMMA MaxOfThree ==
    ASSUME NEW a \in Nat, NEW b \in Nat, NEW c \in Nat
    PROVE  /\ Max({a, b, c}) \in {a, b, c}
           /\ a <= Max({a, b, c}) /\ b <= Max({a, b, c}) /\ c <= Max({a, b, c})
<1> DEFINE T == {a, b, c}
<1>1. T = {a} \cup ({b} \cup {c}) /\ T \in SUBSET Nat /\ T # {}
  OBVIOUS
<1>2. IsFiniteSet(T)
  <2>1. IsFiniteSet({a}) /\ IsFiniteSet({b}) /\ IsFiniteSet({c})
    BY FS_Singleton
  <2>2. IsFiniteSet({b} \cup {c})
    BY <2>1, FS_Union
  <2>3. IsFiniteSet({a} \cup ({b} \cup {c}))
    BY <2>1, <2>2, FS_Union
  <2>4. QED BY <1>1, <2>3
<1> HIDE DEF T
<1>3. Max(T) \in T /\ \A y \in T : y <= Max(T)
  BY <1>1, <1>2, FiniteMax
<1>4. QED BY <1>3 DEF T

(* The packed flows have come as far as flows come.                        *)
LEMMA PackPacks ==
    ASSUME NEW graph, IsGraph(graph), NEW w
    PROVE  Packing(Pack(graph, w), graph, Len(graph.flows), w)
<1>1. PICK h : PackHistory(h, graph, w) /\ Pack(graph, w) = h[Len(graph.flows)]
  BY PackIs
<1>2. Len(graph.flows) \in 0 .. Len(graph.flows)
  BY DEF IsGraph
<1>3. QED BY <1>1, <1>2, PackGoes

(* Pages are added to what is packed, or the layout is refused.            *)
LEMMA PaginateIs ==
    ASSUME NEW graph, IsGraph(graph), NEW sources \in Nat, NEW w \in Nat
    PROVE  LET run == Paginate(graph, sources, w)
               end == Pack(graph, w)
           IN  /\ run \in Layouts /\ end \in Layouts
               /\ run.error = "none" =>
                     /\ end.error = "none" /\ run.placed = end.placed
                     /\ run.pages \in {end.pages, sources, w}
                     /\ end.pages <= run.pages /\ sources <= run.pages /\ w <= run.pages
               /\ EverythingFits(graph) => run.error # "LayoutInfeasibleError"
<1> DEFINE run == Paginate(graph, sources, w)
           end == Pack(graph, w)
           wanted == Max({end.pages, sources, w})
           lines == SumFunction([f \in DOMAIN graph.flows |-> Len(graph.flows[f].heights)])
           many == lines > MaxLines
<1>1. end \in Layouts /\ (EverythingFits(graph) => end.error # "LayoutInfeasibleError")
  BY PackPacks DEF Packing, Standing
<1>2. run = IF many THEN [FirstPage EXCEPT !.error = "LayoutComplexityError"]
            ELSE IF end.error # "none" THEN end
            ELSE IF wanted > MaxPages THEN [end EXCEPT !.error = "LayoutComplexityError"]
            ELSE [end EXCEPT !.pages = wanted]
  BY DEF Paginate
<1> HIDE DEF end, many, run
<1>3. /\ wanted \in {end.pages, sources, w} /\ wanted \in Nat
      /\ end.pages <= wanted /\ sources <= wanted /\ w <= wanted
  <2>1. end.pages \in Nat
    BY <1>1, LayoutFields
  <2>2. QED BY <2>1, MaxOfThree
<1> HIDE DEF wanted
<1>4. "LayoutComplexityError" \in LayoutErrors
  BY DEF LayoutErrors
<1>5. CASE many
  <2>1. run = [FirstPage EXCEPT !.error = "LayoutComplexityError"]
    BY <1>2, <1>5
  <2>2. run \in Layouts /\ run.error = "LayoutComplexityError"
    BY <1>4, <2>1, FirstPageType DEF Layouts
  <2>3. QED BY <1>1, <2>2 DEF run, end
<1>6. CASE ~many /\ end.error # "none"
  BY <1>1, <1>2, <1>6 DEF run, end
<1>7. CASE ~many /\ end.error = "none" /\ wanted > MaxPages
  <2>1. run = [end EXCEPT !.error = "LayoutComplexityError"]
    BY <1>2, <1>7
  <2>2. run \in Layouts /\ run.error = "LayoutComplexityError"
    BY <1>1, <1>4, <2>1 DEF Layouts
  <2>3. QED BY <1>1, <2>2 DEF run, end
<1>8. CASE ~many /\ end.error = "none" /\ ~(wanted > MaxPages)
  <2>1. run = [end EXCEPT !.pages = wanted]
    BY <1>2, <1>8
  <2>2. run \in Layouts /\ run.error = "none" /\ run.placed = end.placed /\ run.pages = wanted
    BY <1>1, <1>3, <1>8, <2>1 DEF Layouts
  <2>3. QED BY <1>1, <1>3, <1>8, <2>2 DEF run, end
<1>9. QED BY <1>5, <1>6, <1>7, <1>8

(* The page of the statement: the last one of the packed flows and of the  *)
(* source, or the one behind it.                                           *)
PlainPages(graph, sources) ==
    IF Pack(graph, NoWarning).pages >= sources THEN Pack(graph, NoWarning).pages ELSE sources

(* The page behind it, if the flows and the statement do not fit both.     *)
WarningPage(graph, sources) ==
    LET last == PlainPages(graph, sources)
    IN  IF Pack(graph, last).pages <= last THEN last ELSE last + 1

(* The statement is on the last page.                                      *)
LEMMA WarningIsLast ==
    ASSUME NEW graph, IsGraph(graph), NEW sources \in Nat \ {0}
    PROVE  LET plain == Paginate(graph, sources, NoWarning)
               beside == Paginate(graph, sources, plain.pages)
               run == IF beside.error = "none" /\ beside.pages > plain.pages
                      THEN Paginate(graph, sources, plain.pages + 1) ELSE beside
               page == WarningPage(graph, sources)
           IN  /\ run \in Layouts /\ page \in Nat
               /\ EverythingFits(graph) =>
                     plain.error # "LayoutInfeasibleError" /\ run.error # "LayoutInfeasibleError"
               /\ plain.error = "none" /\ run.error = "none" =>
                     /\ run.pages = page
                     /\ sources <= page
                     /\ Pack(graph, page).error = "none"
                     /\ run.placed = Pack(graph, page).placed
                     /\ Pack(graph, page).pages <= page
<1> DEFINE plain == Paginate(graph, sources, NoWarning)
           beside == Paginate(graph, sources, plain.pages)
           more == Paginate(graph, sources, plain.pages + 1)
           behind == beside.error = "none" /\ beside.pages > plain.pages
           run == IF behind THEN more ELSE beside
           page == WarningPage(graph, sources)
           last == PlainPages(graph, sources)
           first == Pack(graph, NoWarning)
<1>1. NoWarning \in Nat /\ sources \in Nat
  BY DEF NoWarning
<1>2. /\ plain \in Layouts /\ first \in Layouts
      /\ EverythingFits(graph) => plain.error # "LayoutInfeasibleError"
      /\ plain.error = "none" =>
            /\ plain.pages \in {first.pages, sources, 0}
            /\ first.pages <= plain.pages /\ sources <= plain.pages
  BY <1>1, PaginateIs DEF NoWarning
<1>3. plain.pages \in Nat /\ first.pages \in Nat /\ plain.pages + 1 \in Nat
  BY <1>2, LayoutFields
<1>4. plain.error = "none" => plain.pages = last
  <2> HIDE DEF plain, first
  <2>1. last = IF first.pages >= sources THEN first.pages ELSE sources
    BY DEF PlainPages, first
  <2> HIDE DEF last
  <2>2. QED BY <1>2, <1>3, <2>1
<1>5. /\ beside \in Layouts /\ Pack(graph, plain.pages) \in Layouts
      /\ EverythingFits(graph) => beside.error # "LayoutInfeasibleError"
      /\ beside.error = "none" =>
            /\ Pack(graph, plain.pages).error = "none"
            /\ beside.placed = Pack(graph, plain.pages).placed
            /\ beside.pages \in {Pack(graph, plain.pages).pages, sources, plain.pages}
            /\ Pack(graph, plain.pages).pages <= beside.pages
            /\ sources <= beside.pages /\ plain.pages <= beside.pages
  <2> HIDE DEF plain
  <2>1. QED BY <1>1, <1>3, PaginateIs
<1>6. /\ more \in Layouts /\ Pack(graph, plain.pages + 1) \in Layouts
      /\ EverythingFits(graph) => more.error # "LayoutInfeasibleError"
      /\ more.error = "none" =>
            /\ Pack(graph, plain.pages + 1).error = "none"
            /\ more.placed = Pack(graph, plain.pages + 1).placed
            /\ more.pages \in {Pack(graph, plain.pages + 1).pages, sources, plain.pages + 1}
            /\ Pack(graph, plain.pages + 1).pages <= more.pages
            /\ sources <= more.pages /\ plain.pages + 1 <= more.pages
  <2> DEFINE next == plain.pages + 1
  <2>0. next \in Nat
    BY <1>3
  <2> HIDE DEF plain, next
  <2>1. /\ Paginate(graph, sources, next) \in Layouts /\ Pack(graph, next) \in Layouts
        /\ EverythingFits(graph) =>
               Paginate(graph, sources, next).error # "LayoutInfeasibleError"
        /\ Paginate(graph, sources, next).error = "none" =>
            /\ Pack(graph, next).error = "none"
            /\ Paginate(graph, sources, next).placed = Pack(graph, next).placed
            /\ Paginate(graph, sources, next).pages \in {Pack(graph, next).pages, sources, next}
            /\ Pack(graph, next).pages <= Paginate(graph, sources, next).pages
            /\ sources <= Paginate(graph, sources, next).pages
            /\ next <= Paginate(graph, sources, next).pages
    BY <1>1, <2>0, PaginateIs
  <2>2. QED BY <2>1 DEF next
<1>7. /\ beside.pages \in Nat /\ more.pages \in Nat
      /\ Pack(graph, plain.pages).pages \in Nat /\ Pack(graph, plain.pages + 1).pages \in Nat
  BY <1>5, <1>6, LayoutFields
<1>8. plain.error = "none" => Pack(graph, plain.pages + 1) = first
  <2> DEFINE next == plain.pages + 1
  <2>1. next \in Nat /\ (plain.error = "none" => first.pages < next)
    BY <1>2, <1>3
  <2> HIDE DEF next
  <2>2. plain.error = "none" => Pack(graph, next) = first
    BY <2>1, PackSame
  <2>3. QED BY <2>2 DEF next
<1>9. page = IF Pack(graph, last).pages <= last THEN last ELSE last + 1
  BY DEF WarningPage
<1>10. last \in Nat
  BY <1>1, <1>3 DEF PlainPages
<1>11. Pack(graph, last).pages \in Nat
  BY PackPacks, LayoutFields DEF Packing, Standing
<1>12. page \in Nat
  BY <1>9, <1>10
<1>13. run \in Layouts /\ (EverythingFits(graph) => run.error # "LayoutInfeasibleError")
  BY <1>5, <1>6
<1> HIDE DEF plain, first, beside, more, page, last
<1>14. ASSUME plain.error = "none", run.error = "none"
       PROVE  /\ run.pages = page
              /\ sources <= page
              /\ Pack(graph, page).error = "none"
              /\ run.placed = Pack(graph, page).placed
              /\ Pack(graph, page).pages <= page
  <2>1. plain.pages = last
    BY <1>4, <1>14
  <2>2. CASE behind
    <3>1. Pack(graph, last).pages > last
      BY <1>2, <1>3, <1>5, <1>7, <1>14, <2>1, <2>2
    <3>2. page = last + 1
      BY <1>9, <1>10, <1>11, <3>1
    <3>3. more.error = "none" /\ run = more
      BY <1>14, <2>2
    <3>4. Pack(graph, page).pages <= last /\ sources <= last
      BY <1>2, <1>8, <1>14, <2>1, <3>2
    <3>5. /\ Pack(graph, page).error = "none"
          /\ more.placed = Pack(graph, page).placed
          /\ more.pages \in {Pack(graph, page).pages, sources, page}
          /\ page <= more.pages
      BY <1>6, <2>1, <3>2, <3>3
    <3>6. Pack(graph, page).pages \in Nat
      BY <1>7, <2>1, <3>2
    <3>7. QED BY <1>1, <1>10, <3>2, <3>3, <3>4, <3>5, <3>6
  <2>3. CASE ~behind
    <3>1. run = beside /\ beside.error = "none" /\ beside.pages <= last
      BY <1>3, <1>7, <1>14, <2>1, <2>3
    <3>2. /\ Pack(graph, last).error = "none"
          /\ beside.placed = Pack(graph, last).placed
          /\ Pack(graph, last).pages <= beside.pages
          /\ sources <= beside.pages /\ last <= beside.pages
      BY <1>5, <2>1, <3>1
    <3>3. page = last
      BY <1>7, <1>9, <1>10, <1>11, <3>1, <3>2
    <3>4. QED BY <1>1, <1>7, <1>10, <1>11, <3>1, <3>2, <3>3
  <2>4. QED BY <2>2, <2>3
<1>15. QED BY <1>2, <1>12, <1>13, <1>14 DEF plain, beside, more, page

(* What is free on the last page has room for the statement, or the layout *)
(* is refused; when everything fits, it has.                               *)
LEMMA WarnedIs ==
    ASSUME NEW graph, IsGraph(graph), NEW sources \in Nat \ {0}
    PROVE  LET run == PagesWithWarning(graph, sources)
               page == WarningPage(graph, sources)
           IN  /\ run \in Layouts /\ page \in Nat
               /\ EverythingFits(graph) => run.error # "LayoutInfeasibleError"
               /\ run.error = "none" =>
                     /\ run.pages = page
                     /\ sources <= page
                     /\ Pack(graph, page).error = "none"
                     /\ run.placed = Pack(graph, page).placed
                     /\ Pack(graph, page).pages <= page
                     /\ PageHeight - Margin - FreeTop(run) >= graph.warning
<1> DEFINE plain == Paginate(graph, sources, NoWarning)
           beside == Paginate(graph, sources, plain.pages)
           run == IF beside.error = "none" /\ beside.pages > plain.pages
                  THEN Paginate(graph, sources, plain.pages + 1) ELSE beside
           page == WarningPage(graph, sources)
           room == PageHeight - Margin - FreeTop(run) >= graph.warning
           warned == PagesWithWarning(graph, sources)
<1>1. /\ run \in Layouts /\ page \in Nat
      /\ EverythingFits(graph) =>
            plain.error # "LayoutInfeasibleError" /\ run.error # "LayoutInfeasibleError"
      /\ plain.error = "none" /\ run.error = "none" =>
            /\ run.pages = page
            /\ sources <= page
            /\ Pack(graph, page).error = "none"
            /\ run.placed = Pack(graph, page).placed
            /\ Pack(graph, page).pages <= page
  BY WarningIsLast
<1>2. plain \in Layouts
  BY PaginateIs DEF NoWarning
<1>3. warned = IF plain.error # "none" THEN plain
               ELSE IF run.error # "none" \/ room THEN run
               ELSE [run EXCEPT !.error = "LayoutInfeasibleError"]
  BY DEF PagesWithWarning
<1> HIDE DEF plain, run, page, warned
<1>4. ASSUME EverythingFits(graph), plain.error = "none", run.error = "none"
      PROVE  room
  <2>1. Standing(Pack(graph, page), graph, page)
    BY PackPacks DEF Packing
  <2>2. /\ FreeTop(run) \in Nat
        /\ \/ FreeTop(run) = Margin
           \/ \E i \in DOMAIN run.placed :
                 /\ run.placed[i].page = run.pages
                 /\ FreeTop(run) = run.placed[i].top + run.placed[i].height + BlockGap
    BY <1>1, FreeTopIs
  <2>3. graph.warning \in Nat /\ graph.warning <= PageHeight - 2 * Margin
    BY <1>4 DEF EverythingFits, IsGraph
  <2>4. CASE FreeTop(run) = Margin
    BY <2>2, <2>3, <2>4, PaginationAssumption
  <2>5. ASSUME NEW i \in DOMAIN run.placed, run.placed[i].page = run.pages,
               FreeTop(run) = run.placed[i].top + run.placed[i].height + BlockGap
        PROVE  room
    <3>1. InColumn(run.placed[i], graph, page)
      BY <1>1, <1>4, <2>1 DEF Standing
    <3> DEFINE bottom == run.placed[i].top + run.placed[i].height
    <3>2. bottom \in Nat
      BY <3>1, LineFields DEF InColumn
    <3>3. bottom <= PageHeight - Margin - (graph.warning + BlockGap)
      BY <1>1, <1>4, <2>5, <3>1 DEF InColumn, Bottom
    <3>4. FreeTop(run) = bottom + BlockGap
      BY <2>5
    <3> HIDE DEF bottom
    <3>5. QED BY <2>3, <3>2, <3>3, <3>4, PaginationAssumption
  <2>6. QED BY <2>2, <2>4, <2>5
<1> HIDE DEF room
<1>5. CASE plain.error = "none" /\ run.error = "none" /\ ~room
  <2>1. warned = [run EXCEPT !.error = "LayoutInfeasibleError"]
    BY <1>3, <1>5
  <2>2. warned \in Layouts /\ warned.error = "LayoutInfeasibleError"
    BY <1>1, <2>1 DEF Layouts, LayoutErrors
  <2>3. QED BY <1>1, <1>4, <1>5, <2>2 DEF warned, page
<1>6. CASE plain.error # "none"
  BY <1>1, <1>2, <1>3, <1>6 DEF warned, page
<1>7. CASE plain.error = "none" /\ run.error # "none"
  BY <1>1, <1>3, <1>7 DEF warned, page
<1>8. CASE plain.error = "none" /\ run.error = "none" /\ room
  <2>1. warned = run
    BY <1>3, <1>8
  <2>2. PageHeight - Margin - FreeTop(warned) >= graph.warning
    BY <1>8, <2>1 DEF room
  <2>3. QED BY <1>1, <1>8, <2>1, <2>2 DEF warned, page
<1>9. QED BY <1>5, <1>6, <1>7, <1>8

(* A source of one page needs no more pages than this one.                 *)
LEMMA FewerPages ==
    ASSUME NEW graph, IsGraph(graph), NEW sources \in Nat \ {0}
    PROVE  WarningPage(graph, sources) >= sources =>
               WarningPage(graph, 1) <= WarningPage(graph, sources)
<1> DEFINE first == Pack(graph, NoWarning).pages
           one == PlainPages(graph, 1)
           all == PlainPages(graph, sources)
<1>1. first \in Nat /\ first # 0
  BY PackPacks, LayoutFields DEF Packing, Standing
<1>2. one = first /\ all = IF first >= sources THEN first ELSE sources
  BY <1>1 DEF PlainPages
<1>3. /\ WarningPage(graph, 1) = IF Pack(graph, one).pages <= one THEN one ELSE one + 1
      /\ WarningPage(graph, sources) = IF Pack(graph, all).pages <= all THEN all ELSE all + 1
  BY DEF WarningPage
<1> HIDE DEF first, one, all
<1>4. CASE first >= sources
  <2>1. all = one
    BY <1>2, <1>4
  <2>2. WarningPage(graph, 1) = WarningPage(graph, sources)
    BY <1>3, <2>1
  <2>3. WarningPage(graph, 1) \in Nat
    BY WarningIsLast
  <2>4. QED BY <2>2, <2>3
<1>5. CASE ~(first >= sources)
  BY <1>1, <1>2, <1>3, <1>5
<1>6. QED BY <1>4, <1>5

(* What is packed is in order, in reading order, inside the pages, and     *)
(* nothing overlaps.                                                       *)
LEMMA PackedIsSound ==
    ASSUME NEW graph, IsGraph(graph), NEW w, NEW end, Packing(end, graph, Len(graph.flows), w),
           end.error = "none",
           NEW layout, layout.placed = end.placed, layout.pages \in Nat,
           end.pages <= layout.pages
    PROVE  /\ PlacedInOrder(graph, layout)
           /\ NothingOverlaps(layout)
           /\ InsidePages(layout)
           /\ ReadInOrder(layout)
<1>1. end \in Layouts /\ Standing(end, graph, w)
  BY DEF Packing, Standing
<1>2. Contents(end.placed, graph, Len(graph.flows) + 1, 0)
  BY DEF Packing
<1>3. /\ end.pages \in Nat /\ DOMAIN layout.placed = DOMAIN end.placed
      /\ \A i \in DOMAIN layout.placed :
            layout.placed[i] \in PlacedLines /\ layout.placed[i] = end.placed[i]
  BY <1>1, LayoutFields
<1>4. /\ \A i \in DOMAIN layout.placed :
            Behind(end, layout.placed[i]) /\ InColumn(layout.placed[i], graph, w)
      /\ \A i, j \in DOMAIN layout.placed :
            i < j => Before(layout.placed[i], layout.placed[j])
  BY <1>1, <1>3, SMTT(30) DEF Standing
<1>5. PlacedInOrder(graph, layout)
  <2>1. ASSUME NEW f \in DOMAIN graph.flows, NEW k \in DOMAIN graph.flows[f].heights
        PROVE  \E i \in DOMAIN layout.placed :
                   layout.placed[i].flow = f /\ layout.placed[i].line = k
    <3>1. f < Len(graph.flows) + 1
      BY DEF IsGraph
    <3>2. QED BY <1>2, <1>3, <3>1 DEF Contents
  <2>2. ASSUME NEW i \in DOMAIN layout.placed
        PROVE  LET l == layout.placed[i]
               IN  /\ l.flow \in DOMAIN graph.flows
                   /\ l.line \in DOMAIN graph.flows[l.flow].heights
                   /\ l.height = graph.flows[l.flow].heights[l.line]
    BY <1>2, <1>3 DEF Contents, Genuine
  <2>3. ASSUME NEW i \in DOMAIN layout.placed, NEW j \in DOMAIN layout.placed, i < j
        PROVE  \/ layout.placed[i].flow < layout.placed[j].flow
               \/ /\ layout.placed[i].flow = layout.placed[j].flow
                  /\ layout.placed[i].line < layout.placed[j].line
    BY <1>2, <1>3, <2>3 DEF Contents, Earlier
  <2>4. QED BY <2>1, <2>2, <2>3 DEF PlacedInOrder
<1>6. ASSUME NEW i \in DOMAIN layout.placed, NEW j \in DOMAIN layout.placed, i < j
      PROVE  LET a == layout.placed[i]
                 b == layout.placed[j]
             IN  /\ ~Overlap(a, b)
                 /\ \/ a.page < b.page
                    \/ a.page = b.page /\ a.columns = 2 /\ b.columns = 2 /\ a.column < b.column
                    \/ a.page = b.page /\ a.top < b.top
  <2> DEFINE a == layout.placed[i]
             b == layout.placed[j]
  <2>1. a \in PlacedLines /\ b \in PlacedLines /\ Before(a, b) /\ 0 < a.height
    BY <1>3, <1>4, <1>6 DEF InColumn
  <2> HIDE DEF a, b
  <2>2. /\ a.page \in Nat /\ b.page \in Nat /\ a.column \in {0, 1} /\ b.column \in {0, 1}
        /\ a.columns \in {1, 2} /\ b.columns \in {1, 2} /\ a.top \in Nat /\ b.top \in Nat
        /\ a.height \in Nat /\ b.height \in Nat
    BY <2>1, LineFields
  <2>3. ~Overlap(a, b)
    BY <2>1, <2>2 DEF Before, Overlap
  <2>4. \/ a.page < b.page
        \/ a.page = b.page /\ a.columns = 2 /\ b.columns = 2 /\ a.column < b.column
        \/ a.page = b.page /\ a.top < b.top
    BY <2>1, <2>2 DEF Before
  <2>5. QED BY <2>3, <2>4 DEF a, b
<1>7. ASSUME NEW i \in DOMAIN layout.placed
      PROVE  LET l == layout.placed[i]
             IN  /\ l.page <= layout.pages
                 /\ l.top >= Margin
                 /\ l.top + l.height <= PageHeight - Margin
  <2> DEFINE l == layout.placed[i]
  <2>1. l \in PlacedLines /\ Behind(end, l) /\ InColumn(l, graph, w)
    BY <1>3, <1>4
  <2> HIDE DEF l
  <2>2. l.page \in Nat /\ l.top \in Nat /\ l.height \in Nat
    BY <2>1, LineFields
  <2>3. l.page <= end.pages
    BY <1>3, <2>1, <2>2 DEF Behind
  <2>4. Bottom(graph, l.page, w) \in Int /\ Bottom(graph, l.page, w) <= PageHeight - Margin
    BY BottomType
  <2>5. l.top + l.height <= PageHeight - Margin
    BY <2>1, <2>2, <2>4, PaginationAssumption DEF InColumn
  <2>6. l.page <= layout.pages /\ l.top >= Margin
    BY <1>3, <2>1, <2>2, <2>3, PaginationAssumption DEF InColumn
  <2>7. QED BY <2>5, <2>6 DEF l
<1>8. QED BY <1>5, <1>6, <1>7 DEF NothingOverlaps, InsidePages, ReadInOrder

(* Partial sums of numbers only grow.                                      *)
LEMMA SumsGrow ==
    ASSUME NEW n \in Nat, NEW p \in [0 .. n -> Nat], \A k \in 1 .. n : p[k - 1] <= p[k]
    PROVE  \A k \in 0 .. n : \A i \in 0 .. k : p[i] <= p[k]
<1> DEFINE Good == [k \in 0 .. n |-> \A i \in 0 .. k : p[i] <= p[k]]
<1>1. Good[0]
  <2>1. 0 \in 0 .. n /\ p[0] \in Nat
    OBVIOUS
  <2>2. \A i \in 0 .. 0 : i = 0
    OBVIOUS
  <2>3. QED BY <2>1, <2>2
<1>2. ASSUME NEW k \in 1 .. n, Good[k - 1] PROVE Good[k]
  <2>1. k - 1 \in 0 .. n /\ k \in 0 .. n /\ k \in Nat
    OBVIOUS
  <2>2. \A i \in 0 .. k - 1 : p[i] <= p[k - 1]
    BY <1>2, <2>1
  <2>3. ASSUME NEW i \in 0 .. k PROVE p[i] <= p[k]
    <3>1. p[i] \in Nat /\ p[k - 1] \in Nat /\ p[k] \in Nat /\ p[k - 1] <= p[k]
      BY <2>1
    <3>2. CASE i = k
      BY <3>1, <3>2
    <3>3. CASE i \in 0 .. k - 1
      BY <2>2, <3>1, <3>3
    <3>4. QED BY <2>1, <3>2, <3>3
  <2>4. QED BY <2>1, <2>3
<1>3. \A k \in 0 .. n : Good[k]
  <2> HIDE DEF Good
  <2>1. QED BY <1>1, <1>2, StepsKeep
<1>4. QED BY <1>3

(* The partial heights of lines only grow.                                 *)
LEMMA HeightsGrow ==
    ASSUME NEW lines \in Seq(Nat), NEW p, Heights(p, lines)
    PROVE  /\ \A k \in 0 .. Len(lines) : p[k] \in Nat
           /\ \A k \in 0 .. Len(lines) : \A i \in 0 .. k : p[i] <= p[k]
<1> DEFINE n == Len(lines)
<1>1. n \in Nat /\ p \in [0 .. n -> Nat] /\ \A k \in 1 .. n : lines[k] \in Nat
  BY DEF Heights
<1>2. ASSUME NEW k \in 1 .. n PROVE p[k - 1] <= p[k]
  <2>1. k - 1 \in 0 .. n
    BY <1>1
  <2>2. p[k - 1] \in Nat /\ lines[k] \in Nat /\ p[k] = p[k - 1] + lines[k]
    BY <1>1, <2>1 DEF Heights
  <2>3. QED BY <2>2
<1> HIDE DEF n
<1>3. \A k \in 0 .. n : \A i \in 0 .. k : p[i] <= p[k]
  BY <1>1, <1>2, SumsGrow
<1>4. QED BY <1>1, <1>3 DEF n

(* Where the lines end that a heading is kept with.                        *)
WindowOf(graph, f, first) == first + Len(graph.flows[f].heights) + HeadingWithNext

(* The lines of a flow that may be kept with the heading of flow f.        *)
Suits(graph, f, g) ==
    \/ g = f
    \/ graph.flows[g].role # "heading" /\ graph.flows[g].columns = graph.flows[f].columns

(* The heading has its room in its column and only suitable lines behind it. *)
Wanted(placed, graph, f, first, w) ==
    /\ \A i \in DOMAIN placed :
          first < i /\ i < WindowOf(graph, f, first) => Suits(graph, f, placed[i].flow)
    /\ Reserve(graph, f) <= Bottom(graph, placed[first].page, w) - Margin

(* The lines that a heading is kept with are in its column.                *)
InOnePlace(placed, graph, f, first) ==
    \A i \in DOMAIN placed :
        first < i /\ i < WindowOf(graph, f, first) =>
            placed[i].page = placed[first].page /\ placed[i].column = placed[first].column

(* What is left of the reserve is free in the column of the heading.       *)
OnTrack(s, graph, f, first, w, used) ==
    /\ s.pages = s.placed[first].page /\ s.column = s.placed[first].column
    /\ s.columns = graph.flows[f].columns
    /\ s.top + Reserve(graph, f) <= Bottom(graph, s.pages, w) + used

(* The next line is one of those the heading is kept with.                 *)
Open(placed, graph, f, first) == Len(placed) + 1 < WindowOf(graph, f, first)

(* The heading is placed, and if it can be kept with its lines it is.      *)
Keeping(s, graph, f, first, w, used, suit) ==
    /\ first \in DOMAIN s.placed
    /\ s.placed[first].flow = f /\ s.placed[first].line = 1
    /\ Wanted(s.placed, graph, f, first, w) =>
          /\ InOnePlace(s.placed, graph, f, first)
          /\ Open(s.placed, graph, f, first) /\ suit =>
                OnTrack(s, graph, f, first, w, used)

(* A line is placed or there is an error.                                  *)
LEMMA LinePlaced ==
    ASSUME NEW s \in Layouts, NEW graph, IsGraph(graph), NEW f \in DOMAIN graph.flows,
           NEW k \in DOMAIN graph.flows[f].heights, NEW w,
           PlaceLine(s, graph, f, k, w).error = "none"
    PROVE  LET m == Settled(s, graph, f, k, w)
               r == PlaceLine(s, graph, f, k, w)
               line == LineAt(m, graph, f, k)
           IN  /\ s.error = "none" /\ m.error = "none" /\ m \in Layouts
               /\ r.pages = m.pages /\ r.column = m.column /\ r.columns = s.columns
               /\ r.placed = Append(s.placed, line)
               /\ r.top = m.top + graph.flows[f].heights[k]
               /\ line \in PlacedLines /\ line.flow = f /\ line.line = k
               /\ line.page = m.pages /\ line.column = m.column
               /\ line.height = graph.flows[f].heights[k]
               /\ s.placed \in Seq(PlacedLines)
<1> DEFINE m == Settled(s, graph, f, k, w)
           r == PlaceLine(s, graph, f, k, w)
           line == LineAt(m, graph, f, k)
<1>1. m \in Layouts
  BY SettledIs
<1>2. /\ line \in PlacedLines /\ line.flow = f /\ line.line = k
      /\ line.page = m.pages /\ line.column = m.column
      /\ line.height = graph.flows[f].heights[k]
  BY <1>1, LineAtIs
<1>3. /\ r.pages = m.pages /\ r.column = m.column /\ r.columns = s.columns
      /\ m.error = "none" /\ r.placed = Append(s.placed, line) /\ r.top = m.top + line.height
  BY PlaceLineDoes
<1>4. s.error = "none"
  BY <1>3, SettledError
<1>5. s.placed \in Seq(PlacedLines)
  BY LayoutFields
<1>6. QED BY <1>1, <1>2, <1>3, <1>4, <1>5

(* The first line of a heading that has its room in a column goes where    *)
(* the rest of it has its room too.                                        *)
LEMMA HeadingStarts ==
    ASSUME NEW s \in Layouts, NEW graph, IsGraph(graph), NEW f \in DOMAIN graph.flows,
           1 \in DOMAIN graph.flows[f].heights, NEW w,
           graph.flows[f].role = "heading", s.columns = graph.flows[f].columns,
           PlaceLine(s, graph, f, 1, w).error = "none"
    PROVE  Keeping(PlaceLine(s, graph, f, 1, w), graph, f, Len(s.placed) + 1, w,
                   graph.flows[f].heights[1], TRUE)
<1> DEFINE m == Settled(s, graph, f, 1, w)
           r == PlaceLine(s, graph, f, 1, w)
           line == LineAt(m, graph, f, 1)
           height == graph.flows[f].heights[1]
           first == Len(s.placed) + 1
           bottom == Bottom(graph, m.pages, w)
<1>1. /\ m.error = "none" /\ m \in Layouts
      /\ r.pages = m.pages /\ r.column = m.column /\ r.columns = s.columns
      /\ r.placed = Append(s.placed, line) /\ r.top = m.top + height
      /\ line.flow = f /\ line.line = 1 /\ line.page = m.pages /\ line.column = m.column
      /\ s.placed \in Seq(PlacedLines)
  BY LinePlaced
<1>2. ~MustMove(m, graph, f, 1, w)
  BY SettledDecides
<1>3. /\ Reserve(graph, f) \in Nat /\ bottom \in Int /\ Margin \in Nat /\ height \in Nat
      /\ m.top \in Nat
  BY <1>1, ReserveType, BottomType, FlowsAre, LayoutFields, PaginationAssumption
<1>4. Reserve(graph, f) <= bottom - Margin => m.top + Reserve(graph, f) <= bottom
  <2>1. ~(Reserve(graph, f) <= bottom - Margin /\ m.top + Reserve(graph, f) > bottom)
    BY <1>1, <1>2 DEF MustMove
  <2> HIDE DEF m, bottom
  <2>2. QED BY <1>3, <2>1
<1> HIDE DEF m, line, height, bottom, r
<1>5. /\ first \in DOMAIN r.placed /\ r.placed[first] = line /\ first \in Nat
      /\ \A i \in DOMAIN r.placed : ~(first < i)
  <2>1. DOMAIN r.placed = 1 .. Len(s.placed) + 1
    BY <1>1
  <2>2. QED BY <1>1, <2>1
<1> HIDE DEF first
<1>6. InOnePlace(r.placed, graph, f, first)
  BY <1>5 DEF InOnePlace
<1>7. ASSUME Wanted(r.placed, graph, f, first, w)
      PROVE  OnTrack(r, graph, f, first, w, height)
  <2>1. Reserve(graph, f) <= bottom - Margin
    BY <1>1, <1>5, <1>7 DEF Wanted, bottom
  <2>2. r.top + Reserve(graph, f) <= bottom + height
    BY <1>1, <1>3, <1>4, <2>1
  <2>3. Bottom(graph, r.pages, w) = bottom
    BY <1>1 DEF bottom
  <2>4. QED BY <1>1, <1>5, <2>2, <2>3 DEF OnTrack
<1>8. Keeping(r, graph, f, first, w, height, TRUE)
  BY <1>1, <1>5, <1>6, <1>7 DEF Keeping
<1>9. QED BY <1>8 DEF r, first, height

(* The next line stays with the heading as long as it is one of the lines  *)
(* that the heading is kept with.                                          *)
LEMMA LineKept ==
    ASSUME NEW s \in Layouts, NEW graph, IsGraph(graph), NEW f \in DOMAIN graph.flows,
           NEW g \in DOMAIN graph.flows, NEW k \in DOMAIN graph.flows[g].heights, NEW w,
           g # f \/ k # 1,
           s.columns = graph.flows[g].columns,
           PlaceLine(s, graph, g, k, w).error = "none",
           NEW first \in Nat, NEW used \in Nat,
           Keeping(s, graph, f, first, w, used, Suits(graph, f, g)),
           Open(s.placed, graph, f, first) =>
               used + graph.flows[g].heights[k] <= Reserve(graph, f)
    PROVE  Keeping(PlaceLine(s, graph, g, k, w), graph, f, first, w,
                   used + graph.flows[g].heights[k], TRUE)
<1> DEFINE m == Settled(s, graph, g, k, w)
           r == PlaceLine(s, graph, g, k, w)
           line == LineAt(m, graph, g, k)
           height == graph.flows[g].heights[k]
           window == WindowOf(graph, f, first)
           n == Len(s.placed)
<1>1. /\ m.error = "none" /\ s.error = "none" /\ m \in Layouts
      /\ r.pages = m.pages /\ r.column = m.column /\ r.columns = s.columns
      /\ r.placed = Append(s.placed, line) /\ r.top = m.top + height
      /\ line.flow = g /\ line.page = m.pages /\ line.column = m.column
      /\ s.placed \in Seq(PlacedLines)
  BY LinePlaced
<1>2. /\ n \in Nat /\ DOMAIN s.placed = 1 .. n /\ DOMAIN r.placed = 1 .. n + 1
      /\ r.placed[n + 1] = line /\ Len(r.placed) = n + 1
      /\ \A i \in 1 .. n : r.placed[i] = s.placed[i]
  <2> HIDE DEF m, line, r
  <2>1. QED BY <1>1
<1>3. window \in Nat
  <2>1. graph.flows[f].heights \in Seq(Nat \ {0})
    BY FlowsAre
  <2>2. QED BY <2>1, PaginationAssumption, SMTT(30) DEF WindowOf
<1>4. /\ height \in Nat /\ Reserve(graph, f) \in Nat /\ s.top \in Nat
      /\ Bottom(graph, s.pages, w) \in Int
  BY FlowsAre, ReserveType, LayoutFields, BottomType, SMTT(30)
<1>5. /\ first \in 1 .. n /\ s.placed[first].flow = f /\ s.placed[first].line = 1
      /\ r.placed[first] = s.placed[first]
  BY <1>2 DEF Keeping
<1> HIDE DEF r, line, height, window, n
<1>6. ASSUME Wanted(r.placed, graph, f, first, w)
      PROVE  /\ InOnePlace(r.placed, graph, f, first)
             /\ Open(r.placed, graph, f, first) =>
                    OnTrack(r, graph, f, first, w, used + height)
  <2>1. Wanted(s.placed, graph, f, first, w)
    BY <1>2, <1>5, <1>6 DEF Wanted
  <2>2. InOnePlace(s.placed, graph, f, first)
    BY <2>1 DEF Keeping
  <2>3. CASE n + 1 < window
    <3>1. Open(s.placed, graph, f, first)
      BY <2>3 DEF Open, window, n
    <3>2. Suits(graph, f, g)
      <4>1. n + 1 \in DOMAIN r.placed /\ first < n + 1
        BY <1>2, <1>5
      <4>2. Suits(graph, f, r.placed[n + 1].flow)
        BY <1>6, <2>3, <4>1 DEF Wanted, window
      <4>3. QED BY <1>1, <1>2, <4>2
    <3>3. OnTrack(s, graph, f, first, w, used)
      BY <2>1, <3>1, <3>2 DEF Keeping
    <3>4. s.top + height <= Bottom(graph, s.pages, w)
      <4>1. used + height <= Reserve(graph, f)
        BY <3>1 DEF height
      <4>2. QED BY <1>4, <3>3, <4>1 DEF OnTrack
    <3>5. ~MustMove(s, graph, g, k, w)
      <4>1. ~(graph.flows[g].role = "heading" /\ k = 1)
        BY <3>2 DEF Suits
      <4>2. ~(s.top + height > Bottom(graph, s.pages, w))
        BY <1>4, <3>4
      <4>3. QED BY <4>1, <4>2 DEF MustMove, height
    <3>6. m = s
      BY <3>5 DEF Settled, Moved
    <3>7. InOnePlace(r.placed, graph, f, first)
      <4> SUFFICES ASSUME NEW i \in DOMAIN r.placed, first < i, i < WindowOf(graph, f, first)
                   PROVE  /\ r.placed[i].page = r.placed[first].page
                          /\ r.placed[i].column = r.placed[first].column
        BY DEF InOnePlace
      <4>1. CASE i \in 1 .. n
        BY <1>2, <1>5, <2>2, <4>1 DEF InOnePlace
      <4>2. CASE i = n + 1
        BY <1>1, <1>2, <1>5, <3>3, <3>6, <4>2 DEF OnTrack
      <4>3. QED BY <1>2, <4>1, <4>2
    <3>8. OnTrack(r, graph, f, first, w, used + height)
      <4>1. r.top = s.top + height /\ r.pages = s.pages /\ r.column = s.column
        BY <1>1, <3>6
      <4>2. s.top + height + Reserve(graph, f) <= Bottom(graph, s.pages, w) + (used + height)
        BY <1>4, <3>3 DEF OnTrack
      <4>3. QED BY <1>1, <1>5, <3>3, <4>1, <4>2 DEF OnTrack
    <3>9. QED BY <3>7, <3>8
  <2>4. CASE ~(n + 1 < window)
    <3>1. ~Open(r.placed, graph, f, first)
      BY <1>2, <1>3, <2>4 DEF Open, window
    <3>2. InOnePlace(r.placed, graph, f, first)
      <4> SUFFICES ASSUME NEW i \in DOMAIN r.placed, first < i, i < WindowOf(graph, f, first)
                   PROVE  /\ r.placed[i].page = r.placed[first].page
                          /\ r.placed[i].column = r.placed[first].column
        BY DEF InOnePlace
      <4>1. i \in 1 .. n
        BY <1>2, <2>4 DEF window
      <4>2. QED BY <1>2, <1>5, <2>2, <4>1 DEF InOnePlace
    <3>3. QED BY <3>1, <3>2
  <2>5. QED BY <2>3, <2>4
<1>7. Keeping(r, graph, f, first, w, used + height, TRUE)
  BY <1>2, <1>5, <1>6 DEF Keeping
<1>8. QED BY <1>7 DEF r, height

(* The gap before a flow is part of the reserve.                           *)
LEMMA FlowKept ==
    ASSUME NEW s \in Layouts, NEW graph, IsGraph(graph), NEW f \in DOMAIN graph.flows,
           NEW g \in DOMAIN graph.flows, g # f, NEW w, NEW first \in Nat, NEW used \in Nat,
           Keeping(s, graph, f, first, w, used, TRUE)
    PROVE  /\ Keeping(BeginFlow(s, graph, g), graph, f, first, w,
                      used + GapBefore(graph, g), Suits(graph, f, g))
           /\ BeginFlow(s, graph, g).placed = s.placed
           /\ BeginFlow(s, graph, g).error = s.error
<1> DEFINE b == BeginFlow(s, graph, g)
           gap == GapBefore(graph, g)
<1>1. /\ b.placed = s.placed /\ b.error = s.error /\ b.pages = s.pages
      /\ graph.flows[g].columns = s.columns =>
            b.column = s.column /\ b.columns = s.columns /\ b.top = s.top + gap
  BY BeginFlowDoes
<1>2. /\ gap \in Nat /\ s.top \in Nat /\ Reserve(graph, f) \in Nat
      /\ Bottom(graph, s.pages, w) \in Int
  BY FlowsAre, ReserveType, LayoutFields, BottomType
<1> HIDE DEF b, gap
<1>3. b.placed = s.placed /\ b.error = s.error
  BY <1>1
<1>4. ASSUME OnTrack(s, graph, f, first, w, used), Suits(graph, f, g)
      PROVE  OnTrack(b, graph, f, first, w, used + gap)
  <2>1. s.columns = graph.flows[g].columns
    BY <1>4 DEF OnTrack, Suits
  <2>2. b.pages = s.pages /\ b.column = s.column /\ b.columns = s.columns /\ b.top = s.top + gap
    BY <1>1, <2>1
  <2>3. s.top + gap + Reserve(graph, f) <= Bottom(graph, s.pages, w) + (used + gap)
    BY <1>2, <1>4 DEF OnTrack
  <2>4. QED BY <1>3, <1>4, <2>2, <2>3 DEF OnTrack
<1>5. Keeping(b, graph, f, first, w, used + gap, Suits(graph, f, g))
  BY <1>3, <1>4 DEF Keeping
<1>6. QED BY <1>3, <1>5 DEF b, gap

(* The lines of a heading are kept together.                               *)
LEMMA HeadingFlow ==
    ASSUME NEW graph, IsGraph(graph), NEW f \in DOMAIN graph.flows, NEW w, NEW s,
           graph.flows[f].role = "heading",
           Packing(s, graph, f - 1, w), s.error = "none",
           PlaceFlow(s, graph, f, w).error = "none",
           TotalHeight(graph.flows[f].heights) <= Reserve(graph, f)
    PROVE  LET end == PlaceFlow(s, graph, f, w)
           IN  /\ Keeping(end, graph, f, Len(s.placed) + 1, w,
                          TotalHeight(graph.flows[f].heights), TRUE)
               /\ Len(end.placed) = Len(s.placed) + Len(graph.flows[f].heights)
<1> DEFINE lines == graph.flows[f].heights
           n == Len(lines)
           first == Len(s.placed) + 1
<1>1. /\ lines \in Seq(Nat) /\ lines # <<>> /\ n \in Nat /\ DOMAIN lines = 1 .. n
      /\ 1 \in DOMAIN lines
  <2>1. lines \in Seq(Nat \ {0}) /\ lines # <<>>
    BY FlowsAre
  <2>2. QED BY <2>1
<1>2. s \in Layouts /\ s.placed \in Seq(PlacedLines) /\ first \in Nat /\ Len(s.placed) \in Nat
  <2>1. s \in Layouts /\ s.placed \in Seq(PlacedLines)
    BY LayoutFields DEF Packing, Standing
  <2>2. QED BY <2>1
<1>3. PICK h : FlowHistory(h, s, graph, f, w) /\ PlaceFlow(s, graph, f, w) = h[n]
  BY <1>2, PlaceFlowIs
<1>4. \A k \in 0 .. n : Placing(h[k], graph, f, k, w)
  BY <1>3, PlaceFlowGoes
<1>5. PICK p : Heights(p, lines) /\ TotalHeight(lines) = p[n]
  BY <1>1, HeightHistory DEF Heights
<1>6. /\ \A k \in 0 .. n : p[k] \in Nat
      /\ \A k \in 0 .. n : \A i \in 0 .. k : p[i] <= p[k]
  BY <1>1, <1>5, HeightsGrow
<1>7. Reserve(graph, f) \in Nat
  BY ReserveType
<1>8. /\ h[0] = BeginFlow(s, graph, f)
      /\ \A k \in 1 .. n : h[k] = PlaceLine(h[k - 1], graph, f, k, w)
  BY <1>3 DEF FlowHistory
<1>9. p[0] = 0 /\ \A k \in 1 .. n : p[k] = p[k - 1] + lines[k]
  BY <1>5 DEF Heights
<1> HIDE DEF lines, n, first
<1> DEFINE Good == [k \in 0 .. n |-> h[k].error = "none" =>
                        /\ Len(h[k].placed) = Len(s.placed) + k
                        /\ k > 0 => Keeping(h[k], graph, f, first, w, p[k], TRUE)]
<1>10. Good[0]
  <2>1. h[0].placed = s.placed
    BY <1>2, <1>8, BeginFlowDoes
  <2>2. 0 \in 0 .. n
    BY <1>1
  <2>3. h[0].error = "none" =>
            /\ Len(h[0].placed) = Len(s.placed) + 0
            /\ 0 > 0 => Keeping(h[0], graph, f, first, w, p[0], TRUE)
    BY <1>2, <2>1
  <2>4. QED BY <2>2, <2>3
<1>11. ASSUME NEW k \in 1 .. n, Good[k - 1] PROVE Good[k]
  <2>1. k - 1 \in 0 .. n /\ k \in 0 .. n /\ k \in DOMAIN lines
    BY <1>1
  <2>2. SUFFICES ASSUME h[k].error = "none"
                 PROVE  /\ Len(h[k].placed) = Len(s.placed) + k
                        /\ Keeping(h[k], graph, f, first, w, p[k], TRUE)
    BY <2>1
  <2> DEFINE x == h[k - 1]
  <2>3. x \in Layouts /\ x.columns = graph.flows[f].columns
    BY <1>4, <2>1 DEF Placing, Standing
  <2>4. h[k] = PlaceLine(x, graph, f, k, w)
    BY <1>8
  <2>5. /\ x.error = "none" /\ x.placed \in Seq(PlacedLines)
        /\ \E line : h[k].placed = Append(x.placed, line)
    <3> HIDE DEF x
    <3>1. PlaceLine(x, graph, f, k, w).error = "none" /\ k \in DOMAIN graph.flows[f].heights
      BY <2>1, <2>2, <2>4 DEF lines
    <3>2. /\ x.error = "none" /\ x.placed \in Seq(PlacedLines)
          /\ PlaceLine(x, graph, f, k, w).placed =
                 Append(x.placed, LineAt(Settled(x, graph, f, k, w), graph, f, k))
      BY <2>3, <3>1, LinePlaced
    <3>3. QED BY <2>4, <3>2
  <2>6. /\ Len(x.placed) = Len(s.placed) + (k - 1)
        /\ k - 1 > 0 => Keeping(x, graph, f, first, w, p[k - 1], TRUE)
    BY <1>11, <2>1, <2>5
  <2>7. Len(h[k].placed) = Len(s.placed) + k
    <3>1. Len(h[k].placed) = Len(x.placed) + 1
      BY <2>5
    <3>2. QED BY <1>2, <2>1, <2>6, <3>1
  <2>8. p[k] = p[k - 1] + lines[k]
    BY <1>9
  <2>9. CASE k = 1
    <3>1. first = Len(x.placed) + 1
      BY <1>2, <2>6, <2>9 DEF first
    <3>2. p[1] = lines[1]
      <4>1. p[1] = p[0] + lines[1] /\ lines[1] \in Nat
        BY <1>1, <2>8, <2>9
      <4>2. QED BY <1>9, <4>1
    <3>3. h[1] = PlaceLine(x, graph, f, 1, w)
      BY <2>4, <2>9
    <3> HIDE DEF x
    <3>4. Keeping(h[1], graph, f, first, w, p[1], TRUE)
      BY <1>1, <2>2, <2>3, <2>9, <3>1, <3>2, <3>3, HeadingStarts DEF lines
    <3>5. QED BY <2>7, <2>9, <3>4
  <2>10. CASE k # 1
    <3>1. Keeping(x, graph, f, first, w, p[k - 1], Suits(graph, f, f))
      <4>1. k - 1 > 0
        BY <1>1, <2>10
      <4>2. Keeping(x, graph, f, first, w, p[k - 1], TRUE)
        BY <2>6, <4>1
      <4>3. QED BY <4>2 DEF Keeping
    <3>2. p[k - 1] \in Nat /\ p[k] <= Reserve(graph, f)
      <4>1. n \in 0 .. n /\ k \in 0 .. n
        BY <1>1
      <4>2. p[k] \in Nat /\ p[n] \in Nat /\ p[k - 1] \in Nat /\ p[k] <= p[n]
        BY <1>6, <2>1, <4>1
      <4>3. p[n] <= Reserve(graph, f)
        BY <1>5 DEF lines
      <4>4. QED BY <1>7, <4>2, <4>3
    <3> DEFINE used == p[k - 1]
    <3> HIDE DEF x, used
    <3>3. used \in Nat /\ used + lines[k] <= Reserve(graph, f)
      BY <2>8, <3>2 DEF used
    <3>4. Keeping(PlaceLine(x, graph, f, k, w), graph, f, first, w, used + lines[k], TRUE)
      BY <1>2, <2>1, <2>2, <2>3, <2>4, <2>10, <3>1, <3>3, LineKept DEF lines, used
    <3>5. Keeping(h[k], graph, f, first, w, p[k], TRUE)
      BY <2>4, <2>8, <3>4 DEF used
    <3>6. QED BY <2>7, <3>5
  <2>11. QED BY <2>9, <2>10
<1>12. \A k \in 0 .. n : Good[k]
  <2> HIDE DEF Good
  <2>1. QED BY <1>1, <1>10, <1>11, StepsKeep
<1>13. n \in 0 .. n /\ n > 0
  BY <1>1 DEF n
<1>14. Len(h[n].placed) = Len(s.placed) + n /\ Keeping(h[n], graph, f, first, w, p[n], TRUE)
  BY <1>3, <1>12, <1>13
<1>15. QED BY <1>3, <1>5, <1>14 DEF lines, n, first

(* How many of the lines are still to come that the heading is kept with.  *)
Counted(placed, graph, f, first, remaining) ==
    remaining = IF Open(placed, graph, f, first)
                THEN WindowOf(graph, f, first) - (Len(placed) + 1) ELSE 0

(* The next flow is kept with the heading as far as the reserve goes.      *)
LEMMA NextFlow ==
    ASSUME NEW graph, IsGraph(graph), NEW f \in DOMAIN graph.flows,
           NEW g \in DOMAIN graph.flows, g # f, NEW w, NEW s,
           Packing(s, graph, g - 1, w), s.error = "none",
           PlaceFlow(s, graph, g, w).error = "none",
           NEW first \in Nat, NEW x \in Wants,
           Keeping(s, graph, f, first, w, x.height, TRUE),
           Counted(s.placed, graph, f, first, x.remaining),
           Ahead(x, graph, g).height <= Reserve(graph, f)
    PROVE  LET end == PlaceFlow(s, graph, g, w)
           IN  /\ Keeping(end, graph, f, first, w, Ahead(x, graph, g).height, TRUE)
               /\ Counted(end.placed, graph, f, first, Ahead(x, graph, g).remaining)
<1> DEFINE lines == graph.flows[g].heights
           n == Len(lines)
           window == WindowOf(graph, f, first)
           next == FirstLines(lines, x.remaining)
           m == Len(next)
           gap == GapBefore(graph, g)
           base == x.height + gap
           total == Len(s.placed)
<1>1. lines \in Seq(Nat) /\ n \in Nat /\ n # 0 /\ DOMAIN lines = 1 .. n /\ gap \in Nat
  <2>1. lines \in Seq(Nat \ {0}) /\ lines # <<>> /\ gap \in Nat
    BY FlowsAre
  <2>2. QED BY <2>1
<1>2. s \in Layouts /\ s.placed \in Seq(PlacedLines) /\ total \in Nat
  <2>1. s \in Layouts /\ s.placed \in Seq(PlacedLines)
    BY LayoutFields DEF Packing, Standing
  <2>2. QED BY <2>1
<1>3. PICK h : FlowHistory(h, s, graph, g, w) /\ PlaceFlow(s, graph, g, w) = h[n]
  BY <1>2, PlaceFlowIs
<1>4. \A k \in 0 .. n : Placing(h[k], graph, g, k, w)
  BY <1>3, PlaceFlowGoes
<1>5. PICK p : Heights(p, lines)
  BY <1>1, HeightHistory DEF Heights
<1>6. /\ \A k \in 0 .. n : p[k] \in Nat
      /\ \A k \in 0 .. n : \A i \in 0 .. k : p[i] <= p[k]
  BY <1>1, <1>5, HeightsGrow
<1>7. x.remaining \in Nat /\ x.height \in Nat /\ Reserve(graph, f) \in Nat /\ base \in Nat
  <2>1. x.remaining \in Nat /\ x.height \in Nat /\ Reserve(graph, f) \in Nat
    BY ReserveType DEF Wants
  <2>2. QED BY <1>1, <2>1
<1>8. /\ h[0] = BeginFlow(s, graph, g)
      /\ \A k \in 1 .. n : h[k] = PlaceLine(h[k - 1], graph, g, k, w)
  BY <1>3 DEF FlowHistory
<1>9. p[0] = 0 /\ \A k \in 1 .. n : p[k] = p[k - 1] + lines[k]
  BY <1>5 DEF Heights
<1>10. /\ m \in 0 .. n /\ m <= x.remaining /\ (m = x.remaining \/ m = n)
       /\ TotalHeight(next) = p[m]
  <2>1. /\ next \in Seq(Nat) /\ m <= x.remaining /\ m <= n
        /\ next = SubSeq(lines, 1, m) /\ (m = x.remaining \/ m = n)
    BY <1>1, <1>7, FirstLinesAre
  <2>2. m \in 0 .. n
    BY <1>1, <2>1
  <2> HIDE DEF m, next, lines, n
  <2>3. TotalHeight(next) = p[m]
    BY <1>1, <1>5, <2>1, <2>2, HeightOfFirst, ZenonT(30) DEF n
  <2>4. QED BY <2>1, <2>2, <2>3
<1>11. window \in Nat
  <2>1. graph.flows[f].heights \in Seq(Nat \ {0})
    BY FlowsAre
  <2>2. QED BY <2>1, PaginationAssumption DEF WindowOf
<1>12. Ahead(x, graph, g) =
           IF x.remaining = 0 THEN x
           ELSE [remaining |-> x.remaining - m, height |-> base + TotalHeight(next)]
  BY DEF Ahead
<1>13. x.remaining = IF total + 1 < window THEN window - (total + 1) ELSE 0
  BY DEF Counted, Open
<1> HIDE DEF lines, n, window, next, m, gap, base, total
<1>14. \A placed : Open(placed, graph, f, first) = (Len(placed) + 1 < window)
  BY DEF Open, window
<1> DEFINE Good == [k \in 0 .. n |-> h[k].error = "none" =>
                        /\ Len(h[k].placed) = total + k
                        /\ Keeping(h[k], graph, f, first, w, base + p[k],
                                   IF k = 0 THEN Suits(graph, f, g) ELSE TRUE)]
<1>15. Good[0]
  <2>1. /\ Keeping(h[0], graph, f, first, w, base, Suits(graph, f, g))
        /\ h[0].placed = s.placed
    <3> DEFINE used == x.height
    <3>1. used \in Nat /\ Keeping(s, graph, f, first, w, used, TRUE)
      BY <1>7
    <3> HIDE DEF used
    <3>2. /\ Keeping(BeginFlow(s, graph, g), graph, f, first, w,
                     used + GapBefore(graph, g), Suits(graph, f, g))
          /\ BeginFlow(s, graph, g).placed = s.placed
      BY <1>2, <3>1, FlowKept
    <3>3. QED BY <1>8, <3>2 DEF base, gap, used
  <2>2. 0 \in 0 .. n /\ base + p[0] = base
    BY <1>1, <1>7, <1>9
  <2>3. h[0].error = "none" =>
            /\ Len(h[0].placed) = total + 0
            /\ Keeping(h[0], graph, f, first, w, base + p[0],
                       IF 0 = 0 THEN Suits(graph, f, g) ELSE TRUE)
    BY <1>2, <2>1, <2>2 DEF total
  <2>4. QED BY <2>2, <2>3
<1>16. ASSUME NEW k \in 1 .. n, Good[k - 1] PROVE Good[k]
  <2>1. k - 1 \in 0 .. n /\ k \in 0 .. n /\ k \in DOMAIN lines /\ k # 0
    BY <1>1
  <2>2. SUFFICES ASSUME h[k].error = "none"
                 PROVE  /\ Len(h[k].placed) = total + k
                        /\ Keeping(h[k], graph, f, first, w, base + p[k], TRUE)
    BY <2>1
  <2> DEFINE y == h[k - 1]
             used == base + p[k - 1]
  <2>3. y \in Layouts /\ y.columns = graph.flows[g].columns
    BY <1>4, <2>1 DEF Placing, Standing
  <2>4. h[k] = PlaceLine(y, graph, g, k, w)
    BY <1>8
  <2>5. /\ y.error = "none" /\ y.placed \in Seq(PlacedLines)
        /\ \E line : h[k].placed = Append(y.placed, line)
    <3> HIDE DEF y
    <3>1. PlaceLine(y, graph, g, k, w).error = "none" /\ k \in DOMAIN graph.flows[g].heights
      BY <2>1, <2>2, <2>4 DEF lines
    <3>2. /\ y.error = "none" /\ y.placed \in Seq(PlacedLines)
          /\ PlaceLine(y, graph, g, k, w).placed =
                 Append(y.placed, LineAt(Settled(y, graph, g, k, w), graph, g, k))
      BY <2>3, <3>1, LinePlaced
    <3>3. QED BY <2>4, <3>2
  <2>6. /\ Len(y.placed) = total + (k - 1)
        /\ Keeping(y, graph, f, first, w, used, IF k - 1 = 0 THEN Suits(graph, f, g) ELSE TRUE)
    BY <1>16, <2>1, <2>5
  <2>7. Len(h[k].placed) = total + k
    <3>1. Len(h[k].placed) = Len(y.placed) + 1
      BY <2>5
    <3>2. QED BY <1>2, <2>1, <2>6, <3>1
  <2>8. /\ p[k] = p[k - 1] + lines[k] /\ p[k] \in Nat /\ p[k - 1] \in Nat /\ p[m] \in Nat
        /\ lines[k] \in Nat
    BY <1>1, <1>6, <1>9, <1>10, <2>1
  <2>9. Keeping(y, graph, f, first, w, used, Suits(graph, f, g))
    BY <2>6 DEF Keeping
  <2>10. used \in Nat /\ used + lines[k] = base + p[k]
    BY <1>7, <2>8
  <2>11. ASSUME Open(y.placed, graph, f, first)
         PROVE  used + lines[k] <= Reserve(graph, f)
    <3>1. total + k < window
      <4> HIDE DEF y
      <4>1. Len(y.placed) + 1 < window
        BY <1>14, <2>11
      <4>2. QED BY <1>2, <2>1, <2>6, <4>1
    <3>2. x.remaining = window - (total + 1) /\ k <= x.remaining /\ x.remaining # 0
      BY <1>2, <1>11, <1>13, <2>1, <3>1
    <3>3. k \in 0 .. m
      BY <1>1, <1>7, <1>10, <2>1, <3>2
    <3>4. p[k] <= p[m]
      BY <1>6, <1>10, <3>3
    <3>5. Ahead(x, graph, g).height = base + p[m]
      BY <1>10, <1>12, <3>2
    <3>6. base + p[m] <= Reserve(graph, f)
      BY <3>5
    <3> HIDE DEF used, y
    <3>7. QED BY <1>7, <2>8, <2>10, <3>4, <3>6
  <2> HIDE DEF used, y
  <2>12. Keeping(PlaceLine(y, graph, g, k, w), graph, f, first, w, used + lines[k], TRUE)
    BY <2>1, <2>2, <2>3, <2>4, <2>9, <2>10, <2>11, LineKept DEF lines
  <2>13. QED BY <2>4, <2>7, <2>10, <2>12
<1>17. \A k \in 0 .. n : Good[k]
  <2> HIDE DEF Good
  <2>1. QED BY <1>1, <1>15, <1>16, StepsKeep
<1>18. n \in 0 .. n
  BY <1>1
<1>19. /\ Len(h[n].placed) = total + n
       /\ Keeping(h[n], graph, f, first, w, base + p[n], TRUE)
  BY <1>1, <1>3, <1>17, <1>18
<1>20. Counted(h[n].placed, graph, f, first, Ahead(x, graph, g).remaining)
  <2>1. Ahead(x, graph, g).remaining =
            IF total + n + 1 < window THEN window - (total + n + 1) ELSE 0
    <3>1. CASE x.remaining = 0
      BY <1>1, <1>2, <1>11, <1>12, <1>13, <3>1
    <3>2. CASE x.remaining # 0
      <4>1. Ahead(x, graph, g).remaining = x.remaining - m
        BY <1>12, <3>2
      <4>2. QED BY <1>1, <1>2, <1>7, <1>10, <1>11, <1>13, <3>2, <4>1, SMTT(30)
    <3>3. QED BY <3>1, <3>2
  <2>2. QED BY <1>14, <1>19, <2>1 DEF Counted, window
<1>21. Keeping(h[n], graph, f, first, w, Ahead(x, graph, g).height, TRUE)
  <2>1. CASE Open(h[n].placed, graph, f, first)
    <3>1. total + n + 1 < window
      BY <1>14, <1>19, <2>1
    <3>2. x.remaining # 0 /\ n < x.remaining
      BY <1>1, <1>2, <1>11, <1>13, <3>1
    <3>3. m = n
      BY <1>1, <1>7, <1>10, <3>2
    <3>4. Ahead(x, graph, g).height = base + p[n]
      BY <1>10, <1>12, <3>2, <3>3
    <3>5. QED BY <1>19, <3>4
  <2>2. CASE ~Open(h[n].placed, graph, f, first)
    BY <1>19, <2>2 DEF Keeping
  <2>3. QED BY <2>1, <2>2
<1>22. QED BY <1>3, <1>20, <1>21 DEF n, lines

(* What is wanted only grows.                                              *)
LEMMA WantsGrow ==
    ASSUME NEW graph, IsGraph(graph), NEW f \in DOMAIN graph.flows,
           NEW r \in [0 .. Len(graph.flows) - f -> Wants],
           \A k \in 1 .. Len(graph.flows) - f : r[k] = Ahead(r[k - 1], graph, f + k),
           Reserve(graph, f) = r[Len(graph.flows) - f].height
    PROVE  \A k \in 0 .. Len(graph.flows) - f : r[k].height <= Reserve(graph, f)
<1> DEFINE n == Len(graph.flows) - f
           p == [k \in 0 .. n |-> r[k].height]
<1>1. n \in Nat /\ f \in Nat /\ \A k \in 1 .. n : f + k \in DOMAIN graph.flows
  <2>1. graph.flows \in Seq(LayoutFlows)
    BY DEF IsGraph
  <2>2. Len(graph.flows) \in Nat /\ DOMAIN graph.flows = 1 .. Len(graph.flows)
    BY <2>1
  <2>3. f \in Nat \ {0} /\ n \in Nat
    BY <2>2
  <2>4. QED BY <2>2, <2>3
<1>2. \A k \in 0 .. n : r[k] \in Wants /\ r[k].height \in Nat /\ p[k] = r[k].height
  BY DEF Wants
<1>3. p \in [0 .. n -> Nat]
  BY <1>2
<1>4. ASSUME NEW k \in 1 .. n PROVE p[k - 1] <= p[k]
  <2>1. k - 1 \in 0 .. n /\ k \in 0 .. n
    BY <1>1
  <2> DEFINE x == r[k - 1]
             g == f + k
             next == FirstLines(graph.flows[g].heights, x.remaining)
  <2>2. x \in Wants /\ x.remaining \in Nat /\ x.height \in Nat /\ g \in DOMAIN graph.flows
    BY <1>1, <2>1 DEF Wants
  <2>3. /\ graph.flows[g].heights \in Seq(Nat \ {0}) /\ GapBefore(graph, g) \in Nat
    BY <2>2, FlowsAre
  <2>4. graph.flows[g].heights \in Seq(Nat)
    BY <2>3
  <2>5. TotalHeight(next) \in Nat
    BY <2>2, <2>4, FirstLinesAre, TotalHeightType
  <2>6. Ahead(x, graph, g).height =
            IF x.remaining = 0 THEN x.height
            ELSE x.height + GapBefore(graph, g) + TotalHeight(next)
    BY DEF Ahead
  <2>7. r[k] = Ahead(x, graph, g)
    OBVIOUS
  <2>8. p[k - 1] = x.height /\ p[k] = r[k].height
    BY <1>2, <2>1
  <2> HIDE DEF x, g, next, p
  <2>9. QED BY <2>2, <2>3, <2>5, <2>6, <2>7, <2>8
<1> HIDE DEF p, n
<1>5. \A k \in 0 .. n : \A i \in 0 .. k : p[i] <= p[k]
  BY <1>1, <1>3, <1>4, SumsGrow
<1>6. n \in 0 .. n
  BY <1>1
<1>7. \A k \in 0 .. n : p[k] <= p[n]
  BY <1>5, <1>6
<1>8. Reserve(graph, f) = p[n]
  BY <1>2, <1>6 DEF n
<1>9. QED BY <1>2, <1>7, <1>8 DEF n

(* A heading is kept with its lines and the next ones.                     *)
LEMMA PackKeeps ==
    ASSUME NEW graph, IsGraph(graph), NEW f \in DOMAIN graph.flows, NEW w,
           graph.flows[f].role = "heading", Pack(graph, w).error = "none"
    PROVE  \E first \in Nat, used \in Nat :
               Keeping(Pack(graph, w), graph, f, first, w, used, TRUE)
<1> DEFINE n == Len(graph.flows)
           lines == graph.flows[f].heights
<1>1. n \in Nat /\ DOMAIN graph.flows = 1 .. n /\ f \in 1 .. n /\ f \in Nat
  BY DEF IsGraph
<1>2. PICK h : PackHistory(h, graph, w) /\ Pack(graph, w) = h[n]
  BY PackIs
<1>3. \A e \in 0 .. n : Packing(h[e], graph, e, w)
  BY <1>2, PackGoes
<1>4. PICK r \in [0 .. n - f -> Wants] :
          /\ r[0] = FirstWant(graph, f)
          /\ \A k \in 1 .. n - f : r[k] = Ahead(r[k - 1], graph, f + k)
          /\ Reserve(graph, f) = r[n - f].height
  BY ReserveHistory
<1>5. \A k \in 0 .. n - f : r[k].height <= Reserve(graph, f)
  BY <1>4, WantsGrow
<1> DEFINE first == Len(h[f - 1].placed) + 1
           window == WindowOf(graph, f, first)
<1>6. first \in Nat /\ Len(h[f - 1].placed) \in Nat
  <2>1. f - 1 \in 0 .. n
    BY <1>1
  <2>2. h[f - 1].placed \in Seq(PlacedLines)
    BY <1>3, <2>1, LayoutFields DEF Packing, Standing
  <2>3. QED BY <2>2
<1>7. \A e \in 1 .. n : h[e] = PackStep(h[e - 1], graph, e, w)
  BY <1>2 DEF PackHistory
<1>8. Len(lines) \in Nat
  <2>1. lines \in Seq(Nat \ {0})
    BY FlowsAre
  <2>2. QED BY <2>1
<1> HIDE DEF n, first, lines, window
<1> DEFINE Good == [e \in 0 .. n |-> e >= f /\ h[e].error = "none" =>
                        /\ Keeping(h[e], graph, f, first, w, r[e - f].height, TRUE)
                        /\ Counted(h[e].placed, graph, f, first, r[e - f].remaining)]
<1>9. Good[0]
  <2>1. 0 \in 0 .. n /\ ~(0 >= f)
    BY <1>1
  <2>2. QED BY <2>1
<1>10. ASSUME NEW e \in 1 .. n, Good[e - 1] PROVE Good[e]
  <2>1. e - 1 \in 0 .. n /\ e \in 0 .. n /\ e \in DOMAIN graph.flows
    BY <1>1
  <2>2. SUFFICES ASSUME e >= f, h[e].error = "none"
                 PROVE  /\ Keeping(h[e], graph, f, first, w, r[e - f].height, TRUE)
                        /\ Counted(h[e].placed, graph, f, first, r[e - f].remaining)
    BY <2>1
  <2>3. h[e - 1].error = "none" /\ h[e] = PlaceFlow(h[e - 1], graph, e, w)
    BY <1>7, <2>2 DEF PackStep
  <2>4. Packing(h[e - 1], graph, e - 1, w)
    BY <1>3, <2>1
  <2>5. CASE e = f
    <3>1. r[e - f] = FirstWant(graph, f) /\ 0 \in 0 .. n - f
      BY <1>1, <1>4, <2>5
    <3>2. r[e - f].height = TotalHeight(lines) /\ r[e - f].remaining = HeadingWithNext
      BY <3>1 DEF FirstWant, lines
    <3>3. TotalHeight(lines) <= Reserve(graph, f)
      BY <1>1, <1>5, <2>5, <3>1, <3>2
    <3>4. /\ Keeping(h[f], graph, f, first, w, TotalHeight(lines), TRUE)
          /\ Len(h[f].placed) = Len(h[f - 1].placed) + Len(lines)
      <4> DEFINE s == h[f - 1]
      <4>1. /\ Packing(s, graph, f - 1, w) /\ s.error = "none"
            /\ h[f] = PlaceFlow(s, graph, f, w) /\ PlaceFlow(s, graph, f, w).error = "none"
        BY <2>2, <2>3, <2>4, <2>5
      <4>2. first = Len(s.placed) + 1
        BY DEF first
      <4> HIDE DEF s
      <4>3. LET end == PlaceFlow(s, graph, f, w)
            IN  /\ Keeping(end, graph, f, Len(s.placed) + 1, w,
                           TotalHeight(graph.flows[f].heights), TRUE)
                /\ Len(end.placed) = Len(s.placed) + Len(graph.flows[f].heights)
        BY <3>3, <4>1, HeadingFlow DEF lines
      <4>4. QED BY <4>1, <4>2, <4>3 DEF lines, s
    <3>5. Counted(h[f].placed, graph, f, first, HeadingWithNext)
      <4>1. WindowOf(graph, f, first) = Len(h[f].placed) + 1 + HeadingWithNext
        <5>1. first = Len(h[f - 1].placed) + 1
          BY DEF first
        <5>2. WindowOf(graph, f, first) = first + Len(lines) + HeadingWithNext
          BY DEF WindowOf, lines
        <5>3. QED BY <1>6, <1>8, <3>4, <5>1, <5>2, PaginationAssumption
      <4>2. Len(h[f].placed) \in Nat
        BY <1>6, <1>8, <3>4
      <4>3. QED BY <4>1, <4>2, PaginationAssumption DEF Counted, Open
    <3>6. QED BY <2>5, <3>2, <3>4, <3>5
  <2>6. CASE e # f
    <3> DEFINE k == e - f
               x == r[k - 1]
    <3>1. k \in 1 .. n - f /\ k - 1 \in 0 .. n - f /\ f + k = e /\ (e - 1) - f = k - 1
      <4>1. e \in Nat /\ e <= n /\ f < e
        BY <1>1, <2>2, <2>6
      <4>2. k \in Nat /\ n - f \in Nat /\ k <= n - f /\ 1 <= k
        BY <1>1, <4>1
      <4>3. f + k = e /\ (e - 1) - f = k - 1
        BY <1>1, <4>1
      <4> HIDE DEF k, x
      <4>4. QED BY <4>2, <4>3
    <3>2. e - 1 >= f
      BY <1>1, <2>2, <2>6
    <3>3. /\ Keeping(h[e - 1], graph, f, first, w, x.height, TRUE)
          /\ Counted(h[e - 1].placed, graph, f, first, x.remaining)
      <4>1. /\ Keeping(h[e - 1], graph, f, first, w, r[(e - 1) - f].height, TRUE)
            /\ Counted(h[e - 1].placed, graph, f, first, r[(e - 1) - f].remaining)
        BY <1>10, <2>1, <2>3, <3>2
      <4>2. QED BY <3>1, <4>1
    <3>4. x \in Wants /\ r[k] = Ahead(x, graph, e) /\ r[k].height <= Reserve(graph, f)
      <4>1. k \in 0 .. n - f
        BY <1>1, <3>1
      <4> HIDE DEF k
      <4>2. r[k] = Ahead(r[k - 1], graph, f + k)
        BY <1>4, <3>1
      <4>3. QED BY <1>4, <1>5, <3>1, <4>1, <4>2
    <3> DEFINE s == h[e - 1]
    <3> HIDE DEF k, x, s
    <3>5. /\ Packing(s, graph, e - 1, w) /\ s.error = "none" /\ h[e] = PlaceFlow(s, graph, e, w)
          /\ Keeping(s, graph, f, first, w, x.height, TRUE)
          /\ Counted(s.placed, graph, f, first, x.remaining)
      BY <2>3, <2>4, <3>3 DEF s
    <3>6. /\ Keeping(PlaceFlow(s, graph, e, w), graph, f, first, w, Ahead(x, graph, e).height, TRUE)
          /\ Counted(PlaceFlow(s, graph, e, w).placed, graph, f, first,
                     Ahead(x, graph, e).remaining)
      BY <1>6, <2>1, <2>2, <2>6, <3>4, <3>5, NextFlow
    <3>7. QED BY <3>4, <3>5, <3>6 DEF k
  <2>7. QED BY <2>5, <2>6
<1>11. \A e \in 0 .. n : Good[e]
  <2> HIDE DEF Good
  <2>1. QED BY <1>1, <1>9, <1>10, StepsKeep
<1>12. n \in 0 .. n /\ n >= f /\ n - f \in 0 .. n - f
  BY <1>1
<1>13. Keeping(h[n], graph, f, first, w, r[n - f].height, TRUE)
  BY <1>2, <1>11, <1>12
<1>14. r[n - f].height \in Nat
  BY <1>4, <1>12 DEF Wants
<1>15. QED BY <1>2, <1>6, <1>13, <1>14

(* So every heading is kept with what it wants.                            *)
LEMMA HeadingsAreKept ==
    ASSUME NEW graph, IsGraph(graph), NEW f \in DOMAIN graph.flows,
           graph.flows[f].role = "heading",
           NEW layout, Pack(graph, layout.pages).error = "none",
           layout.placed = Pack(graph, layout.pages).placed
    PROVE  HeadingKept(graph, layout, f)
<1> DEFINE w == layout.pages
           end == Pack(graph, w)
           at(i) == layout.placed[i]
<1>1. PICK first \in Nat, used \in Nat : Keeping(end, graph, f, first, w, used, TRUE)
  BY PackKeeps
<1>2. /\ end \in Layouts
      /\ Contents(end.placed, graph, Len(graph.flows) + 1, 0)
  BY PackPacks DEF Packing, Standing
<1>3. layout.placed \in Seq(PlacedLines)
  BY <1>2, LayoutFields
<1> DEFINE S == {i \in DOMAIN layout.placed : at(i).flow = f}
           window == first + Len(graph.flows[f].heights) + HeadingWithNext
<1>4. first \in S /\ at(first).flow = f /\ at(first).line = 1
  BY <1>1 DEF Keeping
<1>5. ASSUME NEW i \in S PROVE first <= i
  <2>1. i \in DOMAIN layout.placed /\ i \in Nat
    BY <1>3
  <2>2. at(i).flow = f /\ at(i).line \in Nat \ {0} /\ f \in Nat
    <3>0. \A j \in DOMAIN end.placed : Genuine(end.placed[j], graph)
      BY <1>2 DEF Contents
    <3>1. Genuine(at(i), graph)
      BY <2>1, <3>0, SMTT(30)
    <3>2. at(i).line \in DOMAIN graph.flows[f].heights /\ graph.flows[f].heights \in Seq(Nat \ {0})
      BY <3>1, FlowsAre DEF Genuine
    <3>3. at(i).line \in Nat \ {0}
      BY <3>2
    <3>4. QED BY <3>3, FlowsAre
  <2>3. i < first => Earlier(at(i), at(first))
    BY <1>2, <1>4, <2>1 DEF Contents
  <2>4. ~Earlier(at(i), at(first))
    BY <1>4, <2>2 DEF Earlier
  <2>5. QED BY <2>1, <2>3, <2>4
<1>6. Min(S) = first
  <2>1. S \in SUBSET Nat
    BY <1>3
  <2> HIDE DEF S
  <2>2. first \in S /\ \A y \in S : first <= y
    BY <1>4, <1>5
  <2>3. Min(S) \in S /\ \A y \in S : Min(S) <= y
    BY <2>2 DEF Min
  <2>4. Min(S) \in Nat /\ first \in Nat /\ Min(S) <= first /\ first <= Min(S)
    BY <2>1, <2>2, <2>3
  <2>5. QED BY <2>4
<1>7. ASSUME NEW i \in DOMAIN layout.placed
      PROVE  /\ at(i).flow \in DOMAIN graph.flows
             /\ at(i).columns = graph.flows[at(i).flow].columns
  BY <1>2 DEF Contents, Genuine
<1> HIDE DEF at, w, end
<1> DEFINE next == {i \in DOMAIN layout.placed : first < i /\ i < window}
           plain(i) == \/ at(i).flow = f
                       \/ /\ graph.flows[at(i).flow].role # "heading"
                          /\ at(i).columns = at(first).columns
           room == Bottom(graph, at(first).page, layout.pages) - Margin
<1>8. ASSUME \A i \in next : plain(i), Reserve(graph, f) <= room
      PROVE  \A i \in next : at(i).page = at(first).page /\ at(i).column = at(first).column
  <2>1. ASSUME NEW i \in DOMAIN layout.placed, first < i, i < window
        PROVE  Suits(graph, f, at(i).flow)
    <3>1. plain(i)
      BY <1>8, <2>1
    <3>2. at(first).columns = graph.flows[f].columns
      BY <1>4, <1>7
    <3>3. QED BY <1>7, <3>1, <3>2 DEF Suits
  <2>2. Wanted(end.placed, graph, f, first, w)
    BY <1>8, <2>1 DEF Wanted, WindowOf, at, w, end
  <2>3. InOnePlace(end.placed, graph, f, first)
    BY <1>1, <2>2, SMTT(30) DEF Keeping
  <2>4. QED BY <2>3 DEF InOnePlace, WindowOf, at, w, end
<1>9. HeadingKept(graph, layout, f)
      = ((\A i \in next : plain(i)) /\ Reserve(graph, f) <= room =>
            \A i \in next : at(i).page = at(first).page /\ at(i).column = at(first).column)
  BY <1>6 DEF HeadingKept, at
<1>10. QED BY <1>8, <1>9

(* Every layout is sound.                                                  *)
LEMMA LayoutSound ==
    ASSUME NEW graph, IsGraph(graph)
    PROVE  SoundLayout(graph, SolveLayout(graph))
<1> DEFINE run == PagesWithWarning(graph, graph.sources)
           compact == IF graph.sources = 1 THEN run ELSE PagesWithWarning(graph, 1)
           page == WarningPage(graph, graph.sources)
           least == WarningPage(graph, 1)
           layout == SolveLayout(graph)
<1>1. graph.sources \in Nat \ {0} /\ 1 \in Nat \ {0}
  BY DEF IsGraph
<1>2. /\ run \in Layouts /\ page \in Nat
      /\ EverythingFits(graph) => run.error # "LayoutInfeasibleError"
      /\ run.error = "none" =>
            /\ run.pages = page
            /\ graph.sources <= page
            /\ Pack(graph, page).error = "none"
            /\ run.placed = Pack(graph, page).placed
            /\ Pack(graph, page).pages <= page
            /\ PageHeight - Margin - FreeTop(run) >= graph.warning
  BY <1>1, WarnedIs
<1>3. /\ compact \in Layouts /\ least \in Nat
      /\ EverythingFits(graph) => compact.error # "LayoutInfeasibleError"
      /\ compact.error = "none" => compact.pages = least
  <2>1. /\ PagesWithWarning(graph, 1) \in Layouts /\ least \in Nat
        /\ EverythingFits(graph) =>
               PagesWithWarning(graph, 1).error # "LayoutInfeasibleError"
        /\ PagesWithWarning(graph, 1).error = "none" =>
               PagesWithWarning(graph, 1).pages = least
    BY <1>1, WarnedIs
  <2>2. graph.sources = 1 => compact = PagesWithWarning(graph, 1)
    OBVIOUS
  <2>3. compact = PagesWithWarning(graph, 1)
    BY <2>2
  <2> HIDE DEF compact
  <2>4. QED BY <2>1, <2>3
<1>4. layout = IF run.error # "none" \/ compact.error # "none"
               THEN [error |-> IF run.error # "none" THEN run.error ELSE compact.error,
                     placed |-> <<>>, pages |-> 0, freeTop |-> 0, continuation |-> 0,
                     chinese |-> 0, exceeded |-> FALSE]
               ELSE [error |-> "none", placed |-> run.placed, pages |-> run.pages,
                     freeTop |-> FreeTop(run),
                     continuation |-> run.pages - graph.sources,
                     chinese |-> compact.pages,
                     exceeded |-> compact.pages > graph.budget]
  BY DEF SolveLayout
<1>5. run.error \in LayoutErrors /\ compact.error \in LayoutErrors
  <2> HIDE DEF run, compact
  <2>1. QED BY <1>2, <1>3, LayoutFields
<1> HIDE DEF run, compact, page, least, layout
<1>6. CASE run.error # "none" \/ compact.error # "none"
  <2>1. layout.error = IF run.error # "none" THEN run.error ELSE compact.error
    BY <1>4, <1>6
  <2>2. layout.error # "none" /\ (EverythingFits(graph) => layout.error = "LayoutComplexityError")
    BY <1>2, <1>3, <1>5, <1>6, <2>1 DEF LayoutErrors
  <2>3. QED BY <2>2 DEF SoundLayout, layout
<1>7. CASE run.error = "none" /\ compact.error = "none"
  <2>1. /\ layout.error = "none" /\ layout.placed = run.placed /\ layout.pages = page
        /\ layout.freeTop = FreeTop(run) /\ layout.chinese = least
    BY <1>2, <1>3, <1>4, <1>7
  <2>2. /\ Pack(graph, page).error = "none" /\ layout.placed = Pack(graph, page).placed
        /\ Pack(graph, page).pages <= layout.pages /\ layout.pages \in Nat
    BY <1>2, <1>7, <2>1
  <2>3. /\ PlacedInOrder(graph, layout) /\ NothingOverlaps(layout)
        /\ InsidePages(layout) /\ ReadInOrder(layout)
    BY <2>2, PackPacks, PackedIsSound
  <2>4. StatementFits(graph, layout)
    <3>1. PageHeight - Margin - layout.freeTop >= graph.warning
      BY <1>2, <1>7, <2>1
    <3>2. \A i \in DOMAIN run.placed : run.placed[i].page = run.pages =>
              run.placed[i].top + run.placed[i].height + BlockGap <= FreeTop(run)
      BY <1>2, FreeTopIs
    <3>3. QED BY <1>2, <1>7, <2>1, <3>1, <3>2 DEF StatementFits
  <2>5. ASSUME NEW f \in DOMAIN graph.flows, graph.flows[f].role = "heading"
        PROVE  HeadingKept(graph, layout, f)
    BY <2>1, <2>2, <2>5, HeadingsAreKept
  <2>6. layout.pages >= graph.sources
    BY <1>1, <1>2, <1>7, <2>1
  <2>7. layout.chinese <= layout.pages
    BY <1>1, <1>2, <1>7, <2>1, <2>6, FewerPages DEF page, least
  <2>8. QED BY <2>1, <2>3, <2>4, <2>5, <2>6, <2>7 DEF SoundLayout, layout
<1>8. QED BY <1>6, <1>7

-----------------------------------------------------------------------------
(* A call is one of the families', and what was answered is what its stage *)
(* returns.                                                                *)
IInv ==
    /\ \E family \in InputFamilies : input \in family
    /\ Answered("sandbox") => result = <<Told(input)>>
    /\ Answered("pack") => result = <<SolveLayout(input.graph)>>
    /\ Answered("finalize") => result = <<MakeEdition(input.paper)>>

(* The first state has a call and no answer.                               *)
LEMMA InitIInv == Init => IInv
  BY DEF Init, IInv, Answered

(* Every step answers or changes nothing.                                  *)
LEMMA NextIInv == IInv /\ [Next]_vars => IInv'
<1> SUFFICES ASSUME IInv, [Next]_vars PROVE IInv'
  OBVIOUS
<1> USE DEF IInv, Answer, Answered
<1>1. CASE BreakLines
  BY <1>1 DEF BreakLines
<1>2. CASE PackLines
  BY <1>2 DEF PackLines, Packed
<1>3. CASE FinalizePaper
  BY <1>3 DEF FinalizePaper, Finalized
<1>4. CASE AskSandbox
  BY <1>4 DEF AskSandbox
<1>5. CASE UNCHANGED vars
  BY <1>5 DEF vars
<1>6. QED
  BY <1>1, <1>2, <1>3, <1>4, <1>5 DEF Next, Editing

(* A call of the sandbox that has its answer was answered truly.           *)
LEMMA AnsweredTruly == IInv => AnswersAreTrue
<1> SUFFICES ASSUME IInv, Answered("sandbox") PROVE IsTrueOf(result[1], input)
  BY DEF AnswersAreTrue
<1>1. input.call = "sandbox" /\ result = <<Told(input)>>
  BY DEF IInv, Answered
<1>2. IsSandboxCall(input)
  BY <1>1, FamiliesAssumption DEF IInv
<1>3. result[1] = Told(input)
  BY <1>1
<1>4. QED BY <1>2, <1>3, ToldIsTrue

(* The notes of a paper that has its edition are the longest prefix.       *)
LEMMA SelectedSoundly == IInv => SearchIsSound
<1> SUFFICES ASSUME IInv, Answered("finalize"), result[1].error = "none",
                    FewerNotesFit(result[1].selection)
             PROVE  LongestPrefix(result[1].selection)
  BY DEF SearchIsSound
<1>1. input.call = "finalize" /\ result = <<MakeEdition(input.paper)>>
  BY DEF IInv, Answered
<1>2. IsPaper(input.paper)
  BY <1>1, FamiliesAssumption DEF IInv
<1>3. result[1] = MakeEdition(input.paper)
  BY <1>1
<1>4. QED BY <1>2, <1>3, EditionIsLongest

(* The layout of a graph that has one is sound.                            *)
LEMMA PackedSoundly == IInv => LayoutIsSound
<1> SUFFICES ASSUME IInv, Answered("pack") PROVE SoundLayout(input.graph, result[1])
  BY DEF LayoutIsSound
<1>1. input.call = "pack" /\ result = <<SolveLayout(input.graph)>>
  BY DEF IInv, Answered
<1>2. IsGraph(input.graph)
  BY <1>1, FamiliesAssumption DEF IInv
<1>3. result[1] = SolveLayout(input.graph)
  BY <1>1
<1>4. QED BY <1>2, <1>3, LayoutSound

(* The inductive invariant of the calls.                                   *)
THEOREM Invariance == Spec => []IInv
<1>1. QED BY InitIInv, NextIInv, PTL DEF Spec

(* Whatever is wrong in a call of the sandbox, and however much, the       *)
(* caller is told what is true of the first trouble that it met.           *)
THEOREM AnswersAlwaysTrue == Spec => []AnswersAreTrue
<1>1. QED BY Invariance, AnsweredTruly, PTL

(* However many candidates the manifest of a paper has: if fewer notes     *)
(* never take more pages, the search, which looks at few of the prefixes   *)
(* of the optional notes, ends with the longest that the budget allows,    *)
(* unless one of the trials fails.                                         *)
THEOREM SearchAlwaysSound == Spec => []SearchIsSound
<1>1. QED BY Invariance, SelectedSoundly, PTL

(* However many flows and lines a paper has, and however high they are,    *)
(* its layout has every line once, in reading order and without overlap,   *)
(* has room for the statement, keeps every heading with what it wants, and *)
(* is refused only when something is too high or the pages end.            *)
THEOREM LayoutAlwaysSound == Spec => []LayoutIsSound
<1>1. QED BY Invariance, PackedSoundly, PTL
=============================================================================

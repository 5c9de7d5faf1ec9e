----------------------------- MODULE SandboxAnswer ----------------------------
(***************************************************************************)
(* What the caller of preflight, normalize, extract, render or qa is told  *)
(* when something goes wrong in the sandbox.  A failure passes through     *)
(* three tables on its way: the child answers with a code (WorkerAnswer),  *)
(* the parent raises an exception (_run_worker), and the bridge of the     *)
(* operation translates it.  How a call gets from one to the other is      *)
(* WorkerRun's subject; here it is what comes out.                         *)
(*                                                                         *)
(* c.reported: whether the Job's message of a refused allocation arrived.  *)
(***************************************************************************)
EXTENDS WorkerAnswer

-----------------------------------------------------------------------------
(* What goes in: the request, and the files laid out for the child.        *)

PreflightRequest ==
    [policy_version |-> "preflight", source_sha256 |-> "hash", input_bytes |-> "size"]

NormalizationRequest ==
    [policy_version |-> "normalize", source_sha256 |-> "hash", input_bytes |-> "size",
     preflight_sha256 |-> "hash"]

ExtractionRequest ==
    [policy_version |-> "extract", source_sha256 |-> "hash", normalized_pdf_sha256 |-> "hash",
     input_bytes |-> "size", preflight_sha256 |-> "hash", normalization_sha256 |-> "hash"]

RenderRequest ==
    [policy_version |-> "render", input_bytes |-> "size", normalized_pdf_sha256 |-> "hash",
     handoff_bytes |-> "size", handoff_sha256 |-> "hash"]

QaRequest ==
    [policy_version |-> "qa", input_bytes |-> "size", normalized_pdf_sha256 |-> "hash",
     candidate_bytes |-> "size", candidate_pdf_sha256 |-> "hash", handoff_bytes |-> "size",
     handoff_sha256 |-> "hash"]

Request(o) == CASE o = "preflight" -> PreflightRequest [] o = "normalize" -> NormalizationRequest
                [] o = "extract" -> ExtractionRequest  [] o = "render" -> RenderRequest
                [] o = "qa" -> QaRequest

Staged(o) == CASE o = "extract" -> {"preflight", "normalization"}
               [] o = "normalize" -> {"preflight"}
               [] o = "render" -> {"handoff"}
               [] o = "qa" -> {"handoff", "candidate"}
               [] OTHER -> {}

LaidOut(c) ==
    LET absent == {"preflight", "normalization", "handoff", "candidate"} \ Staged(c.op)
    IN  [c EXCEPT !.wrong = Else(Clause(absent, "missing"), c.wrong)]

ControlledPathEffects == Clause({"missing", "linked"}, "ProtocolError")

PrepareEffects == Else(Clause({"unavailable"}, "UNAVAILABLE"),
                       Else(Clause({"unreadable"}, "OSError"), ControlledPathEffects))

-----------------------------------------------------------------------------
(* What comes out: files of the workspace, that the descriptors name.      *)

(* Every way in which a file cannot be taken is answered alike.            *)
Found(c) == "output" \notin DOMAIN c.wrong

PreflightIsTaken(c, files) ==
    files = {"artifact"} /\ Found(c) /\ Sized(c.size.artifact, WorkerLimits.result)

ExtractionIsTaken(c, files) ==
    files = {"artifact"} /\ Found(c) /\ Sized(c.size.artifact, WorkerLimits.extraction)

NormalizationIsTaken(c, files) ==
    /\ files = {"normalized_pdf", "normalization_artifact"} /\ Found(c)
    /\ Sized(c.size.pdf, WorkerLimits.normalized)
    /\ Sized(c.size.artifact, WorkerLimits.result)

RenderIsTaken(c, files) ==
    /\ files = {"candidate_pdf", "render_manifest", "composition"} /\ Found(c)
    /\ Sized(c.size.pdf, WorkerLimits.output)
    /\ Sized(c.size.artifact, WorkerLimits.result)

QaIsTaken(c, files) ==
    files = {"qa"} /\ Found(c) /\ Sized(c.size.artifact, WorkerLimits.result)

IsTaken(c, files) ==
    CASE c.op = "preflight" -> PreflightIsTaken(c, files)
      [] c.op = "extract" -> ExtractionIsTaken(c, files)
      [] c.op = "normalize" -> NormalizationIsTaken(c, files)
      [] c.op = "render" -> RenderIsTaken(c, files)
      [] c.op = "qa" -> QaIsTaken(c, files)

(* What _run_worker makes of the answer of a child that was not stopped.   *)
Judged(c, answer) ==
    CASE answer.status = "died" ->
             IF answer.error = "MemoryError" /\ c.reported THEN <<"MEMORY">> ELSE <<"EXECUTION">>
      [] answer.status = "error" ->
             IF ResponseIsValid(answer) THEN <<"REPORTED", answer.error>> ELSE <<"EXECUTION">>
      [] answer.status = "ok" ->
             IF ResponseIsValid(answer) /\ IsTaken(c, answer.result) THEN <<"OK">>
             ELSE <<"EXECUTION">>

(* A failed cleanup takes the place of whatever was raised.                *)
RunWorker(c) ==
    CASE "cleanup" \in DOMAIN c.wrong -> <<"CLEANUP">>
      [] "cleanup" \notin DOMAIN c.wrong /\ ~RequestIsValid(c.op, Request(c.op)) ->
             <<"ProtocolError">>
      [] OTHER ->
             CASE "prepare" \in DOMAIN c.wrong -> <<PrepareEffects[c.wrong["prepare"]]>>
               [] "machine" \in DOMAIN c.wrong /\ "prepare" \notin DOMAIN c.wrong ->
                      <<c.wrong["machine"]>>
               [] OTHER -> Judged(c, Dispatched(LaidOut(c)))

-----------------------------------------------------------------------------
(* The bridges.                                                            *)

Translated(run, passed, failed) ==
    CASE run[1] = "REPORTED" -> IF run[2] \in passed THEN run[2] ELSE failed
      [] run[1] = "EXECUTION" -> failed
      [] run[1] = "CLEANUP" -> "SANDBOX_CONTRACT_UNVERIFIED"
      [] run[1] = "UNAVAILABLE" -> "SANDBOX_UNAVAILABLE"
      [] run[1] \in {"CPU", "MEMORY", "OUTPUT_LIMIT", "TIMEOUT"} -> "WORKER_LIMIT_EXCEEDED"
      [] OTHER -> run[1]

PreflightWorker(run) == Translated(run, {"SANDBOX_CONTRACT_UNVERIFIED"}, "WORKER_FAILED")

(* A bug: normalization's bridge knows no more codes than preflight's.     *)
NormalizationWorkerAsPreflight(run) == PreflightWorker(run)

NormalizationWorker(run) ==
    Translated(run, {"SANDBOX_CONTRACT_UNVERIFIED", "WORKER_LIMIT_EXCEEDED"}, "WORKER_FAILED")

ExtractionWorker(run) ==
    Translated(run, {"SANDBOX_CONTRACT_UNVERIFIED", "SCANNED_PDF_UNSUPPORTED",
                     "WORKER_LIMIT_EXCEEDED"}, "WORKER_FAILED")

RenderWorker(run) ==
    Translated(run, {"RENDER_FAILED", "SANDBOX_CONTRACT_UNVERIFIED", "WORKER_LIMIT_EXCEEDED"},
               "RENDER_FAILED")

QaWorker(run) ==
    Translated(run, {"QA_FAILED", "SANDBOX_CONTRACT_UNVERIFIED", "WORKER_LIMIT_EXCEEDED"},
               "QA_WORKER_FAILED")

(* What came back is decoded and held against what the bridge knows.       *)
Decoded(c) == "schema" \notin DOMAIN c.wrong

PreflightIsDecoded(c) ==
    /\ Decoded(c) /\ Sized(c.size.artifact, WorkerLimits.result)
    /\ PreflightLimits = [file_bytes |-> "max_input_bytes", page_count |-> "max_pages",
                          object_count |-> "max_objects",
                          recursion_depth |-> "max_recursion_depth",
                          decompressed_stream_bytes |-> "max_uncompressed_bytes",
                          image_bytes |-> "max_image_bytes"]

NormalizationIsDecoded(c) ==
    /\ Decoded(c) /\ Sized(c.size.artifact, WorkerLimits.result)
    /\ Sized(c.size.pdf, WorkerLimits.normalized)

ManifestIsDecoded(c) == Decoded(c) /\ Sized(c.size.artifact, WorkerLimits.result)

PreflightTold(c) ==
    LET code == PreflightWorker(RunWorker(c))
    IN  CASE code = "OSError" -> "INPUT_REJECTED"
          [] code = "RuntimeError" -> "WORKER_FAILED"
          [] code = "ProtocolError" \/ (code = "OK" /\ ~PreflightIsDecoded(c)) ->
                 "PREFLIGHT_ARTIFACT_INVALID"
          [] code = "OK" /\ PreflightIsDecoded(c) /\ "paper" \in DOMAIN c.wrong ->
                 "PREFLIGHT_REJECTED"
          [] OTHER -> code

NormalizationTold(c) ==
    LET code == NormalizationWorker(RunWorker(c))
    IN  CASE code \in {"OSError", "RuntimeError"} -> "WORKER_FAILED"
          [] code = "ProtocolError" \/ (code = "OK" /\ ~NormalizationIsDecoded(c)) ->
                 "NORMALIZATION_ARTIFACT_INVALID"
          [] OTHER -> code

ExtractionTold(c) ==
    LET code == ExtractionWorker(RunWorker(c))
    IN  CASE code = "OSError" -> "WORKER_FAILED"
          [] code \in {"ProtocolError", "RuntimeError"} \/ (code = "OK" /\ ~Decoded(c)) ->
                 "EXTRACTION_ARTIFACT_INVALID"
          [] OTHER -> code

RenderTold(c) ==
    LET code == RenderWorker(RunWorker(c))
    IN  CASE code = "OSError" -> "RENDER_INPUT_INVALID"
          [] code \in {"ProtocolError", "RuntimeError"} -> "raised"
          [] code = "OK" /\ ~ManifestIsDecoded(c) -> "RENDER_MANIFEST_INVALID"
          [] OTHER -> code

(* A report that fails comes back as a success; persisting it tells so.    *)
QaTold(c) ==
    LET code == QaWorker(RunWorker(c))
    IN  CASE code = "OSError" -> "QA_INPUT_INVALID"
          [] code \in {"ProtocolError", "RuntimeError"} -> "raised"
          [] code = "OK" /\ ~Decoded(c) -> "QA_ARTIFACT_INVALID"
          [] code = "OK" /\ Decoded(c) /\ "paper" \in DOMAIN c.wrong -> "QA_FAILED"
          [] OTHER -> code

Told(c) == CASE c.op = "preflight" -> PreflightTold(c) [] c.op = "normalize" -> NormalizationTold(c)
             [] c.op = "extract" -> ExtractionTold(c)  [] c.op = "render" -> RenderTold(c)
             [] c.op = "qa" -> QaTold(c)

(* The codes that a bridge has a message for; it cannot return another.    *)
PreflightMessages ==
    {"INPUT_REJECTED", "SANDBOX_UNAVAILABLE", "SANDBOX_CONTRACT_UNVERIFIED",
     "WORKER_LIMIT_EXCEEDED", "WORKER_FAILED", "PREFLIGHT_REJECTED",
     "PREFLIGHT_ARTIFACT_INVALID", "ARTIFACT_EXISTS"}

NormalizationMessages ==
    {"INPUT_REJECTED", "PREFLIGHT_ARTIFACT_INVALID", "SANDBOX_UNAVAILABLE",
     "SANDBOX_CONTRACT_UNVERIFIED", "WORKER_LIMIT_EXCEEDED", "WORKER_FAILED",
     "NORMALIZATION_ARTIFACT_INVALID", "ARTIFACT_EXISTS"}

ExtractionMessages ==
    {"INPUT_REJECTED", "PREFLIGHT_ARTIFACT_INVALID", "NORMALIZATION_ARTIFACT_INVALID",
     "SANDBOX_UNAVAILABLE", "SANDBOX_CONTRACT_UNVERIFIED", "WORKER_LIMIT_EXCEEDED",
     "WORKER_FAILED", "SCANNED_PDF_UNSUPPORTED", "EXTRACTION_ARTIFACT_INVALID",
     "ARTIFACT_EXISTS"}
=============================================================================

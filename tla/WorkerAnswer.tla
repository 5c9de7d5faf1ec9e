----------------------------- MODULE WorkerAnswer -----------------------------
(***************************************************************************)
(* The child of the Windows sandbox, security/windows_worker.py: one       *)
(* request in, one answer out.  An operation is a list of steps; what goes *)
(* wrong in a step raises an exception, and the except clauses around the  *)
(* step say how it is answered.  worker_protocol.py says which requests    *)
(* and answers there are.                                                  *)
(*                                                                         *)
(* A call c has an operation c.op, c.wrong, a function from the steps in   *)
(* which something is wrong to what is wrong there, and c.size, the sizes  *)
(* of the files that the operation makes (in units of 16 MiB, rounded up). *)
(***************************************************************************)
EXTENDS Naturals, Sequences

-----------------------------------------------------------------------------
(* Requests and answers.                                                   *)

WorkerLimits == [result |-> 1, extraction |-> 8, normalized |-> 8, output |-> 16]

(* The limits that a preflight checks, by the names its artifact gives them. *)
PreflightLimits ==
    [file_bytes |-> "max_input_bytes", page_count |-> "max_pages",
     object_count |-> "max_objects", recursion_depth |-> "max_recursion_depth",
     decompressed_stream_bytes |-> "max_uncompressed_bytes", image_bytes |-> "max_image_bytes"]

PreflightRequestIsValid(p) ==
    p = [policy_version |-> "preflight", source_sha256 |-> "hash", input_bytes |-> "size"]

ExtractionRequestIsValid(p) ==
    /\ DOMAIN p = {"policy_version", "source_sha256", "normalized_pdf_sha256", "input_bytes",
                   "preflight_sha256", "normalization_sha256"}
    /\ p.policy_version = "extract" /\ p.input_bytes = "size"
    /\ \A n \in DOMAIN p \ {"policy_version", "input_bytes"} : p[n] = "hash"

NormalizationRequestIsValid(p) ==
    p = [policy_version |-> "normalize", source_sha256 |-> "hash", input_bytes |-> "size",
         preflight_sha256 |-> "hash"]

RenderRequestIsValid(p) ==
    p = [policy_version |-> "render", input_bytes |-> "size", normalized_pdf_sha256 |-> "hash",
         handoff_bytes |-> "size", handoff_sha256 |-> "hash"]

QaRequestIsValid(p) ==
    /\ DOMAIN p = {"policy_version", "input_bytes", "normalized_pdf_sha256", "candidate_bytes",
                   "candidate_pdf_sha256", "handoff_bytes", "handoff_sha256"}
    /\ p.policy_version = "qa"
    /\ \A n \in {"input_bytes", "candidate_bytes", "handoff_bytes"} : p[n] = "size"
    /\ \A n \in {"normalized_pdf_sha256", "candidate_pdf_sha256", "handoff_sha256"} :
           p[n] = "hash"

RequestIsValid(o, p) ==
    CASE o = "preflight" -> PreflightRequestIsValid(p)
      [] o = "extract" -> ExtractionRequestIsValid(p)
      [] o = "normalize" -> NormalizationRequestIsValid(p)
      [] o = "render" -> RenderRequestIsValid(p)
      [] o = "qa" -> QaRequestIsValid(p)

Succeeded(files) == [status |-> "ok", result |-> files, error |-> "none"]
Failed(code) == [status |-> "error", result |-> {}, error |-> code]
Died(raised) == [status |-> "died", result |-> {}, error |-> raised]

(* An answer with a result has no error, and one with an error no result.  *)
ResponseIsValid(answer) ==
    \/ answer.status = "ok" /\ answer.error = "none"
    \/ answer.status = "error" /\ answer.result = {} /\ answer.error # "none"

-----------------------------------------------------------------------------
(* Exceptions.                                                             *)

ValueErrors == {"ValueError", "ProtocolError", "NormalizationError", "CompositionError",
                "ScannedPdfUnsupportedError"}
Errors == ValueErrors \cup {"OSError", "ImportError", "RuntimeError", "MemoryError"}

(* What the entry point makes of an exception that the operation let pass. *)
ChildMain(raised) ==
    CASE raised = "ProtocolError" -> Failed("PROTOCOL_ERROR")
      [] raised \in (ValueErrors \ {"ProtocolError"}) \cup {"OSError"} ->
             Failed("WORKER_EXECUTION_FAILED")
      [] OTHER -> Died(raised)

Clause(errors, code) == [e \in errors |-> code]     \* except errors: code

(* Clauses in their order: the first that names an error answers it.       *)
Else(f, g) == [e \in DOMAIN f \cup DOMAIN g |-> IF e \in DOMAIN f THEN f[e] ELSE g[e]]

NoClause == <<>>

(* A step in which something is raised ends the operation.                 *)
Attempt(raised, clauses) ==
    IF raised = "nothing" THEN <<>>
    ELSE <<IF raised \in DOMAIN clauses THEN Failed(clauses[raised]) ELSE ChildMain(raised)>>

(* Steps in their order: the first that ends the operation answers.        *)
s ?? t == IF s = <<>> THEN t ELSE s

Raises(c, step, effects) ==
    IF step \in DOMAIN c.wrong THEN effects[c.wrong[step]] ELSE "nothing"

Itself == [e \in Errors |-> e]

(* Parts of the cores catch what is raised in them, most of them a refused *)
(* allocation too, and raise an error of their own, or go on to a report   *)
(* that fails.                                                             *)
CoreEffects(error) == Else(Itself, Clause({"swallowed"}, error))

-----------------------------------------------------------------------------
(* What a file that is not as it should be raises.                         *)

PathEffects == Clause({"missing", "linked"}, "ProtocolError")

ReadEffects == Else(PathEffects, Else(Clause({"empty", "oversized", "changed"}, "ProtocolError"),
                   Else(Clause({"unreadable"}, "OSError"),
                        Clause({"starved"}, "MemoryError"))))

(* An artifact of an earlier operation: its hash, JSON, form and identity. *)
PreflightEffects == Else(ReadEffects, Else(Clause({"garbled"}, "ValueError"),
                        Clause({"another", "padded", "foreign"}, "ProtocolError")))

NormalizationEffects == Else(ReadEffects, Else(Clause({"garbled"}, "ValueError"),
                            Clause({"another", "padded", "foreign"}, "ProtocolError")))

HandoffEffects == Else(ReadEffects, Else(Clause({"garbled"}, "ValueError"),
                      Clause({"another", "padded", "foreign"}, "ProtocolError")))

InputEffects == Else(ReadEffects, Clause({"another"}, "ProtocolError"))

CountEffects == Clause({"page", "collection"}, "ProtocolError")
ResultEffects == Else(CountEffects, Clause({"differs"}, "ProtocolError"))

(* Writing: the output directory and the file must both be new.            *)
WriteEffects == Else(PathEffects, Else(Clause({"present"}, "ProtocolError"),
                    Else(Clause({"exists", "full"}, "OSError"),
                         Clause({"starved"}, "MemoryError"))))

Sized(size, limit) == size \in 1 .. limit

PreflightWrite(c) ==
    IF Sized(c.size.artifact, WorkerLimits.result)
    THEN Raises(c, "write", WriteEffects) ELSE "ProtocolError"

ExtractionWrite(c) ==
    IF Sized(c.size.artifact, WorkerLimits.extraction)
    THEN Raises(c, "write", WriteEffects) ELSE "ProtocolError"

(* Both files are removed when one cannot be written.                      *)
NormalizationWrite(c) ==
    IF Sized(c.size.pdf, WorkerLimits.normalized) /\ Sized(c.size.artifact, WorkerLimits.result)
    THEN Raises(c, "write", WriteEffects) ELSE "ProtocolError"

QaWrite(c) ==
    IF Sized(c.size.artifact, WorkerLimits.result)
    THEN Raises(c, "write", WriteEffects) ELSE "ProtocolError"

(* Rendering writes by itself; its files are then read for their hashes.   *)
RenderRead(c) ==
    IF Sized(c.size.pdf, WorkerLimits.output) /\ Sized(c.size.artifact, WorkerLimits.result)
    THEN Raises(c, "write", ReadEffects) ELSE "ProtocolError"

-----------------------------------------------------------------------------
(* The operations.                                                         *)

Contract(c) ==
    IF "token" \in DOMAIN c.wrong THEN <<Failed("SANDBOX_CONTRACT_UNVERIFIED")>> ELSE <<>>

MemoryLimit == Clause({"MemoryError"}, "WORKER_LIMIT_EXCEEDED")
FileErrors == ValueErrors \cup {"OSError"}

PreflightAnswer(c) ==
    Head(Contract(c)
         ?? Attempt(Raises(c, "input", PathEffects), NoClause)
         ?? Attempt(Raises(c, "core", Itself), NoClause)
         ?? Attempt(Raises(c, "result", ResultEffects), NoClause)
         ?? Attempt(PreflightWrite(c), NoClause)
         ?? <<Succeeded({"artifact"})>>)

ExtractionAnswer(c) ==
    Head(Contract(c)
         ?? Attempt(Raises(c, "input", InputEffects), NoClause)
         ?? Attempt(Raises(c, "preflight", PreflightEffects),
                Clause(FileErrors, "PREFLIGHT_IDENTITY_INVALID"))
         ?? Attempt(Raises(c, "normalization", NormalizationEffects),
                Clause(FileErrors, "NORMALIZATION_IDENTITY_INVALID"))
         ?? Attempt(Raises(c, "runtime", Itself),
                Clause({"ImportError", "OSError"}, "EXTRACTION_RUNTIME_UNAVAILABLE"))
         ?? Attempt(Raises(c, "core", Itself),
                Else(Clause({"ScannedPdfUnsupportedError"}, "SCANNED_PDF_UNSUPPORTED"),
                     Else(MemoryLimit, Clause(Errors, "EXTRACTION_FAILED"))))
         ?? Attempt(Raises(c, "result", ResultEffects), NoClause)
         ?? Attempt(ExtractionWrite(c),
                Else(MemoryLimit, Clause(FileErrors, "EXTRACTION_ARTIFACT_WRITE_FAILED")))
         ?? <<Succeeded({"artifact"})>>)

(* _stable_normalization_error_code: a NormalizationError has a code.      *)
StableCode == Clause({"NormalizationError"}, "NORMALIZATION_PDF_INVALID")

NormalizationAnswer(c) ==
    Head(Contract(c)
         ?? Attempt(Raises(c, "input", InputEffects),
                Clause(FileErrors, "NORMALIZATION_SOURCE_INVALID"))
         ?? Attempt(Raises(c, "preflight", PreflightEffects),
                Clause(FileErrors, "PREFLIGHT_IDENTITY_INVALID"))
         ?? Attempt(Raises(c, "runtime", Itself),
                Clause({"ImportError", "OSError"}, "NORMALIZATION_RUNTIME_UNAVAILABLE"))
         ?? Attempt(Raises(c, "core", CoreEffects("NormalizationError")),
                Else(StableCode, Else(MemoryLimit, Clause(Errors, "NORMALIZATION_FAILED"))))
         ?? Attempt(Raises(c, "result", ResultEffects),
                Clause(FileErrors, "NORMALIZATION_ARTIFACT_INVALID"))
         ?? Attempt(NormalizationWrite(c),
                Else(MemoryLimit, Clause(FileErrors, "NORMALIZATION_ARTIFACT_WRITE_FAILED")))
         ?? <<Succeeded({"normalized_pdf", "normalization_artifact"})>>)

(* Importing, composing and reading what was composed stand in one try.    *)
RenderAnswer(c) ==
    LET clauses == Else(MemoryLimit, Else(Clause({"CompositionError"}, "SOURCE_PDF_INVALID"),
                                          Clause(Errors, "RENDER_FAILED")))
    IN  Head(Contract(c)
             ?? Attempt(Raises(c, "input", InputEffects), NoClause)
             ?? Attempt(Raises(c, "handoff", HandoffEffects), NoClause)
             ?? Attempt(Raises(c, "core", CoreEffects("CompositionError")), clauses)
             ?? Attempt(RenderRead(c), clauses)
             ?? Attempt(Raises(c, "result", ResultEffects), NoClause)
             ?? <<Succeeded({"candidate_pdf", "render_manifest", "composition"})>>)

QaAnswer(c) ==
    LET clauses == Else(MemoryLimit, Clause(Errors, "QA_FAILED"))
    IN  Head(Contract(c)
             ?? Attempt(Raises(c, "input", InputEffects), NoClause)
             ?? Attempt(Raises(c, "candidate", InputEffects), NoClause)
             ?? Attempt(Raises(c, "handoff", HandoffEffects), NoClause)
             ?? Attempt(Raises(c, "core", Itself), clauses)
             ?? Attempt(QaWrite(c), clauses)
             ?? <<Succeeded({"qa"})>>)

Dispatched(c) ==
    CASE c.op = "preflight" -> PreflightAnswer(c)
      [] c.op = "extract" -> ExtractionAnswer(c)
      [] c.op = "normalize" -> NormalizationAnswer(c)
      [] c.op = "render" -> RenderAnswer(c)
      [] c.op = "qa" -> QaAnswer(c)
=============================================================================

----------------------------- MODULE SandboxCases -----------------------------
(***************************************************************************)
(* Calls of the sandbox in which things are wrong, and what the caller is  *)
(* told of them.                                                           *)
(***************************************************************************)
EXTENDS Cases, SandboxAnswer

AskSandbox == Answer("sandbox", Told)

(* What can be wrong in a call of an operation, place by place.            *)
CanBeWrong(o) ==
    [cleanup |-> {"left"},
     prepare |-> DOMAIN PrepareEffects,
     machine |-> {"TIMEOUT", "OUTPUT_LIMIT", "CPU", "EXECUTION", "RuntimeError"},
     token |-> {"absent"},
     input |-> DOMAIN (IF o = "preflight" THEN PathEffects ELSE InputEffects),
     candidate |-> IF o = "qa" THEN DOMAIN InputEffects ELSE {},
     preflight |-> IF o \in {"normalize", "extract"} THEN DOMAIN PreflightEffects ELSE {},
     normalization |-> IF o = "extract" THEN DOMAIN NormalizationEffects ELSE {},
     handoff |-> IF o \in {"render", "qa"} THEN DOMAIN HandoffEffects ELSE {},
     runtime |-> IF o \in {"normalize", "extract"}
                 THEN Errors \ {"ScannedPdfUnsupportedError"} ELSE {},
     core |-> IF o = "extract" THEN Errors
              ELSE (Errors \ {"ScannedPdfUnsupportedError"})
                   \cup (IF o \in {"normalize", "render"} THEN {"swallowed"} ELSE {}),
     result |-> IF o = "qa" THEN {} ELSE DOMAIN ResultEffects,
     write |-> DOMAIN (IF o = "render" THEN ReadEffects ELSE WriteEffects),
     output |-> {"missing"},
     schema |-> {"garbled"},
     paper |-> IF o \in {"preflight", "qa"} THEN {"rejected", "swallowed"} ELSE {}]

(* A call of a sandboxed operation: any number of things wrong, any sizes. *)
IsSandboxCall(c) ==
    /\ DOMAIN c = {"call", "op", "wrong", "reported", "size"}
    /\ c.op \in {"preflight", "normalize", "extract", "render", "qa"}
    /\ DOMAIN c.wrong \subseteq DOMAIN CanBeWrong(c.op)
    /\ \A p \in DOMAIN c.wrong : c.wrong[p] \in CanBeWrong(c.op)[p]
    /\ c.reported \in BOOLEAN
    /\ c.size.pdf \in Nat /\ c.size.artifact \in Nat

(* Where something can be wrong, the decisive place first; the sizes of    *)
(* what was made are looked at before it is written, or read again.        *)
Rank(o) ==
    [cleanup |-> 1, prepare |-> 2, machine |-> 3, token |-> 4, input |-> 5, candidate |-> 6,
     preflight |-> 7, normalization |-> 8, handoff |-> 9, runtime |-> 10, core |-> 11,
     result |-> IF o = "render" THEN 15 ELSE 12, size |-> 13, write |-> 14, output |-> 16,
     schema |-> 17, paper |-> 18]

SizesFit(o, size) ==
    /\ size.artifact \in 1 .. (IF o = "extract" THEN 8 ELSE 1)
    /\ o = "normalize" => size.pdf \in 1 .. 8
    /\ o = "render" => size.pdf \in 1 .. 16

Troubles(c) == DOMAIN c.wrong \cup (IF SizesFit(c.op, c.size) THEN {} ELSE {"size"})

(* The place that decides what the caller is told, and what is wrong there. *)
Cause(c) ==
    IF Troubles(c) = {} THEN "none"
    ELSE CHOOSE p \in Troubles(c) : \A q \in Troubles(c) : Rank(c.op)[p] <= Rank(c.op)[q]

WrongThere(c) == IF Cause(c) \in DOMAIN c.wrong THEN c.wrong[Cause(c)] ELSE "none"

Messages(o) ==
    CASE o = "preflight" -> PreflightMessages
      [] o = "normalize" -> NormalizationMessages
      [] o = "extract" -> ExtractionMessages
      [] o = "render" -> {"SANDBOX_UNAVAILABLE", "SANDBOX_CONTRACT_UNVERIFIED",
                          "WORKER_LIMIT_EXCEEDED", "RENDER_FAILED", "RENDER_INPUT_INVALID",
                          "RENDER_MANIFEST_INVALID"}
      [] o = "qa" -> {"SANDBOX_UNAVAILABLE", "SANDBOX_CONTRACT_UNVERIFIED",
                      "WORKER_LIMIT_EXCEEDED", "QA_FAILED", "QA_WORKER_FAILED",
                      "QA_INPUT_INVALID", "QA_ARTIFACT_INVALID"}

(* What is told of the first thing that is wrong in a call.                *)
IsTrueOf(told, c) ==
    LET cause == Cause(c)
        what == WrongThere(c)
        starved == what \in {"starved", "MemoryError"}
    IN  /\ told = "OK" <=> cause = "none"
        /\ told = "SCANNED_PDF_UNSUPPORTED" <=> what = "ScannedPdfUnsupportedError"
        /\ told = "PREFLIGHT_REJECTED" <=> cause = "paper" /\ c.op = "preflight"
        /\ cause = "paper" /\ c.op = "qa" => told = "QA_FAILED"
        /\ what = "swallowed" /\ cause = "core" =>
               told = IF c.op = "normalize" THEN "WORKER_FAILED" ELSE "RENDER_FAILED"
        /\ told = "SANDBOX_CONTRACT_UNVERIFIED" <=> cause \in {"cleanup", "token"}
        /\ told = "SANDBOX_UNAVAILABLE" <=> what = "unavailable"
        /\ told = "WORKER_LIMIT_EXCEEDED" <=>
               \/ what \in {"TIMEOUT", "OUTPUT_LIMIT", "CPU"}
               \/ starved /\ c.reported
               \/ starved /\ cause \in {"core", "write"} /\ c.op # "preflight"
        /\ told = "raised" <=>
               /\ c.op \in {"render", "qa"}
               /\ \/ cause = "prepare" /\ what \in {"missing", "linked"}
                  \/ cause = "machine" /\ what = "RuntimeError"
        /\ told \in Messages(c.op) \cup {"OK", "raised"}

(* What the caller of a sandboxed operation is told is true of the first   *)
(* thing that was wrong: success only if nothing was, and what the child   *)
(* made within its limits is within those of the parent; a scanned paper,  *)
(* a missing sandbox, one that did not hold, and an exceeded limit, each   *)
(* by a code that means nothing else; a report that fails as a rejection.  *)
(* A refused allocation is told as a limit if it gets to a clause for it,  *)
(* and where there is none, if the Job's message arrived.  What is raised, *)
(* a refused allocation too, where a part of the core catches everything   *)
(* is told as that part's failure: of the paper by preflight and QA, of    *)
(* the work by normalization and rendering.  Every code has a message, and *)
(* only the render and the QA bridge let an exception of another kind      *)
(* through: for a path that cannot be resolved, and for an invariant of    *)
(* the parent that does not hold.                                          *)
AnswersAreTrue == Answered("sandbox") => IsTrueOf(result[1], input)
=============================================================================

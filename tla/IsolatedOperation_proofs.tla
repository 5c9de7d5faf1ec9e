---------------------- MODULE IsolatedOperation_proofs ----------------------
(* What IsolatedOperation promises, for every set of papers and every        *)
(* number of calls.                                                          *)
EXTENDS IsolatedOperation, TLAPS

Writing == {"first", "second", "reading", "undoing"}

(* While a call runs, the artifacts it was given stay what they were.        *)
ParentsHold ==
    pc # "idle" =>
        /\ expected # None
        /\ op # "preflight" => files["preflight"] = expected
        /\ op = "extract" => files["normalization"] = expected
        /\ op \in {"render", "qa"} => files["extraction"] = expected

(* What it copied is what they are about, once that has been compared, and   *)
(* the pending code is OK only for work that may be kept.                    *)
CopyIsKnown ==
    /\ pc = "opening" => copied = None
    /\ pc \notin {"idle", "opening"} => copied # None
    /\ pc \notin {"idle", "opening"} /\ op \in {"extract", "render", "qa"} => files["pdf"] = copied
    /\ pc \in Writing \cup {"working"} \/ (pc = "erasing" /\ pending = "OK") => IsExpected
    /\ pc \in Writing \/ (pc = "erasing" /\ pending = "OK") =>
          /\ op = "preflight" => copied \notin Rejected
          /\ op = "qa" => candidate = expected
    /\ pc \in Writing => copies = {}

(* Between its two files the first one is there; if this call made it,       *)
(* nothing that was reported and nothing that was made later rests on it.    *)
FirstIsThere ==
    /\ pc \notin {"idle", "second", "reading", "undoing"} => ~created
    /\ pc \in {"second", "reading", "undoing"} =>
          /\ WritesTwo(op)
          /\ files[First(op)] = copied
          /\ created => \A o \in Operations, p \in Papers :
                           <<o, p>> \in reported => First(o) # First(op)
          /\ op = "normalize" => files["extraction"] = None
    /\ pc = "reading" => op = "render" /\ files["manifest"] = copied
    /\ pc = "undoing" => pending # "OK"
    /\ op = "render" => pending # "ARTIFACT_EXISTS"

IInv == /\ TypeOK /\ ParentsHold /\ CopyIsKnown /\ FirstIsThere
        /\ CopiesAreErased /\ ChainIsBound /\ RetriesAreSafe

(* Which files an operation writes. *)
LEMMA FilesOfOperations ==
  /\ First("preflight") = "preflight" /\ First("normalize") = "pdf"
  /\ First("extract") = "extraction" /\ First("render") = "output" /\ First("qa") = "output"
  /\ Second("normalize") = "normalization" /\ Second("render") = "manifest"
  /\ Second("qa") = "manifest"
  /\ \A o \in Operations : /\ First(o) \in Files /\ Second(o) \in Files
                           /\ WritesTwo(o) <=> o \in {"normalize", "render"}
  BY DEF First, Second, WritesTwo, Operations, Files

LEMMA InitIInv == Init => IInv
<1> SUFFICES ASSUME Init PROVE IInv
  OBVIOUS
<1>1. TypeOK
  <2>1. files \in [Files -> Papers \cup {None}]
    BY DEF Init
  <2>2. calls \in 0 .. MaxCalls
    BY CallsAssumption DEF Init
  <2> QED
    BY <2>1, <2>2 DEF Init, TypeOK, Labels, Codes, Operations
<1>2. ParentsHold /\ CopyIsKnown /\ FirstIsThere
  BY DEF Init, ParentsHold, CopyIsKnown, FirstIsThere, Writing
<1>3. CopiesAreErased
  BY DEF Init, CopiesAreErased
<1>4. ChainIsBound
  BY PapersAssumption DEF Init, ChainIsBound, Files
<1>5. RetriesAreSafe
  BY DEF Init, RetriesAreSafe
<1> QED
  BY <1>1, <1>2, <1>3, <1>4, <1>5 DEF IInv

LEMMA CopyInputStep == ASSUME IInv, CopyInput PROVE IInv'
<1>1. TypeOK'
  BY PapersAssumption, FilesOfOperations
  DEF CopyInput, Go, Note, Return, locals, Input, CannotOpen, IoFails,
      IInv, TypeOK, ParentsHold, CopyIsKnown, FirstIsThere, Labels, Codes, Operations, Files, Writing, IsExpected
<1>2. ParentsHold'
  BY PapersAssumption, FilesOfOperations
  DEF CopyInput, Go, Note, Return, locals, Input, CannotOpen, IoFails,
      IInv, TypeOK, ParentsHold, CopyIsKnown, FirstIsThere, Operations, Files, Writing, IsExpected
<1>3. CopyIsKnown'
  BY PapersAssumption, FilesOfOperations
  DEF CopyInput, Go, Note, Return, locals, Input, CannotOpen, IoFails,
      IInv, TypeOK, ParentsHold, CopyIsKnown, FirstIsThere, ChainIsBound, Operations, Files, Writing, IsExpected
<1>4. FirstIsThere'
  BY PapersAssumption, FilesOfOperations
  DEF CopyInput, Go, Note, Return, locals, Input, CannotOpen, IoFails,
      IInv, TypeOK, ParentsHold, CopyIsKnown, FirstIsThere, ChainIsBound, RetriesAreSafe, Operations, Files, Writing, IsExpected
<1>5. CopiesAreErased'
  BY PapersAssumption, FilesOfOperations
  DEF CopyInput, Go, Note, Return, locals, Input, CannotOpen, IoFails,
      IInv, TypeOK, CopyIsKnown, CopiesAreErased, Writing, IsExpected
<1>6. ChainIsBound'
  BY PapersAssumption, FilesOfOperations
  DEF CopyInput, Go, Note, Return, locals, Input, CannotOpen, IoFails,
      IInv, TypeOK, ParentsHold, CopyIsKnown, FirstIsThere, ChainIsBound, Operations, Files, Writing, IsExpected
<1>7. RetriesAreSafe'
  BY PapersAssumption, FilesOfOperations
  DEF CopyInput, Go, Note, Return, locals, Input, CannotOpen, IoFails,
      IInv, TypeOK, ParentsHold, CopyIsKnown, FirstIsThere, ChainIsBound, RetriesAreSafe, Operations, Files, Writing, IsExpected
<1> QED
  BY <1>1, <1>2, <1>3, <1>4, <1>5, <1>6, <1>7 DEF IInv

LEMMA StageStep == ASSUME IInv, Stage PROVE IInv'
<1>1. TypeOK'
  BY PapersAssumption, FilesOfOperations
  DEF Stage, Go, Note, Return, locals, IsExpected, IoFails,
      IInv, TypeOK, ParentsHold, CopyIsKnown, FirstIsThere, Labels, Codes, Operations, Files, Writing
<1>2. ParentsHold'
  BY PapersAssumption, FilesOfOperations
  DEF Stage, Go, Note, Return, locals, IsExpected, IoFails,
      IInv, TypeOK, ParentsHold, CopyIsKnown, FirstIsThere, Operations, Files, Writing
<1>3. CopyIsKnown'
  BY PapersAssumption, FilesOfOperations
  DEF Stage, Go, Note, Return, locals, IsExpected, IoFails,
      IInv, TypeOK, ParentsHold, CopyIsKnown, FirstIsThere, ChainIsBound, Operations, Files, Writing
<1>4. FirstIsThere'
  BY PapersAssumption, FilesOfOperations
  DEF Stage, Go, Note, Return, locals, IsExpected, IoFails,
      IInv, TypeOK, ParentsHold, CopyIsKnown, FirstIsThere, ChainIsBound, RetriesAreSafe, Operations, Files, Writing
<1>5. CopiesAreErased'
  BY PapersAssumption, FilesOfOperations
  DEF Stage, Go, Note, Return, locals, IsExpected, IoFails,
      IInv, TypeOK, CopyIsKnown, CopiesAreErased, Writing
<1>6. ChainIsBound'
  BY PapersAssumption, FilesOfOperations
  DEF Stage, Go, Note, Return, locals, IsExpected, IoFails,
      IInv, TypeOK, ParentsHold, CopyIsKnown, FirstIsThere, ChainIsBound, Operations, Files, Writing
<1>7. RetriesAreSafe'
  BY PapersAssumption, FilesOfOperations
  DEF Stage, Go, Note, Return, locals, IsExpected, IoFails,
      IInv, TypeOK, ParentsHold, CopyIsKnown, FirstIsThere, ChainIsBound, RetriesAreSafe, Operations, Files, Writing
<1> QED
  BY <1>1, <1>2, <1>3, <1>4, <1>5, <1>6, <1>7 DEF IInv

LEMMA RunWorkerStep == ASSUME IInv, RunWorker PROVE IInv'
<1>1. TypeOK'
  BY PapersAssumption, FilesOfOperations
  DEF RunWorker, Go, Note, Return, locals, IsExpected,
      IInv, TypeOK, ParentsHold, CopyIsKnown, FirstIsThere, Labels, Codes, Operations, Files, Writing
<1>2. ParentsHold'
  BY PapersAssumption, FilesOfOperations
  DEF RunWorker, Go, Note, Return, locals, IsExpected,
      IInv, TypeOK, ParentsHold, CopyIsKnown, FirstIsThere, Operations, Files, Writing
<1>3. CopyIsKnown'
  BY PapersAssumption, FilesOfOperations
  DEF RunWorker, Go, Note, Return, locals, IsExpected,
      IInv, TypeOK, ParentsHold, CopyIsKnown, FirstIsThere, ChainIsBound, Operations, Files, Writing
<1>4. FirstIsThere'
  BY PapersAssumption, FilesOfOperations
  DEF RunWorker, Go, Note, Return, locals, IsExpected,
      IInv, TypeOK, ParentsHold, CopyIsKnown, FirstIsThere, ChainIsBound, RetriesAreSafe, Operations, Files, Writing
<1>5. CopiesAreErased'
  BY PapersAssumption, FilesOfOperations
  DEF RunWorker, Go, Note, Return, locals, IsExpected,
      IInv, TypeOK, CopyIsKnown, CopiesAreErased, Writing
<1>6. ChainIsBound'
  BY PapersAssumption, FilesOfOperations
  DEF RunWorker, Go, Note, Return, locals, IsExpected,
      IInv, TypeOK, ParentsHold, CopyIsKnown, FirstIsThere, ChainIsBound, Operations, Files, Writing
<1>7. RetriesAreSafe'
  BY PapersAssumption, FilesOfOperations
  DEF RunWorker, Go, Note, Return, locals, IsExpected,
      IInv, TypeOK, ParentsHold, CopyIsKnown, FirstIsThere, ChainIsBound, RetriesAreSafe, Operations, Files, Writing
<1> QED
  BY <1>1, <1>2, <1>3, <1>4, <1>5, <1>6, <1>7 DEF IInv

LEMMA InterruptCopyingStep == ASSUME IInv, InterruptCopying PROVE IInv'
<1>1. TypeOK'
  BY PapersAssumption, FilesOfOperations
  DEF InterruptCopying, Go, Note, Return, locals,
      IInv, TypeOK, ParentsHold, CopyIsKnown, FirstIsThere, Labels, Codes, Operations, Files, Writing, IsExpected
<1>2. ParentsHold'
  BY PapersAssumption, FilesOfOperations
  DEF InterruptCopying, Go, Note, Return, locals,
      IInv, TypeOK, ParentsHold, CopyIsKnown, FirstIsThere, Operations, Files, Writing, IsExpected
<1>3. CopyIsKnown'
  BY PapersAssumption, FilesOfOperations
  DEF InterruptCopying, Go, Note, Return, locals,
      IInv, TypeOK, ParentsHold, CopyIsKnown, FirstIsThere, ChainIsBound, Operations, Files, Writing, IsExpected
<1>4. FirstIsThere'
  BY PapersAssumption, FilesOfOperations
  DEF InterruptCopying, Go, Note, Return, locals,
      IInv, TypeOK, ParentsHold, CopyIsKnown, FirstIsThere, ChainIsBound, RetriesAreSafe, Operations, Files, Writing, IsExpected
<1>5. CopiesAreErased'
  BY PapersAssumption, FilesOfOperations
  DEF InterruptCopying, Go, Note, Return, locals,
      IInv, TypeOK, CopyIsKnown, CopiesAreErased, Writing, IsExpected
<1>6. ChainIsBound'
  BY PapersAssumption, FilesOfOperations
  DEF InterruptCopying, Go, Note, Return, locals,
      IInv, TypeOK, ParentsHold, CopyIsKnown, FirstIsThere, ChainIsBound, Operations, Files, Writing, IsExpected
<1>7. RetriesAreSafe'
  BY PapersAssumption, FilesOfOperations
  DEF InterruptCopying, Go, Note, Return, locals,
      IInv, TypeOK, ParentsHold, CopyIsKnown, FirstIsThere, ChainIsBound, RetriesAreSafe, Operations, Files, Writing, IsExpected
<1> QED
  BY <1>1, <1>2, <1>3, <1>4, <1>5, <1>6, <1>7 DEF IInv

LEMMA InterruptStep == ASSUME IInv, Interrupt PROVE IInv'
<1>1. TypeOK'
  BY PapersAssumption, FilesOfOperations
  DEF Interrupt, Go, Note, Return, locals,
      IInv, TypeOK, ParentsHold, CopyIsKnown, FirstIsThere, Labels, Codes, Operations, Files, Writing, IsExpected
<1>2. ParentsHold'
  BY PapersAssumption, FilesOfOperations
  DEF Interrupt, Go, Note, Return, locals,
      IInv, TypeOK, ParentsHold, CopyIsKnown, FirstIsThere, Operations, Files, Writing, IsExpected
<1>3. CopyIsKnown'
  BY PapersAssumption, FilesOfOperations
  DEF Interrupt, Go, Note, Return, locals,
      IInv, TypeOK, ParentsHold, CopyIsKnown, FirstIsThere, ChainIsBound, Operations, Files, Writing, IsExpected
<1>4. FirstIsThere'
  BY PapersAssumption, FilesOfOperations
  DEF Interrupt, Go, Note, Return, locals,
      IInv, TypeOK, ParentsHold, CopyIsKnown, FirstIsThere, ChainIsBound, RetriesAreSafe, Operations, Files, Writing, IsExpected
<1>5. CopiesAreErased'
  BY PapersAssumption, FilesOfOperations
  DEF Interrupt, Go, Note, Return, locals,
      IInv, TypeOK, CopyIsKnown, CopiesAreErased, Writing, IsExpected
<1>6. ChainIsBound'
  BY PapersAssumption, FilesOfOperations
  DEF Interrupt, Go, Note, Return, locals,
      IInv, TypeOK, ParentsHold, CopyIsKnown, FirstIsThere, ChainIsBound, Operations, Files, Writing, IsExpected
<1>7. RetriesAreSafe'
  BY PapersAssumption, FilesOfOperations
  DEF Interrupt, Go, Note, Return, locals,
      IInv, TypeOK, ParentsHold, CopyIsKnown, FirstIsThere, ChainIsBound, RetriesAreSafe, Operations, Files, Writing, IsExpected
<1> QED
  BY <1>1, <1>2, <1>3, <1>4, <1>5, <1>6, <1>7 DEF IInv

LEMMA EraseCopyStep == ASSUME IInv, EraseCopy PROVE IInv'
<1>1. TypeOK'
  BY PapersAssumption, FilesOfOperations
  DEF EraseCopy, Go, Note, Return, locals, IoFails, CleanupFailure,
      IInv, TypeOK, ParentsHold, CopyIsKnown, FirstIsThere, Labels, Codes, Operations, Files, Writing, IsExpected
<1>2. ParentsHold'
  BY PapersAssumption, FilesOfOperations
  DEF EraseCopy, Go, Note, Return, locals, IoFails, CleanupFailure,
      IInv, TypeOK, ParentsHold, CopyIsKnown, FirstIsThere, Operations, Files, Writing, IsExpected
<1>3. CopyIsKnown'
  BY PapersAssumption, FilesOfOperations
  DEF EraseCopy, Go, Note, Return, locals, IoFails, CleanupFailure,
      IInv, TypeOK, ParentsHold, CopyIsKnown, FirstIsThere, ChainIsBound, Operations, Files, Writing, IsExpected
<1>4. FirstIsThere'
  BY PapersAssumption, FilesOfOperations
  DEF EraseCopy, Go, Note, Return, locals, IoFails, CleanupFailure,
      IInv, TypeOK, ParentsHold, CopyIsKnown, FirstIsThere, ChainIsBound, RetriesAreSafe, Operations, Files, Writing, IsExpected
<1>5. CopiesAreErased'
  BY PapersAssumption, FilesOfOperations
  DEF EraseCopy, Go, Note, Return, locals, IoFails, CleanupFailure,
      IInv, TypeOK, CopyIsKnown, CopiesAreErased, Writing, IsExpected
<1>6. ChainIsBound'
  BY PapersAssumption, FilesOfOperations
  DEF EraseCopy, Go, Note, Return, locals, IoFails, CleanupFailure,
      IInv, TypeOK, ParentsHold, CopyIsKnown, FirstIsThere, ChainIsBound, Operations, Files, Writing, IsExpected
<1>7. RetriesAreSafe'
  BY PapersAssumption, FilesOfOperations
  DEF EraseCopy, Go, Note, Return, locals, IoFails, CleanupFailure,
      IInv, TypeOK, ParentsHold, CopyIsKnown, FirstIsThere, ChainIsBound, RetriesAreSafe, Operations, Files, Writing, IsExpected
<1> QED
  BY <1>1, <1>2, <1>3, <1>4, <1>5, <1>6, <1>7 DEF IInv

LEMMA InterruptCleanupStep == ASSUME IInv, InterruptCleanup PROVE IInv'
<1>1. TypeOK'
  BY PapersAssumption, FilesOfOperations
  DEF InterruptCleanup, Go, Note, Return, locals,
      IInv, TypeOK, ParentsHold, CopyIsKnown, FirstIsThere, Labels, Codes, Operations, Files, Writing, IsExpected
<1>2. ParentsHold'
  BY PapersAssumption, FilesOfOperations
  DEF InterruptCleanup, Go, Note, Return, locals,
      IInv, TypeOK, ParentsHold, CopyIsKnown, FirstIsThere, Operations, Files, Writing, IsExpected
<1>3. CopyIsKnown'
  BY PapersAssumption, FilesOfOperations
  DEF InterruptCleanup, Go, Note, Return, locals,
      IInv, TypeOK, ParentsHold, CopyIsKnown, FirstIsThere, ChainIsBound, Operations, Files, Writing, IsExpected
<1>4. FirstIsThere'
  BY PapersAssumption, FilesOfOperations
  DEF InterruptCleanup, Go, Note, Return, locals,
      IInv, TypeOK, ParentsHold, CopyIsKnown, FirstIsThere, ChainIsBound, RetriesAreSafe, Operations, Files, Writing, IsExpected
<1>5. CopiesAreErased'
  BY PapersAssumption, FilesOfOperations
  DEF InterruptCleanup, Go, Note, Return, locals,
      IInv, TypeOK, CopyIsKnown, CopiesAreErased, Writing, IsExpected
<1>6. ChainIsBound'
  BY PapersAssumption, FilesOfOperations
  DEF InterruptCleanup, Go, Note, Return, locals,
      IInv, TypeOK, ParentsHold, CopyIsKnown, FirstIsThere, ChainIsBound, Operations, Files, Writing, IsExpected
<1>7. RetriesAreSafe'
  BY PapersAssumption, FilesOfOperations
  DEF InterruptCleanup, Go, Note, Return, locals,
      IInv, TypeOK, ParentsHold, CopyIsKnown, FirstIsThere, ChainIsBound, RetriesAreSafe, Operations, Files, Writing, IsExpected
<1> QED
  BY <1>1, <1>2, <1>3, <1>4, <1>5, <1>6, <1>7 DEF IInv

LEMMA WriteFirstStep == ASSUME IInv, WriteFirst PROVE IInv'
<1>1. TypeOK'
  <2>1. op \in Operations /\ First(op) \in Files /\ copied \in Papers
    BY FilesOfOperations DEF WriteFirst, IInv, TypeOK, CopyIsKnown
  <2>2. files' \in {files, [files EXCEPT ![First(op)] = copied]}
    BY DEF WriteFirst, Go, Return, Linked
  <2>3. files' \in [Files -> Papers \cup {None}]
    BY <2>1, <2>2 DEF IInv, TypeOK
  <2>4. reported' \in {reported, reported \cup {<<op, copied>>}}
    BY DEF WriteFirst, Go, Return
  <2>5. reported' \subseteq Operations \X Papers
    BY <2>1, <2>4 DEF IInv, TypeOK
  <2>6. pc' \in Labels /\ told' \in Codes /\ created' \in BOOLEAN
    BY DEF WriteFirst, Go, Return, IInv, TypeOK, Labels, Codes
  <2>7. UNCHANGED << source, op, expected, copied, candidate, copies, pending, calls >>
    BY DEF WriteFirst, Go, Return
  <2> QED
    BY <2>3, <2>5, <2>6, <2>7 DEF IInv, TypeOK
<1>2. ParentsHold'
  BY PapersAssumption, FilesOfOperations
  DEF WriteFirst, Go, Note, Return, locals, Linked, Free, Acceptable, IoFails,
      IInv, TypeOK, ParentsHold, CopyIsKnown, FirstIsThere, Operations, Files, Writing, IsExpected
<1>3. CopyIsKnown'
  BY PapersAssumption, FilesOfOperations
  DEF WriteFirst, Go, Note, Return, locals, Linked, Free, Acceptable, IoFails,
      IInv, TypeOK, ParentsHold, CopyIsKnown, FirstIsThere, ChainIsBound, Operations, Files, Writing, IsExpected
<1>4. FirstIsThere'
  BY PapersAssumption, FilesOfOperations
  DEF WriteFirst, Go, Note, Return, locals, Linked, Free, Acceptable, IoFails,
      IInv, TypeOK, ParentsHold, CopyIsKnown, FirstIsThere, ChainIsBound, RetriesAreSafe, Operations, Files, Writing, IsExpected
<1>5. CopiesAreErased'
  BY PapersAssumption, FilesOfOperations
  DEF WriteFirst, Go, Note, Return, locals, Linked, Free, Acceptable, IoFails,
      IInv, TypeOK, CopyIsKnown, CopiesAreErased, Writing, IsExpected
<1>6. ChainIsBound'
  BY PapersAssumption, FilesOfOperations
  DEF WriteFirst, Go, Note, Return, locals, Linked, Free, Acceptable, IoFails,
      IInv, TypeOK, ParentsHold, CopyIsKnown, FirstIsThere, ChainIsBound, Operations, Files, Writing, IsExpected
<1>7. RetriesAreSafe'
  BY PapersAssumption, FilesOfOperations
  DEF WriteFirst, Go, Note, Return, locals, Linked, Free, Acceptable, IoFails,
      IInv, TypeOK, ParentsHold, CopyIsKnown, FirstIsThere, ChainIsBound, RetriesAreSafe, Operations, Files, Writing, IsExpected
<1> QED
  BY <1>1, <1>2, <1>3, <1>4, <1>5, <1>6, <1>7 DEF IInv

LEMMA WriteSecondStep == ASSUME IInv, WriteSecond PROVE IInv'
<1>1. TypeOK'
  BY PapersAssumption, FilesOfOperations
  DEF WriteSecond, Go, Note, Return, locals, Linked, Free, Acceptable, IoFails,
      IInv, TypeOK, ParentsHold, CopyIsKnown, FirstIsThere, Labels, Codes, Operations, Files, Writing, IsExpected
<1>2. ParentsHold'
  BY PapersAssumption, FilesOfOperations
  DEF WriteSecond, Go, Note, Return, locals, Linked, Free, Acceptable, IoFails,
      IInv, TypeOK, ParentsHold, CopyIsKnown, FirstIsThere, Operations, Files, Writing, IsExpected
<1>3. CopyIsKnown'
  BY PapersAssumption, FilesOfOperations
  DEF WriteSecond, Go, Note, Return, locals, Linked, Free, Acceptable, IoFails,
      IInv, TypeOK, ParentsHold, CopyIsKnown, FirstIsThere, ChainIsBound, Operations, Files, Writing, IsExpected
<1>4. FirstIsThere'
  BY PapersAssumption, FilesOfOperations
  DEF WriteSecond, Go, Note, Return, locals, Linked, Free, Acceptable, IoFails,
      IInv, TypeOK, ParentsHold, CopyIsKnown, FirstIsThere, ChainIsBound, RetriesAreSafe, Operations, Files, Writing, IsExpected
<1>5. CopiesAreErased'
  BY PapersAssumption, FilesOfOperations
  DEF WriteSecond, Go, Note, Return, locals, Linked, Free, Acceptable, IoFails,
      IInv, TypeOK, CopyIsKnown, CopiesAreErased, Writing, IsExpected
<1>6. ChainIsBound'
  BY PapersAssumption, FilesOfOperations
  DEF WriteSecond, Go, Note, Return, locals, Linked, Free, Acceptable, IoFails,
      IInv, TypeOK, ParentsHold, CopyIsKnown, FirstIsThere, ChainIsBound, Operations, Files, Writing, IsExpected
<1>7. RetriesAreSafe'
  BY PapersAssumption, FilesOfOperations
  DEF WriteSecond, Go, Note, Return, locals, Linked, Free, Acceptable, IoFails,
      IInv, TypeOK, ParentsHold, CopyIsKnown, FirstIsThere, ChainIsBound, RetriesAreSafe, Operations, Files, Writing, IsExpected
<1> QED
  BY <1>1, <1>2, <1>3, <1>4, <1>5, <1>6, <1>7 DEF IInv

LEMMA ReadBackStep == ASSUME IInv, ReadBack PROVE IInv'
<1>1. TypeOK'
  BY PapersAssumption, FilesOfOperations
  DEF ReadBack, Go, Note, Return, locals, IoFails,
      IInv, TypeOK, ParentsHold, CopyIsKnown, FirstIsThere, Labels, Codes, Operations, Files, Writing, IsExpected
<1>2. ParentsHold'
  BY PapersAssumption, FilesOfOperations
  DEF ReadBack, Go, Note, Return, locals, IoFails,
      IInv, TypeOK, ParentsHold, CopyIsKnown, FirstIsThere, Operations, Files, Writing, IsExpected
<1>3. CopyIsKnown'
  BY PapersAssumption, FilesOfOperations
  DEF ReadBack, Go, Note, Return, locals, IoFails,
      IInv, TypeOK, ParentsHold, CopyIsKnown, FirstIsThere, ChainIsBound, Operations, Files, Writing, IsExpected
<1>4. FirstIsThere'
  BY PapersAssumption, FilesOfOperations
  DEF ReadBack, Go, Note, Return, locals, IoFails,
      IInv, TypeOK, ParentsHold, CopyIsKnown, FirstIsThere, ChainIsBound, RetriesAreSafe, Operations, Files, Writing, IsExpected
<1>5. CopiesAreErased'
  BY PapersAssumption, FilesOfOperations
  DEF ReadBack, Go, Note, Return, locals, IoFails,
      IInv, TypeOK, CopyIsKnown, CopiesAreErased, Writing, IsExpected
<1>6. ChainIsBound'
  BY PapersAssumption, FilesOfOperations
  DEF ReadBack, Go, Note, Return, locals, IoFails,
      IInv, TypeOK, ParentsHold, CopyIsKnown, FirstIsThere, ChainIsBound, Operations, Files, Writing, IsExpected
<1>7. RetriesAreSafe'
  BY PapersAssumption, FilesOfOperations
  DEF ReadBack, Go, Note, Return, locals, IoFails,
      IInv, TypeOK, ParentsHold, CopyIsKnown, FirstIsThere, ChainIsBound, RetriesAreSafe, Operations, Files, Writing, IsExpected
<1> QED
  BY <1>1, <1>2, <1>3, <1>4, <1>5, <1>6, <1>7 DEF IInv

LEMMA UndoStep == ASSUME IInv, Undo PROVE IInv'
<1>1. TypeOK'
  BY PapersAssumption, FilesOfOperations
  DEF Undo, Go, Note, Return, locals, IoFails, OwnsFirst,
      IInv, TypeOK, ParentsHold, CopyIsKnown, FirstIsThere, Labels, Codes, Operations, Files, Writing, IsExpected
<1>2. ParentsHold'
  BY PapersAssumption, FilesOfOperations
  DEF Undo, Go, Note, Return, locals, IoFails, OwnsFirst,
      IInv, TypeOK, ParentsHold, CopyIsKnown, FirstIsThere, Operations, Files, Writing, IsExpected
<1>3. CopyIsKnown'
  BY PapersAssumption, FilesOfOperations
  DEF Undo, Go, Note, Return, locals, IoFails, OwnsFirst,
      IInv, TypeOK, ParentsHold, CopyIsKnown, FirstIsThere, ChainIsBound, Operations, Files, Writing, IsExpected
<1>4. FirstIsThere'
  BY PapersAssumption, FilesOfOperations
  DEF Undo, Go, Note, Return, locals, IoFails, OwnsFirst,
      IInv, TypeOK, ParentsHold, CopyIsKnown, FirstIsThere, ChainIsBound, RetriesAreSafe, Operations, Files, Writing, IsExpected
<1>5. CopiesAreErased'
  BY PapersAssumption, FilesOfOperations
  DEF Undo, Go, Note, Return, locals, IoFails, OwnsFirst,
      IInv, TypeOK, CopyIsKnown, CopiesAreErased, Writing, IsExpected
<1>6. ChainIsBound'
  BY PapersAssumption, FilesOfOperations
  DEF Undo, Go, Note, Return, locals, IoFails, OwnsFirst,
      IInv, TypeOK, ParentsHold, CopyIsKnown, FirstIsThere, ChainIsBound, Operations, Files, Writing, IsExpected
<1>7. RetriesAreSafe'
  <2>1. op \in Operations /\ reported' = reported /\ pending # "OK"
    BY DEF Undo, Return, IInv, TypeOK, FirstIsThere
  <2>2. op = "render" => told' # "ARTIFACT_EXISTS"
    BY DEF Undo, Return, IInv, FirstIsThere
  <2>3. /\ files' \in {files, [files EXCEPT ![First(op)] = None]}
        /\ files' # files => created
    BY DEF Undo, OwnsFirst
  <2>4. ASSUME NEW o \in Operations, NEW p \in Papers, <<o, p>> \in reported, created
        PROVE  First(o) # First(op) /\ (WritesTwo(o) \/ o = "qa" => Second(o) # First(op))
    BY <2>1, <2>4, FilesOfOperations DEF Undo, IInv, FirstIsThere, Operations
  <2> QED
    <3>1. ASSUME NEW o \in Operations, NEW p \in Papers, <<o, p>> \in reported
          PROVE  /\ files'[First(o)] = p
                 /\ WritesTwo(o) \/ o = "qa" => files'[Second(o)] = p
      <4>1. /\ files[First(o)] = p
            /\ WritesTwo(o) \/ o = "qa" => files[Second(o)] = p
        BY <3>1 DEF IInv, RetriesAreSafe
      <4>2. CASE files' = files
        BY <4>1, <4>2
      <4>3. CASE files' # files
        <5>1. files' = [files EXCEPT ![First(op)] = None] /\ created
          BY <2>3, <4>3
        <5>2. First(o) # First(op) /\ (WritesTwo(o) \/ o = "qa" => Second(o) # First(op))
          BY <2>4, <3>1, <5>1
        <5>3. First(o) \in Files /\ Second(o) \in Files
          BY FilesOfOperations
        <5> QED
          BY <4>1, <5>1, <5>2, <5>3 DEF IInv, TypeOK
      <4> QED
        BY <4>2, <4>3
    <3> QED
      BY <2>1, <2>2, <3>1 DEF Undo, locals, RetriesAreSafe
<1> QED
  BY <1>1, <1>2, <1>3, <1>4, <1>5, <1>6, <1>7 DEF IInv

LEMMA InterruptWritingStep == ASSUME IInv, InterruptWriting PROVE IInv'
<1>1. TypeOK'
  BY PapersAssumption, FilesOfOperations
  DEF InterruptWriting, Go, Note, Return, locals, Linked, Free, OwnsFirst,
      IInv, TypeOK, ParentsHold, CopyIsKnown, FirstIsThere, Labels, Codes, Operations, Files, Writing, IsExpected
<1>2. ParentsHold'
  BY PapersAssumption, FilesOfOperations
  DEF InterruptWriting, Go, Note, Return, locals, Linked, Free, OwnsFirst,
      IInv, TypeOK, ParentsHold, CopyIsKnown, FirstIsThere, Operations, Files, Writing, IsExpected
<1>3. CopyIsKnown'
  BY PapersAssumption, FilesOfOperations
  DEF InterruptWriting, Go, Note, Return, locals, Linked, Free, OwnsFirst,
      IInv, TypeOK, ParentsHold, CopyIsKnown, FirstIsThere, ChainIsBound, Operations, Files, Writing, IsExpected
<1>4. FirstIsThere'
  BY PapersAssumption, FilesOfOperations
  DEF InterruptWriting, Go, Note, Return, locals, Linked, Free, OwnsFirst,
      IInv, TypeOK, ParentsHold, CopyIsKnown, FirstIsThere, ChainIsBound, RetriesAreSafe, Operations, Files, Writing, IsExpected
<1>5. CopiesAreErased'
  BY PapersAssumption, FilesOfOperations
  DEF InterruptWriting, Go, Note, Return, locals, Linked, Free, OwnsFirst,
      IInv, TypeOK, CopyIsKnown, CopiesAreErased, Writing, IsExpected
<1>6. ChainIsBound'
  BY PapersAssumption, FilesOfOperations
  DEF InterruptWriting, Go, Note, Return, locals, Linked, Free, OwnsFirst,
      IInv, TypeOK, ParentsHold, CopyIsKnown, FirstIsThere, ChainIsBound, Operations, Files, Writing, IsExpected
<1>7. RetriesAreSafe'
  BY PapersAssumption, FilesOfOperations
  DEF InterruptWriting, Go, Note, Return, locals, Linked, Free, OwnsFirst,
      IInv, TypeOK, ParentsHold, CopyIsKnown, FirstIsThere, ChainIsBound, RetriesAreSafe, Operations, Files, Writing, IsExpected
<1> QED
  BY <1>1, <1>2, <1>3, <1>4, <1>5, <1>6, <1>7 DEF IInv

LEMMA AcceptQaStep == ASSUME IInv, AcceptQa PROVE IInv'
<1>1. TypeOK'
  BY PapersAssumption, FilesOfOperations
  DEF AcceptQa, Go, Note, Return, locals, IoFails,
      IInv, TypeOK, ParentsHold, CopyIsKnown, FirstIsThere, Labels, Codes, Operations, Files, Writing, IsExpected
<1>2. ParentsHold'
  BY PapersAssumption, FilesOfOperations
  DEF AcceptQa, Go, Note, Return, locals, IoFails,
      IInv, TypeOK, ParentsHold, CopyIsKnown, FirstIsThere, Operations, Files, Writing, IsExpected
<1>3. CopyIsKnown'
  BY PapersAssumption, FilesOfOperations
  DEF AcceptQa, Go, Note, Return, locals, IoFails,
      IInv, TypeOK, ParentsHold, CopyIsKnown, FirstIsThere, ChainIsBound, Operations, Files, Writing, IsExpected
<1>4. FirstIsThere'
  BY PapersAssumption, FilesOfOperations
  DEF AcceptQa, Go, Note, Return, locals, IoFails,
      IInv, TypeOK, ParentsHold, CopyIsKnown, FirstIsThere, ChainIsBound, RetriesAreSafe, Operations, Files, Writing, IsExpected
<1>5. CopiesAreErased'
  BY PapersAssumption, FilesOfOperations
  DEF AcceptQa, Go, Note, Return, locals, IoFails,
      IInv, TypeOK, CopyIsKnown, CopiesAreErased, Writing, IsExpected
<1>6. ChainIsBound'
  BY PapersAssumption, FilesOfOperations
  DEF AcceptQa, Go, Note, Return, locals, IoFails,
      IInv, TypeOK, ParentsHold, CopyIsKnown, FirstIsThere, ChainIsBound, Operations, Files, Writing, IsExpected
<1>7. RetriesAreSafe'
  BY PapersAssumption, FilesOfOperations
  DEF AcceptQa, Go, Note, Return, locals, IoFails,
      IInv, TypeOK, ParentsHold, CopyIsKnown, FirstIsThere, ChainIsBound, RetriesAreSafe, Operations, Files, Writing, IsExpected
<1> QED
  BY <1>1, <1>2, <1>3, <1>4, <1>5, <1>6, <1>7 DEF IInv

LEMMA CrashStep == ASSUME IInv, Crash PROVE IInv'
  BY DEF Crash, Return, locals, IInv, TypeOK, ParentsHold, CopyIsKnown, FirstIsThere,
         CopiesAreErased, ChainIsBound, RetriesAreSafe, Labels, Codes, Writing, IsExpected

LEMMA EditSourceStep == ASSUME IInv, EditSource PROVE IInv'
  BY DEF EditSource, locals, IInv, TypeOK, ParentsHold, CopyIsKnown, FirstIsThere,
         CopiesAreErased, ChainIsBound, RetriesAreSafe, IsExpected

(* A call begins: with None for a paper it is refused at once. *)
LEMMA CallStep ==
  ASSUME IInv, NEW o \in Operations, NEW parent \in Papers \cup {None}, Call(o, parent),
         parent # None =>
             /\ o # "preflight" => files["preflight"] = parent
             /\ o = "extract" => files["normalization"] = parent
             /\ o \in {"render", "qa"} => files["extraction"] = parent
  PROVE  IInv'
<1>1. TypeOK'
  <2>1. calls' \in 0 .. MaxCalls
    BY CallsAssumption DEF Call, IInv, TypeOK
  <2> QED
    BY <2>1 DEF Call, Note, IInv, TypeOK, Labels, Codes
<1>2. ParentsHold'
  BY DEF Call, Note, IInv, ParentsHold
<1>3. CopyIsKnown'
  BY DEF Call, Note, IInv, CopyIsKnown, Writing
<1>4. FirstIsThere'
  BY DEF Call, Note, IInv, FirstIsThere
<1>5. CopiesAreErased' /\ ChainIsBound'
  BY DEF Call, Note, IInv, CopiesAreErased, ChainIsBound
<1>6. RetriesAreSafe'
  BY DEF Call, Note, IInv, RetriesAreSafe
<1> QED
  BY <1>1, <1>2, <1>3, <1>4, <1>5, <1>6 DEF IInv

(* Every operation begins with the paper that its parents are about. *)
LEMMA CallsStep ==
  ASSUME IInv, Preflight \/ Normalize \/ Extract \/ Render \/ ValidateQa
  PROVE  IInv'
<1>1. /\ source \in Papers
      /\ \A f \in Files : files[f] \in Papers \cup {None}
  BY DEF IInv, TypeOK
<1>2. \A f, g \in Files : files[f] # None /\ files[g] # None => files[f] = files[g]
  BY DEF IInv, ChainIsBound
<1>3. (\E f \in Files : files[f] # None) => files["preflight"] # None
  BY DEF IInv, ChainIsBound
<1>4. CASE Preflight
  BY <1>1, <1>4, CallStep DEF Preflight, Operations
<1>5. CASE Normalize
  BY <1>1, <1>5, CallStep DEF Normalize, Operations, Files
<1>6. CASE Extract
  BY <1>1, <1>6, CallStep DEF Extract, Agreed, Operations, Files
<1>7. CASE Render
  BY <1>1, <1>2, <1>3, <1>7, CallStep DEF Render, Operations, Files
<1>8. CASE ValidateQa
  BY <1>1, <1>2, <1>3, <1>8, CallStep DEF ValidateQa, Agreed, Operations, Files
<1> QED
  BY <1>4, <1>5, <1>6, <1>7, <1>8

LEMMA NextIInv == IInv /\ [Next]_vars => IInv'
<1> SUFFICES ASSUME IInv, [Next]_vars PROVE IInv'
  OBVIOUS
<1>1. CASE UNCHANGED vars
  BY <1>1
  DEF vars, locals, IInv, TypeOK, ParentsHold, CopyIsKnown, FirstIsThere, CopiesAreErased,
      ChainIsBound, RetriesAreSafe, IsExpected
<1>2. CASE Next
  BY <1>2, CallsStep, CopyInputStep, StageStep, RunWorkerStep, InterruptStep, EraseCopyStep,
     InterruptCopyingStep, InterruptCleanupStep,
     WriteFirstStep, WriteSecondStep, ReadBackStep, UndoStep, InterruptWritingStep,
     AcceptQaStep, CrashStep, EditSourceStep
  DEF Next
<1> QED
  BY <1>1, <1>2

(* The inductive invariant of the five operations. *)
THEOREM Invariance == Spec => []IInv
  BY InitIInv, NextIInv, PTL DEF Spec

(* The variables keep their types. *)
THEOREM TypeCorrect == Spec => []TypeOK
  BY Invariance, PTL DEF IInv

(* No call leaves a private copy behind without saying so, cancellations aside *)
(* as CopiesAreErased states them.                                            *)
THEOREM CopiesAlwaysErased == Spec => []CopiesAreErased
  BY Invariance, PTL DEF IInv

(* The directory is about one paper that passed preflight. *)
THEOREM ChainAlwaysBound == Spec => []ChainIsBound
  BY Invariance, PTL DEF IInv

(* What was reported stays, and a render never finds its own files in the way. *)
THEOREM RetriesAlwaysSafe == Spec => []RetriesAreSafe
  BY Invariance, PTL DEF IInv
=============================================================================

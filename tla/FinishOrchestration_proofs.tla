--------------------- MODULE FinishOrchestration_proofs ---------------------
(***************************************************************************)
(* What the two commands over one job id promise, for every number of      *)
(* commands, runs, sweeps and output paths and under every setting.        *)
(***************************************************************************)
EXTENDS FinishOrchestration, TLAPS

(* What a command that runs knows of itself: its locals have the shape it  *)
(* gave them, and the attempt is known from resolving to the end of the    *)
(* delivery.                                                               *)
FinishIsKnown(f) ==
    /\ pc[f] # "idle" => call[f] \in FinishCalls /\ runs[f] \in 1 .. MaxFinishes
    /\ pc[f] \in {"idle", "scoping", "loading", "verifying", "marking", "copying",
                  "opening", "abandoning", "cleaning", "parting"} \cup Working
    /\ pc[f] \in {"scoping", "loading", "verifying", "marking", "copying", "opening"} =>
          ~call[f].attempt /\ call[f].code = "OK"
    /\ pc[f] = "abandoning" => ~call[f].attempt
    /\ pc[f] \in Working => call[f].attempt
    /\ pc[f] \in {"resolving", "finishing", "published"} => call[f].code = "OK"
    /\ pc[f] \in {"abandoning", "disposing", "parting"} => call[f].code # "OK"

PreparationIsKnown(p) ==
    /\ pc[p] # "idle" => call[p] \in PrepareCalls
    /\ pc[p] \in {"idle", "marking", "extracting", "committing", "freezing", "unpreparing",
                  "prepared", "rejected"}
    /\ pc[p] \in {"marking", "extracting", "committing", "freezing"} => call[p].at < EXTRACTED

SweepIsKnown(s) ==
    /\ pc[s] \in {"idle", "sweeping"}
    /\ pc[s] = "sweeping" => call[s] \in SweepCalls

CommandsAreKnown ==
    /\ \A f \in Finishers : FinishIsKnown(f)
    /\ \A p \in Preparers : PreparationIsKnown(p)
    /\ \A s \in Sweepers : SweepIsKnown(s)

(* The directory of a run that has not begun is not there; and while the   *)
(* run lasts no sweep has found it.                                        *)
Unswept(d) == ~expired[d] /\ \A s \in Sweepers : pc[s] = "sweeping" => call[s].job # d

AttemptsAreFresh ==
    \A f \in Finishers, n \in 1 .. MaxFinishes :
        /\ n > runs[f] => dir[<< f, n >>] = "absent" /\ Unswept(<< f, n >>)
        /\ n = runs[f] /\ pc[f] # "idle" => Unswept(<< f, n >>)

(* Text lies in managed directories, and what is gone has no ledger.       *)
Tidy(d) == /\ text[d] # {} => dir[d] \in {"managed", "torn"}
           /\ dir[d] = "absent" => stage[d] = 0

(* An attempt is made, marked and filled in that order, and stays managed  *)
(* until the run itself cleans it up.                                      *)
AttemptIsManaged(f) ==
    /\ pc[f] \in {"scoping", "loading", "verifying"} => dir[Attempt(f)] = "absent"
    /\ pc[f] = "marking" => dir[Attempt(f)] = "bare" /\ stage[Attempt(f)] = 0
    /\ pc[f] \in {"copying", "opening", "abandoning"} \cup Working =>
          dir[Attempt(f)] = "managed"

(* What a run has published stands in the user's folder, and what it has   *)
(* cleaned up is gone.                                                     *)
OutcomeIsDone(f) ==
    /\ \/ pc[f] = "published"
       \/ pc[f] \in {"delivered", "cleaning"} /\ call[f].code = "OK"
       => output[call[f].target] = Attempt(f)
    /\ pc[f] = "cleaning" /\ call[f].code = "OK" /\ ~call[f].debug =>
          dir[Attempt(f)] = "absent"
    /\ pc[f] = "parting" /\ call[f].attempt /\ ~call[f].debug => dir[Attempt(f)] = "absent"

(* Without overlap one command runs at a time and no sweep.                *)
OneCommand ==
    ~Overlap =>
        /\ \A a, b \in Finishers \cup Preparers : pc[a] # "idle" /\ pc[b] # "idle" => a = b
        /\ \A s \in Sweepers : pc[s] = "idle"

(* Without overlap the checkpoint a finish has resolved and verified stays *)
(* as it is until the finish cleans it up.                                 *)
CheckpointIsKept(f) ==
    ~Overlap =>
        /\ pc[f] \notin {"idle", "scoping"} => dir[Checkpoint] = "managed"
        /\ pc[f] \in {"marking", "copying", "opening"} \cup Working => Bound(Checkpoint)
        /\ pc[f] # "idle" /\ call[f].code \in Recoverable => Bound(Checkpoint)

IInv == /\ TypeOK /\ CommandsAreKnown /\ AttemptsAreFresh /\ OneCommand
        /\ \A d \in Attempts : Tidy(d)
        /\ \A f \in Finishers :
              AttemptIsManaged(f) /\ OutcomeIsDone(f) /\ CheckpointIsKept(f)

(* Without overlap the checkpoint is made, marked and filled in that       *)
(* order, and nothing removes it before the preparation ends.              *)
CheckpointIsManaged ==
    ~Overlap =>
        /\ Tidy(Checkpoint)
        /\ \A p \in Preparers :
            /\ pc[p] = "marking" => dir[Checkpoint] = "bare" /\ stage[Checkpoint] = 0
            /\ pc[p] \in {"extracting", "committing"} => dir[Checkpoint] = "managed"

-----------------------------------------------------------------------------
(* The effects the actions are made of.                                    *)

DiskOK == /\ dir \in [Dirs -> {"absent", "bare", "managed", "torn"}]
          /\ text \in [Dirs -> SUBSET Artifacts]
          /\ stage \in [Dirs -> 0 .. FINALIZED]
          /\ expired \in [Dirs -> BOOLEAN]

Touching(d) ==
    /\ DiskOK'
    /\ \A e \in Dirs \ {d} : /\ dir'[e] = dir[e] /\ text'[e] = text[e]
                             /\ stage'[e] = stage[e] /\ expired'[e] = expired[e]

(* Every run of a finish has a directory of its own.                       *)
LEMMA AttemptIsADirectory ==
  ASSUME NEW f \in Finishers, FinishIsKnown(f), pc[f] # "idle"
  PROVE  /\ Attempt(f) = << f, runs[f] >> /\ Attempt(f) \in Attempts
         /\ Attempt(f) \in Dirs /\ Attempt(f) # Checkpoint
         /\ \A g \in Finishers \ {f} : Attempt(g) # Attempt(f)
BY CheckpointAssumption DEF FinishIsKnown, Attempt, Attempts, Dirs

Wrote(d, artifacts) ==
    /\ dir' \in [Dirs -> {"absent", "bare", "managed", "torn"}]
    /\ text' \in [Dirs -> SUBSET Artifacts]
    /\ \A e \in Dirs \ {d} : dir'[e] = dir[e] /\ text'[e] = text[e]
    /\ text'[d] = text[d] \cup artifacts
    /\ dir'[d] = IF dir[d] = "absent" THEN "bare" ELSE dir[d]

LEMMA WritingText ==
  ASSUME TypeOK, NEW d \in Dirs, NEW artifacts \in SUBSET Artifacts, WriteText(d, artifacts)
  PROVE  Wrote(d, artifacts)
BY DEF TypeOK, WriteText, Wrote

CleanedUp(d, keep) ==
    /\ Touching(d) /\ dir[d] = "managed"
    /\ keep => /\ dir'[d] = dir[d] /\ text'[d] = text[d] /\ stage'[d] = stage[d]
               /\ ~expired'[d]
    /\ ~keep => /\ dir'[d] = "absent" /\ text'[d] = {} /\ stage'[d] = 0
                /\ expired'[d] = expired[d]

StuckAt(d, keep) ==
    /\ Touching(d) /\ text'[d] = text[d] /\ stage'[d] = stage[d]
    /\ expired'[d] = expired[d]
    /\ dir'[d] = dir[d] \/ (dir[d] = "managed" /\ ~keep /\ dir'[d] = "torn")

LEMMA CleaningUp ==
  ASSUME TypeOK, NEW d \in Dirs, NEW keep \in BOOLEAN, CleanupSucceeds(d, keep)
  PROVE  CleanedUp(d, keep)
<1>1. CASE keep
  BY <1>1 DEF TypeOK, CleanupSucceeds, Retain, Touching, DiskOK, CleanedUp
<1>2. CASE ~keep
  <2>1. Remove(d) /\ dir[d] = "managed"
    BY <1>2 DEF CleanupSucceeds
  <2>2. 0 \in 0 .. FINALIZED
    BY DEF FINALIZED
  <2>3. Touching(d)
    BY <2>1, <2>2 DEF TypeOK, Remove, Touching, DiskOK
  <2>4. dir'[d] = "absent" /\ text'[d] = {} /\ stage'[d] = 0 /\ expired'[d] = expired[d]
    BY <2>1 DEF TypeOK, Remove
  <2> QED
    BY <1>2, <2>1, <2>3, <2>4 DEF CleanedUp
<1> QED
  BY <1>1, <1>2

LEMMA FailingToCleanUp ==
  ASSUME TypeOK, NEW d \in Dirs, NEW keep \in BOOLEAN, CleanupFails(d, keep)
  PROVE  StuckAt(d, keep)
BY DEF TypeOK, CleanupFails, Touching, DiskOK, StuckAt

(* A step of one command leaves the others where they are.                 *)
Moving(a, label) ==
    /\ pc' \in [Actors -> Labels] /\ pc'[a] = label
    /\ \A b \in Actors \ {a} : pc'[b] = pc[b]

Calling(a, c) ==
    /\ call' \in [Actors -> {NoResult} \cup PrepareCalls \cup FinishCalls \cup SweepCalls]
    /\ call'[a] = c /\ \A b \in Actors \ {a} : call'[b] = call[b]

(* A step of a finish that raises an error.                                *)
Raised(f, label, code) ==
    /\ Moving(f, label) /\ Calling(f, call'[f])
    /\ call'[f] \in FinishCalls /\ call'[f].code = code
    /\ call'[f].target = call[f].target /\ call'[f].debug = call[f].debug
    /\ call'[f].at = call[f].at /\ call'[f].attempt = call[f].attempt

LEMMA Going ==
  ASSUME TypeOK, NEW a \in Actors, NEW label \in Labels, Goto(a, label)
  PROVE  Moving(a, label)
BY DEF TypeOK, Goto, Moving

LEMMA RaisingInFinish ==
  ASSUME TypeOK, NEW f \in Finishers, FinishIsKnown(f), pc[f] # "idle",
         NEW label \in Labels, NEW code \in FinishCodes, Raise(f, label, code)
  PROVE  Raised(f, label, code)
<1>1. f \in Actors /\ call[f] \in FinishCalls
  BY DEF Actors, FinishIsKnown
<1>2. Moving(f, label)
  BY <1>1, Going DEF Raise
<1>3. call' = [call EXCEPT ![f] = [call[f] EXCEPT !.code = code]]
  BY <1>1 DEF TypeOK, Raise
<1>4. LET c == [call[f] EXCEPT !.code = code]
      IN /\ c \in FinishCalls /\ c.code = code /\ c.target = call[f].target
         /\ c.debug = call[f].debug /\ c.at = call[f].at /\ c.attempt = call[f].attempt
  BY <1>1 DEF FinishCalls
<1> QED
  BY <1>1, <1>2, <1>3, <1>4 DEF TypeOK, Calling, Raised

LEMMA KnowingTheAttempt ==
  ASSUME TypeOK, NEW f \in Finishers, FinishIsKnown(f), pc[f] # "idle",
         call' = [call EXCEPT ![f].attempt = TRUE]
  PROVE  /\ Calling(f, call'[f]) /\ call'[f] \in FinishCalls /\ call'[f].attempt
         /\ call'[f].code = call[f].code /\ call'[f].at = call[f].at
         /\ call'[f].target = call[f].target /\ call'[f].debug = call[f].debug
<1>1. f \in Actors /\ call[f] \in FinishCalls
  BY DEF Actors, FinishIsKnown
<1>2. call' = [call EXCEPT ![f] = [call[f] EXCEPT !.attempt = TRUE]]
  BY <1>1 DEF TypeOK
<1>3. LET c == [call[f] EXCEPT !.attempt = TRUE]
      IN /\ c \in FinishCalls /\ c.attempt /\ c.code = call[f].code /\ c.at = call[f].at
         /\ c.target = call[f].target /\ c.debug = call[f].debug
  BY <1>1 DEF FinishCalls
<1> QED
  BY <1>1, <1>2, <1>3 DEF TypeOK, Calling

LEMMA Advancing ==
  ASSUME TypeOK, NEW f \in Finishers, FinishIsKnown(f), pc[f] # "idle",
         call[f].at < VALIDATED, call' = [call EXCEPT ![f].at = call[f].at + 1]
  PROVE  /\ Calling(f, call'[f]) /\ call'[f] \in FinishCalls
         /\ call'[f].code = call[f].code /\ call'[f].attempt = call[f].attempt
         /\ call'[f].target = call[f].target /\ call'[f].debug = call[f].debug
<1>1. f \in Actors /\ call[f] \in FinishCalls
  BY DEF Actors, FinishIsKnown
<1>2. call' = [call EXCEPT ![f] = [call[f] EXCEPT !.at = call[f].at + 1]]
  BY <1>1 DEF TypeOK
<1>3. call[f].at + 1 \in EXTRACTED .. VALIDATED
  BY <1>1 DEF FinishCalls, EXTRACTED, VALIDATED
<1>4. LET c == [call[f] EXCEPT !.at = call[f].at + 1]
      IN /\ c \in FinishCalls /\ c.code = call[f].code /\ c.attempt = call[f].attempt
         /\ c.target = call[f].target /\ c.debug = call[f].debug
  BY <1>1, <1>3 DEF FinishCalls
<1> QED
  BY <1>1, <1>2, <1>4 DEF TypeOK, Calling

LEMMA RaisingInPrepare ==
  ASSUME TypeOK, NEW p \in Preparers, PreparationIsKnown(p), pc[p] # "idle",
         NEW label \in Labels, NEW code \in PrepareCodes, Raise(p, label, code)
  PROVE  /\ Moving(p, label) /\ Calling(p, call'[p])
         /\ call'[p] \in PrepareCalls /\ call'[p].at = call[p].at
<1>1. p \in Actors /\ call[p] \in PrepareCalls
  BY DEF Actors, PreparationIsKnown
<1>2. Moving(p, label)
  BY <1>1, Going DEF Raise
<1>3. call' = [call EXCEPT ![p] = [call[p] EXCEPT !.code = code]]
  BY <1>1 DEF TypeOK, Raise
<1>4. LET c == [call[p] EXCEPT !.code = code]
      IN c \in PrepareCalls /\ c.code = code /\ c.at = call[p].at
  BY <1>1 DEF PrepareCalls
<1> QED
  BY <1>1, <1>2, <1>3, <1>4 DEF TypeOK, Calling

(* What a finish reports.                                                  *)
Reporting(f, code, action) ==
    /\ Moving(f, "idle") /\ UNCHANGED << call, runs >>
    /\ result' \in [Actors -> {NoResult} \cup [code : PrepareCodes] \cup Reports]
    /\ \A g \in Actors \ {f} : result'[g] = result[g]
    /\ result'[f].code = code /\ result'[f].action = action
    /\ result'[f].target = call[f].target /\ result'[f].attempt = Attempt(f)
    /\ result'[f].debug = call[f].debug

LEMMA ReportingAFinish ==
  ASSUME TypeOK, NEW f \in Finishers, FinishIsKnown(f), pc[f] # "idle",
         NEW code \in FinishCodes \cup {"FINISH_OK"}, NEW action \in {"none", "repair"}, FinishWith(f, code, action)
  PROVE  Reporting(f, code, action)
<1> DEFINE r == [code |-> code, action |-> action, target |-> call[f].target,
                 attempt |-> Attempt(f), debug |-> call[f].debug]
<1>1. f \in Actors /\ call[f] \in FinishCalls /\ "idle" \in Labels /\ Attempt(f) \in Attempts
  BY AttemptIsADirectory DEF Actors, FinishIsKnown, Labels
<1>2. r \in Reports
  BY <1>1 DEF FinishCalls, Reports
<1>3. Goto(f, "idle") /\ result' = [result EXCEPT ![f] = r] /\ UNCHANGED << call, runs >>
  BY DEF FinishWith, Report
<1>4. Moving(f, "idle")
  BY <1>1, <1>3, Going
<1> HIDE DEF r
<1>5. /\ result' \in [Actors -> {NoResult} \cup [code : PrepareCodes] \cup Reports]
      /\ \A g \in Actors \ {f} : result'[g] = result[g]
      /\ result'[f] = r
  BY <1>1, <1>2, <1>3 DEF TypeOK
<1> QED
  BY <1>3, <1>4, <1>5 DEF r, Reporting

LEMMA RecoveryActions ==
  ASSUME NEW code \in FinishCodes
  PROVE  /\ RecoveryAction(code) \in {"none", "repair"}
         /\ RecoveryAction(code) # "none" <=> code \in Recoverable
BY DEF RecoveryAction

(* A step of a finish: it touches its attempt and the checkpoint alone,    *)
(* prolongs what it touches, and overwrites no file of the user.           *)
FinishStep(f) ==
    /\ UNCHANGED setting /\ runs' = runs
    /\ pc' \in [Actors -> Labels] /\ \A b \in Actors \ {f} : pc'[b] = pc[b]
    /\ call' \in [Actors -> {NoResult} \cup PrepareCalls \cup FinishCalls \cup SweepCalls]
    /\ \A b \in Actors \ {f} : call'[b] = call[b]
    /\ result' \in [Actors -> {NoResult} \cup [code : PrepareCodes] \cup Reports]
    /\ DiskOK'
    /\ \A e \in Dirs \ {Attempt(f), Checkpoint} :
          dir'[e] = dir[e] /\ text'[e] = text[e] /\ stage'[e] = stage[e]
    /\ \A e \in Dirs : expired'[e] => expired[e]
    /\ output' \in [setting.outputs -> {NoFile, Foreign} \cup Attempts]
    /\ \A t \in setting.outputs : output[t] # NoFile => output'[t] = output[t]

LEMMA SettingStays ==
  ASSUME UNCHANGED setting
  PROVE  FinishCalls' = FinishCalls /\ Reports' = Reports /\ Overlap' = Overlap
BY DEF FinishCalls, Reports, Overlap

LEMMA OneMoves ==
  ASSUME OneCommand, UNCHANGED setting, NEW a \in Finishers \cup Preparers, pc[a] # "idle",
         \A b \in Actors \ {a} : pc'[b] = pc[b]
  PROVE  OneCommand'
BY SettingStays, ActorsAssumption DEF OneCommand, Actors

LEMMA FinishStepKeepsIInv ==
  ASSUME IInv, NEW f \in Finishers, pc[f] # "idle", FinishStep(f), FinishIsKnown(f)',
         Tidy(Attempt(f))', AttemptIsManaged(f)', OutcomeIsDone(f)', CheckpointIsKept(f)'
  PROVE  IInv'
<1>1. /\ FinishCalls' = FinishCalls /\ Reports' = Reports /\ Overlap' = Overlap
      /\ f \in Actors
  BY SettingStays DEF FinishStep, Actors
<1>2. TypeOK'
  BY <1>1 DEF IInv, TypeOK, FinishStep, DiskOK
<1>3. CommandsAreKnown'
  <2>1. \A g \in Finishers : FinishIsKnown(g)'
    BY <1>1 DEF IInv, CommandsAreKnown, FinishIsKnown, FinishStep, Actors
  <2>2. \A p \in Preparers : PreparationIsKnown(p)'
    BY <1>1, ActorsAssumption DEF IInv, CommandsAreKnown, PreparationIsKnown, FinishStep, Actors
  <2>3. \A s \in Sweepers : SweepIsKnown(s)'
    BY <1>1, ActorsAssumption DEF IInv, CommandsAreKnown, SweepIsKnown, FinishStep, Actors
  <2> QED
    BY <2>1, <2>2, <2>3 DEF CommandsAreKnown
<1>4. AttemptsAreFresh'
  <2> SUFFICES ASSUME NEW g \in Finishers, NEW n \in 1 .. MaxFinishes
               PROVE  /\ n > runs[g] => dir'[<< g, n >>] = "absent" /\ Unswept(<< g, n >>)'
                      /\ n = runs[g] /\ pc'[g] # "idle" => Unswept(<< g, n >>)'
    BY DEF AttemptsAreFresh, FinishStep
  <2>1. << g, n >> \in Attempts /\ << g, n >> \in Dirs /\ << g, n >> # Checkpoint
    BY CheckpointAssumption DEF Attempts, Dirs
  <2>2. Unswept(<< g, n >>) => Unswept(<< g, n >>)'
    BY <2>1, <1>1, ActorsAssumption DEF Unswept, FinishStep, Actors
  <2>3. n > runs[g] => << g, n >> # Attempt(f)
    BY <1>1 DEF Attempt, IInv, TypeOK
  <2>4. pc'[g] # "idle" => pc[g] # "idle"
    BY <1>1 DEF FinishStep, Actors
  <2> QED
    BY <2>1, <2>2, <2>3, <2>4 DEF IInv, AttemptsAreFresh, FinishStep
<1>5. OneCommand'
  BY OneMoves DEF IInv, FinishStep
<1>6. \A d \in Attempts : Tidy(d)'
  <2> TAKE d \in Attempts
  <2>1. CASE d = Attempt(f)
    BY <2>1 DEF Attempt, Tidy, FinishStep
  <2>2. CASE d # Attempt(f)
    BY <2>2, CheckpointAssumption DEF Tidy, FinishStep, Dirs, IInv
  <2> QED
    BY <2>1, <2>2
<1>7. ASSUME NEW g \in Finishers
      PROVE  AttemptIsManaged(g)' /\ OutcomeIsDone(g)' /\ CheckpointIsKept(g)'
  <2>1. CASE g = f
    BY <2>1
  <2>2. CASE g # f
    <3>1. pc'[g] = pc[g] /\ call'[g] = call[g] /\ runs'[g] = runs[g] /\ Attempt(g)' = Attempt(g)
      BY <2>2 DEF FinishStep, Actors, Attempt
    <3>2. CASE pc[g] = "idle"
      BY <3>1, <3>2 DEF AttemptIsManaged, OutcomeIsDone, CheckpointIsKept, Working
    <3>3. CASE pc[g] # "idle"
      <4>1. FinishIsKnown(g)
        BY DEF IInv, CommandsAreKnown
      <4>2. /\ Attempt(g) \in Attempts /\ Attempt(g) \in Dirs /\ Attempt(g) # Checkpoint
            /\ Attempt(g) # Attempt(f) /\ call[g].target \in setting.outputs
        BY <2>2, <3>3, <4>1, AttemptIsADirectory DEF FinishIsKnown, FinishCalls
      <4>3. dir'[Attempt(g)] = dir[Attempt(g)] /\ stage'[Attempt(g)] = stage[Attempt(g)]
        BY <4>2 DEF FinishStep
      <4>4. AttemptIsManaged(g)'
        BY <3>1, <4>3 DEF AttemptIsManaged, IInv
      <4>5. OutcomeIsDone(g)'
        BY <3>1, <4>2, <4>3, FilesAssumption DEF OutcomeIsDone, IInv, FinishStep
      <4>6. Overlap
        BY <2>2, <3>3 DEF IInv, OneCommand
      <4> QED
        BY <1>1, <4>4, <4>5, <4>6 DEF CheckpointIsKept
    <3> QED
      BY <3>2, <3>3
  <2> QED
    BY <2>1, <2>2
<1> QED
  BY <1>2, <1>3, <1>4, <1>5, <1>6, <1>7 DEF IInv

-----------------------------------------------------------------------------
(* Every step of a finish keeps the invariant.                             *)

LEMMA ResolveCheckpointStep ==
  ASSUME IInv, UNCHANGED setting, NEW f \in Finishers, ResolveCheckpoint(f)
  PROVE  IInv'
<1>a. /\ f \in Actors /\ pc[f] = "scoping" /\ TypeOK /\ FinishIsKnown(f)
      /\ AttemptIsManaged(f) /\ OutcomeIsDone(f) /\ CheckpointIsKept(f)
  BY DEF IInv, CommandsAreKnown, Actors, ResolveCheckpoint
<1>b. /\ call[f] \in FinishCalls /\ runs'[f] = runs[f] /\ Attempt(f)' = Attempt(f)
      /\ Attempt(f) \in Dirs /\ Attempt(f) # Checkpoint /\ Checkpoint \in Dirs
      /\ Tidy(Attempt(f)) /\ FinishCalls' = FinishCalls /\ Overlap' = Overlap
  BY <1>a, AttemptIsADirectory, SettingStays
     DEF FinishIsKnown, IInv, ResolveCheckpoint, FinishWith, Report, Attempt, Dirs
<1>c. (Goto(f, "loading") => Moving(f, "loading"))
  BY <1>a, Going DEF Labels, Working
<1>d. \A code \in FinishCodes \cup {"FINISH_OK"},
     action \in {"none", "repair"} :
        FinishWith(f, code,
     action) => Reporting(f, code,
     action)
  BY <1>a, ReportingAFinish
<1>1. FinishStep(f)
  BY <1>a, <1>b, <1>c, <1>d DEF ResolveCheckpoint, Reporting, Moving, onDisk, FinishCodes,
     Recoverable, FinishStep, TypeOK, DiskOK, Labels, Working
<1>2. FinishIsKnown(f)'
  BY <1>a, <1>b, <1>c, <1>d DEF ResolveCheckpoint, Reporting, Moving, onDisk, FinishCodes,
     Recoverable, FinishIsKnown, Working
<1>3. Tidy(Attempt(f))'
  BY <1>a, <1>b, <1>c, <1>d DEF ResolveCheckpoint, Reporting, Moving, onDisk, FinishCodes,
     Recoverable, Tidy, AttemptIsManaged, Working
<1>4. AttemptIsManaged(f)'
  BY <1>a, <1>b, <1>c, <1>d DEF ResolveCheckpoint, Reporting, Moving, onDisk, FinishCodes,
     Recoverable, AttemptIsManaged, Tidy, Working
<1>5. OutcomeIsDone(f)'
  BY <1>a, <1>b, <1>c, <1>d DEF ResolveCheckpoint, Reporting, Moving, onDisk, FinishCodes,
     Recoverable, OutcomeIsDone, FinishIsKnown, Working
<1>6. CheckpointIsKept(f)'
  BY <1>a, <1>b, <1>c, <1>d DEF ResolveCheckpoint, Reporting, Moving, onDisk, FinishCodes,
     Recoverable, CheckpointIsKept, Bound, Working
<1> QED
  BY <1>a, <1>1, <1>2, <1>3, <1>4, <1>5, <1>6, FinishStepKeepsIInv

LEMMA LoadStep ==
  ASSUME IInv, UNCHANGED setting, NEW f \in Finishers, Load(f)
  PROVE  IInv'
<1>a. /\ f \in Actors /\ pc[f] = "loading" /\ TypeOK /\ FinishIsKnown(f)
      /\ AttemptIsManaged(f) /\ OutcomeIsDone(f) /\ CheckpointIsKept(f)
  BY DEF IInv, CommandsAreKnown, Actors, Load
<1>b. /\ call[f] \in FinishCalls /\ runs'[f] = runs[f] /\ Attempt(f)' = Attempt(f)
      /\ Attempt(f) \in Dirs /\ Attempt(f) # Checkpoint /\ Checkpoint \in Dirs
      /\ Tidy(Attempt(f)) /\ FinishCalls' = FinishCalls /\ Overlap' = Overlap
  BY <1>a, AttemptIsADirectory, SettingStays
     DEF FinishIsKnown, IInv, Load, Attempt, Dirs
<1>c. (Goto(f, "verifying") => Moving(f, "verifying"))
  BY <1>a, Going DEF Labels, Working
<1>d. \A code \in FinishCodes :
        Raise(f, "cleaning", code) => Raised(f, "cleaning", code)
  BY <1>a, RaisingInFinish DEF Labels, Working
<1>1. FinishStep(f)
  BY <1>a, <1>b, <1>c, <1>d DEF Load, onDisk, Raised, Moving, Calling, FinishCodes,
     Recoverable, FinishStep, TypeOK, DiskOK, Labels, Working
<1>2. FinishIsKnown(f)'
  BY <1>a, <1>b, <1>c, <1>d DEF Load, onDisk, Raised, Moving, Calling, FinishCodes,
     Recoverable, FinishIsKnown, Working
<1>3. Tidy(Attempt(f))'
  BY <1>a, <1>b, <1>c, <1>d DEF Load, onDisk, Raised, Moving, Calling, FinishCodes,
     Recoverable, Tidy, AttemptIsManaged, Working
<1>4. AttemptIsManaged(f)'
  BY <1>a, <1>b, <1>c, <1>d DEF Load, onDisk, Raised, Moving, Calling, FinishCodes,
     Recoverable, AttemptIsManaged, Tidy, Working
<1>5. OutcomeIsDone(f)'
  BY <1>a, <1>b, <1>c, <1>d DEF Load, onDisk, Raised, Moving, Calling, FinishCodes,
     Recoverable, OutcomeIsDone, FinishIsKnown, Working
<1>6. CheckpointIsKept(f)'
  BY <1>a, <1>b, <1>c, <1>d DEF Load, onDisk, Raised, Moving, Calling, FinishCodes,
     Recoverable, CheckpointIsKept, Bound, Working
<1> QED
  BY <1>a, <1>1, <1>2, <1>3, <1>4, <1>5, <1>6, FinishStepKeepsIInv

LEMMA MakeAttemptStep ==
  ASSUME IInv, UNCHANGED setting, NEW f \in Finishers, MakeAttempt(f)
  PROVE  IInv'
<1>a. /\ f \in Actors /\ pc[f] = "verifying" /\ TypeOK /\ FinishIsKnown(f)
      /\ AttemptIsManaged(f) /\ OutcomeIsDone(f) /\ CheckpointIsKept(f)
  BY DEF IInv, CommandsAreKnown, Actors, MakeAttempt
<1>b. /\ call[f] \in FinishCalls /\ runs'[f] = runs[f] /\ Attempt(f)' = Attempt(f)
      /\ Attempt(f) \in Dirs /\ Attempt(f) # Checkpoint /\ Checkpoint \in Dirs
      /\ Tidy(Attempt(f)) /\ FinishCalls' = FinishCalls /\ Overlap' = Overlap
  BY <1>a, AttemptIsADirectory, SettingStays
     DEF FinishIsKnown, IInv, MakeAttempt, Attempt, Dirs
<1>c. (Goto(f, "marking") => Moving(f, "marking"))
  BY <1>a, Going DEF Labels, Working
<1>d. \A code \in FinishCodes :
        Raise(f, "cleaning", code) => Raised(f, "cleaning", code)
  BY <1>a, RaisingInFinish DEF Labels, Working
<1>1. FinishStep(f)
  BY <1>a, <1>b, <1>c, <1>d DEF MakeAttempt, Raised, Moving, Calling, TypeOK, FinishCodes,
     Recoverable, FinishStep, DiskOK, Labels, Working
<1>2. FinishIsKnown(f)'
  BY <1>a, <1>b, <1>c, <1>d DEF MakeAttempt, Raised, Moving, Calling, TypeOK, FinishCodes,
     Recoverable, FinishIsKnown, Working
<1>3. Tidy(Attempt(f))'
  BY <1>a, <1>b, <1>c, <1>d DEF MakeAttempt, Raised, Moving, Calling, TypeOK, FinishCodes,
     Recoverable, Tidy, AttemptIsManaged, Working
<1>4. AttemptIsManaged(f)'
  BY <1>a, <1>b, <1>c, <1>d DEF MakeAttempt, Raised, Moving, Calling, TypeOK, FinishCodes,
     Recoverable, AttemptIsManaged, Tidy, Working
<1>5. OutcomeIsDone(f)'
  BY <1>a, <1>b, <1>c, <1>d DEF MakeAttempt, Raised, Moving, Calling, TypeOK, FinishCodes,
     Recoverable, OutcomeIsDone, FinishIsKnown, Working
<1>6. CheckpointIsKept(f)'
  BY <1>a, <1>b, <1>c, <1>d DEF MakeAttempt, Raised, Moving, Calling, TypeOK, FinishCodes,
     Recoverable, CheckpointIsKept, Bound, Working
<1> QED
  BY <1>a, <1>1, <1>2, <1>3, <1>4, <1>5, <1>6, FinishStepKeepsIInv

LEMMA MarkAttemptStep ==
  ASSUME IInv, UNCHANGED setting, NEW f \in Finishers, MarkAttempt(f)
  PROVE  IInv'
<1>a. /\ f \in Actors /\ pc[f] = "marking" /\ TypeOK /\ FinishIsKnown(f)
      /\ AttemptIsManaged(f) /\ OutcomeIsDone(f) /\ CheckpointIsKept(f)
  BY DEF IInv, CommandsAreKnown, Actors, MarkAttempt
<1>b. /\ call[f] \in FinishCalls /\ runs'[f] = runs[f] /\ Attempt(f)' = Attempt(f)
      /\ Attempt(f) \in Dirs /\ Attempt(f) # Checkpoint /\ Checkpoint \in Dirs
      /\ Tidy(Attempt(f)) /\ FinishCalls' = FinishCalls /\ Overlap' = Overlap
  BY <1>a, AttemptIsADirectory, SettingStays
     DEF FinishIsKnown, IInv, MarkAttempt, Attempt, Dirs
<1>c. (Goto(f, "copying") => Moving(f, "copying"))
  BY <1>a, Going DEF Labels, Working
<1>d. \A code \in FinishCodes :
        Raise(f, "cleaning", code) => Raised(f, "cleaning", code)
  BY <1>a, RaisingInFinish DEF Labels, Working
<1>1. FinishStep(f)
  BY <1>a, <1>b, <1>c, <1>d DEF MarkAttempt, Raised, Moving, Calling, TypeOK, FinishCodes,
     Recoverable, FinishStep, DiskOK, Labels, Working
<1>2. FinishIsKnown(f)'
  BY <1>a, <1>b, <1>c, <1>d DEF MarkAttempt, Raised, Moving, Calling, TypeOK, FinishCodes,
     Recoverable, FinishIsKnown, Working
<1>3. Tidy(Attempt(f))'
  BY <1>a, <1>b, <1>c, <1>d DEF MarkAttempt, Raised, Moving, Calling, TypeOK, FinishCodes,
     Recoverable, Tidy, AttemptIsManaged, Working
<1>4. AttemptIsManaged(f)'
  BY <1>a, <1>b, <1>c, <1>d DEF MarkAttempt, Raised, Moving, Calling, TypeOK, FinishCodes,
     Recoverable, AttemptIsManaged, Tidy, Working
<1>5. OutcomeIsDone(f)'
  BY <1>a, <1>b, <1>c, <1>d DEF MarkAttempt, Raised, Moving, Calling, TypeOK, FinishCodes,
     Recoverable, OutcomeIsDone, FinishIsKnown, Working
<1>6. CheckpointIsKept(f)'
  BY <1>a, <1>b, <1>c, <1>d DEF MarkAttempt, Raised, Moving, Calling, TypeOK, FinishCodes,
     Recoverable, CheckpointIsKept, Bound, Working
<1> QED
  BY <1>a, <1>1, <1>2, <1>3, <1>4, <1>5, <1>6, FinishStepKeepsIInv

LEMMA CopyCheckpointStep ==
  ASSUME IInv, UNCHANGED setting, NEW f \in Finishers, CopyCheckpoint(f)
  PROVE  IInv'
<1>a. /\ f \in Actors /\ pc[f] = "copying" /\ TypeOK /\ FinishIsKnown(f)
      /\ AttemptIsManaged(f) /\ OutcomeIsDone(f) /\ CheckpointIsKept(f)
  BY DEF IInv, CommandsAreKnown, Actors, CopyCheckpoint
<1>b. /\ call[f] \in FinishCalls /\ runs'[f] = runs[f] /\ Attempt(f)' = Attempt(f)
      /\ Attempt(f) \in Dirs /\ Attempt(f) # Checkpoint /\ Checkpoint \in Dirs
      /\ Tidy(Attempt(f)) /\ FinishCalls' = FinishCalls /\ Overlap' = Overlap
  BY <1>a, AttemptIsADirectory, SettingStays
     DEF FinishIsKnown, IInv, CopyCheckpoint, Attempt, Dirs
<1>c. (Goto(f, "opening") => Moving(f, "opening"))
  BY <1>a, Going DEF Labels, Working
<1>d. \A code \in FinishCodes :
        Raise(f, "abandoning", code) => Raised(f, "abandoning", code)
  BY <1>a, RaisingInFinish DEF Labels, Working
<1>e. \A artifacts \in SUBSET Artifacts :
        WriteText(Attempt(f), artifacts) => Wrote(Attempt(f), artifacts)
  BY <1>a, <1>b, WritingText
<1>f. Prepared \in SUBSET Artifacts /\ {"extraction"} \in SUBSET Artifacts
  BY DEF Prepared, Artifacts
<1>1. FinishStep(f)
  BY <1>a, <1>b, <1>c, <1>d, <1>e, <1>f DEF CopyCheckpoint, Wrote, Raised, Moving, Calling,
     FinishCodes, Recoverable, FinishStep, TypeOK, DiskOK, Labels, Working
<1>2. FinishIsKnown(f)'
  BY <1>a, <1>b, <1>c, <1>d, <1>e, <1>f DEF CopyCheckpoint, Wrote, Raised, Moving, Calling,
     FinishCodes, Recoverable, FinishIsKnown, Working
<1>3. Tidy(Attempt(f))'
  BY <1>a, <1>b, <1>c, <1>d, <1>e, <1>f DEF CopyCheckpoint, Wrote, Raised, Moving, Calling,
     FinishCodes, Recoverable, Tidy, AttemptIsManaged, Working
<1>4. AttemptIsManaged(f)'
  BY <1>a, <1>b, <1>c, <1>d, <1>e, <1>f DEF CopyCheckpoint, Wrote, Raised, Moving, Calling,
     FinishCodes, Recoverable, AttemptIsManaged, Tidy, Working
<1>5. OutcomeIsDone(f)'
  BY <1>a, <1>b, <1>c, <1>d, <1>e, <1>f DEF CopyCheckpoint, Wrote, Raised, Moving, Calling,
     FinishCodes, Recoverable, OutcomeIsDone, FinishIsKnown, Working
<1>6. CheckpointIsKept(f)'
  BY <1>a, <1>b, <1>c, <1>d, <1>e, <1>f DEF CopyCheckpoint, Wrote, Raised, Moving, Calling,
     FinishCodes, Recoverable, CheckpointIsKept, Bound, Working
<1> QED
  BY <1>a, <1>1, <1>2, <1>3, <1>4, <1>5, <1>6, FinishStepKeepsIInv

LEMMA OpenLedgerStep ==
  ASSUME IInv, UNCHANGED setting, NEW f \in Finishers, OpenLedger(f)
  PROVE  IInv'
<1>a. /\ f \in Actors /\ pc[f] = "opening" /\ TypeOK /\ FinishIsKnown(f)
      /\ AttemptIsManaged(f) /\ OutcomeIsDone(f) /\ CheckpointIsKept(f)
  BY DEF IInv, CommandsAreKnown, Actors, OpenLedger
<1>b. /\ call[f] \in FinishCalls /\ runs'[f] = runs[f] /\ Attempt(f)' = Attempt(f)
      /\ Attempt(f) \in Dirs /\ Attempt(f) # Checkpoint /\ Checkpoint \in Dirs
      /\ Tidy(Attempt(f)) /\ FinishCalls' = FinishCalls /\ Overlap' = Overlap
  BY <1>a, AttemptIsADirectory, SettingStays
     DEF FinishIsKnown, IInv, OpenLedger, Attempt, Dirs
<1>c. (Goto(f, "resolving") => Moving(f, "resolving"))
  BY <1>a, Going DEF Labels, Working
<1>d. \A code \in FinishCodes :
        Raise(f, "abandoning", code) => Raised(f, "abandoning", code)
  BY <1>a, RaisingInFinish DEF Labels, Working
<1>e. call' = [call EXCEPT ![f].attempt = TRUE] =>
        /\ Calling(f, call'[f]) /\ call'[f] \in FinishCalls /\ call'[f].attempt
        /\ call'[f].code = call[f].code
  BY <1>a, KnowingTheAttempt
<1>1. FinishStep(f)
  BY <1>a, <1>b, <1>c, <1>d, <1>e DEF OpenLedger, EXTRACTED, FINALIZED, Raised, Moving,
     Calling, TypeOK, FinishCodes, Recoverable, FinishStep, DiskOK, Labels, Working
<1>2. FinishIsKnown(f)'
  BY <1>a, <1>b, <1>c, <1>d, <1>e DEF OpenLedger, EXTRACTED, FINALIZED, Raised, Moving,
     Calling, TypeOK, FinishCodes, Recoverable, FinishIsKnown, Working
<1>3. Tidy(Attempt(f))'
  BY <1>a, <1>b, <1>c, <1>d, <1>e DEF OpenLedger, EXTRACTED, FINALIZED, Raised, Moving,
     Calling, TypeOK, FinishCodes, Recoverable, Tidy, AttemptIsManaged, Working
<1>4. AttemptIsManaged(f)'
  BY <1>a, <1>b, <1>c, <1>d, <1>e DEF OpenLedger, EXTRACTED, FINALIZED, Raised, Moving,
     Calling, TypeOK, FinishCodes, Recoverable, AttemptIsManaged, Tidy, Working
<1>5. OutcomeIsDone(f)'
  BY <1>a, <1>b, <1>c, <1>d, <1>e DEF OpenLedger, EXTRACTED, FINALIZED, Raised, Moving,
     Calling, TypeOK, FinishCodes, Recoverable, OutcomeIsDone, FinishIsKnown, Working
<1>6. CheckpointIsKept(f)'
  BY <1>a, <1>b, <1>c, <1>d, <1>e DEF OpenLedger, EXTRACTED, FINALIZED, Raised, Moving,
     Calling, TypeOK, FinishCodes, Recoverable, CheckpointIsKept, Bound, Working
<1> QED
  BY <1>a, <1>1, <1>2, <1>3, <1>4, <1>5, <1>6, FinishStepKeepsIInv

LEMMA AbandonStep ==
  ASSUME IInv, UNCHANGED setting, NEW f \in Finishers, Abandon(f)
  PROVE  IInv'
<1>a. /\ f \in Actors /\ pc[f] = "abandoning" /\ TypeOK /\ FinishIsKnown(f)
      /\ AttemptIsManaged(f) /\ OutcomeIsDone(f) /\ CheckpointIsKept(f)
  BY DEF IInv, CommandsAreKnown, Actors, Abandon
<1>b. /\ call[f] \in FinishCalls /\ runs'[f] = runs[f] /\ Attempt(f)' = Attempt(f)
      /\ Attempt(f) \in Dirs /\ Attempt(f) # Checkpoint /\ Checkpoint \in Dirs
      /\ Tidy(Attempt(f)) /\ FinishCalls' = FinishCalls /\ Overlap' = Overlap
  BY <1>a, AttemptIsADirectory, SettingStays
     DEF FinishIsKnown, IInv, Abandon, Attempt, Dirs
<1>c. (Goto(f, "cleaning") => Moving(f, "cleaning"))
  BY <1>a, Going DEF Labels, Working
<1>d. /\ CleanupSucceeds(Attempt(f), FALSE) => CleanedUp(Attempt(f), FALSE)
      /\ CleanupFails(Attempt(f), FALSE) => StuckAt(Attempt(f), FALSE)
  BY <1>a, <1>b, CleaningUp, FailingToCleanUp DEF FinishCalls
<1>1. FinishStep(f)
  BY <1>a, <1>b, <1>c, <1>d DEF Abandon, CleanedUp, StuckAt, Touching, DiskOK, Moving,
     FinishStep, TypeOK, Labels, Working
<1>2. FinishIsKnown(f)'
  BY <1>a, <1>b, <1>c, <1>d DEF Abandon, CleanedUp, StuckAt, Touching, DiskOK, Moving,
     FinishIsKnown, Working
<1>3. Tidy(Attempt(f))'
  BY <1>a, <1>b, <1>c, <1>d DEF Abandon, CleanedUp, StuckAt, Touching, DiskOK, Moving,
     Tidy, AttemptIsManaged, Working
<1>4. AttemptIsManaged(f)'
  BY <1>a, <1>b, <1>c, <1>d DEF Abandon, CleanedUp, StuckAt, Touching, DiskOK, Moving,
     AttemptIsManaged, Tidy, Working
<1>5. OutcomeIsDone(f)'
  BY <1>a, <1>b, <1>c, <1>d DEF Abandon, CleanedUp, StuckAt, Touching, DiskOK, Moving,
     OutcomeIsDone, FinishIsKnown, Working
<1>6. CheckpointIsKept(f)'
  BY <1>a, <1>b, <1>c, <1>d DEF Abandon, CleanedUp, StuckAt, Touching, DiskOK, Moving,
     CheckpointIsKept, Bound, Working, Recoverable
<1> QED
  BY <1>a, <1>1, <1>2, <1>3, <1>4, <1>5, <1>6, FinishStepKeepsIInv

LEMMA ResolveAttemptStep ==
  ASSUME IInv, UNCHANGED setting, NEW f \in Finishers, ResolveAttempt(f)
  PROVE  IInv'
<1>a. /\ f \in Actors /\ pc[f] = "resolving" /\ TypeOK /\ FinishIsKnown(f)
      /\ AttemptIsManaged(f) /\ OutcomeIsDone(f) /\ CheckpointIsKept(f)
  BY DEF IInv, CommandsAreKnown, Actors, ResolveAttempt
<1>b. /\ call[f] \in FinishCalls /\ runs'[f] = runs[f] /\ Attempt(f)' = Attempt(f)
      /\ Attempt(f) \in Dirs /\ Attempt(f) # Checkpoint /\ Checkpoint \in Dirs
      /\ Tidy(Attempt(f)) /\ FinishCalls' = FinishCalls /\ Overlap' = Overlap
  BY <1>a, AttemptIsADirectory, SettingStays
     DEF FinishIsKnown, IInv, ResolveAttempt, Attempt, Dirs
<1>c. (Goto(f, "finishing") => Moving(f, "finishing"))
  BY <1>a, Going DEF Labels, Working
<1>d. \A code \in FinishCodes :
        Raise(f, "cleaning", code) => Raised(f, "cleaning", code)
  BY <1>a, RaisingInFinish DEF Labels, Working
<1>1. FinishStep(f)
  BY <1>a, <1>b, <1>c, <1>d DEF ResolveAttempt, onDisk, Raised, Moving, Calling,
     FinishCodes, Recoverable, FinishStep, TypeOK, DiskOK, Labels, Working
<1>2. FinishIsKnown(f)'
  BY <1>a, <1>b, <1>c, <1>d DEF ResolveAttempt, onDisk, Raised, Moving, Calling,
     FinishCodes, Recoverable, FinishIsKnown, Working
<1>3. Tidy(Attempt(f))'
  BY <1>a, <1>b, <1>c, <1>d DEF ResolveAttempt, onDisk, Raised, Moving, Calling,
     FinishCodes, Recoverable, Tidy, AttemptIsManaged, Working
<1>4. AttemptIsManaged(f)'
  BY <1>a, <1>b, <1>c, <1>d DEF ResolveAttempt, onDisk, Raised, Moving, Calling,
     FinishCodes, Recoverable, AttemptIsManaged, Tidy, Working
<1>5. OutcomeIsDone(f)'
  BY <1>a, <1>b, <1>c, <1>d DEF ResolveAttempt, onDisk, Raised, Moving, Calling,
     FinishCodes, Recoverable, OutcomeIsDone, FinishIsKnown, Working
<1>6. CheckpointIsKept(f)'
  BY <1>a, <1>b, <1>c, <1>d DEF ResolveAttempt, onDisk, Raised, Moving, Calling,
     FinishCodes, Recoverable, CheckpointIsKept, Bound, Working
<1> QED
  BY <1>a, <1>1, <1>2, <1>3, <1>4, <1>5, <1>6, FinishStepKeepsIInv

LEMMA AdvanceAttemptStep ==
  ASSUME IInv, UNCHANGED setting, NEW f \in Finishers, AdvanceAttempt(f)
  PROVE  IInv'
<1>a. /\ f \in Actors /\ pc[f] = "finishing" /\ TypeOK /\ FinishIsKnown(f)
      /\ AttemptIsManaged(f) /\ OutcomeIsDone(f) /\ CheckpointIsKept(f)
  BY DEF IInv, CommandsAreKnown, Actors, AdvanceAttempt
<1>b. /\ call[f] \in FinishCalls /\ runs'[f] = runs[f] /\ Attempt(f)' = Attempt(f)
      /\ Attempt(f) \in Dirs /\ Attempt(f) # Checkpoint /\ Checkpoint \in Dirs
      /\ Tidy(Attempt(f)) /\ FinishCalls' = FinishCalls /\ Overlap' = Overlap
  BY <1>a, AttemptIsADirectory, SettingStays
     DEF FinishIsKnown, IInv, AdvanceAttempt, Attempt, Dirs
<1>c. \A code \in FinishCodes :
        Raise(f, "disposing", code) => Raised(f, "disposing", code)
  BY <1>a, RaisingInFinish DEF Labels, Working
<1>d. WriteText(Attempt(f), {"translation"}) => Wrote(Attempt(f), {"translation"})
  BY <1>a, <1>b, WritingText DEF Artifacts
<1>e. call' = [call EXCEPT ![f].at = call[f].at + 1] =>
        /\ Calling(f, call'[f]) /\ call'[f] \in FinishCalls
        /\ call'[f].code = call[f].code /\ call'[f].attempt = call[f].attempt
  BY <1>a, Advancing DEF AdvanceAttempt
<1>f. call[f].at \in 3 .. 9
  BY <1>b DEF FinishCalls, EXTRACTED, VALIDATED
<1>1. FinishStep(f)
  BY <1>a, <1>b, <1>c, <1>d, <1>e, <1>f DEF AdvanceAttempt, Refusals, EXTRACTED,
     VALIDATED, FINALIZED, Wrote, Raised, Moving, Calling, TypeOK, FinishCodes,
     Recoverable, FinishStep, DiskOK, Labels, Working
<1>2. FinishIsKnown(f)'
  BY <1>a, <1>b, <1>c, <1>d, <1>e, <1>f DEF AdvanceAttempt, Refusals, EXTRACTED,
     VALIDATED, FINALIZED, Wrote, Raised, Moving, Calling, TypeOK, FinishCodes,
     Recoverable, FinishIsKnown, Working
<1>3. Tidy(Attempt(f))'
  BY <1>a, <1>b, <1>c, <1>d, <1>e, <1>f DEF AdvanceAttempt, Refusals, EXTRACTED,
     VALIDATED, FINALIZED, Wrote, Raised, Moving, Calling, TypeOK, FinishCodes,
     Recoverable, Tidy, AttemptIsManaged, Working
<1>4. AttemptIsManaged(f)'
  BY <1>a, <1>b, <1>c, <1>d, <1>e, <1>f DEF AdvanceAttempt, Refusals, EXTRACTED,
     VALIDATED, FINALIZED, Wrote, Raised, Moving, Calling, TypeOK, FinishCodes,
     Recoverable, AttemptIsManaged, Tidy, Working
<1>5. OutcomeIsDone(f)'
  BY <1>a, <1>b, <1>c, <1>d, <1>e, <1>f DEF AdvanceAttempt, Refusals, EXTRACTED,
     VALIDATED, FINALIZED, Wrote, Raised, Moving, Calling, TypeOK, FinishCodes,
     Recoverable, OutcomeIsDone, FinishIsKnown, Working
<1>6. CheckpointIsKept(f)'
  BY <1>a, <1>b, <1>c, <1>d, <1>e, <1>f DEF AdvanceAttempt, Refusals, EXTRACTED,
     VALIDATED, FINALIZED, Wrote, Raised, Moving, Calling, TypeOK, FinishCodes,
     Recoverable, CheckpointIsKept, Bound, Working
<1> QED
  BY <1>a, <1>1, <1>2, <1>3, <1>4, <1>5, <1>6, FinishStepKeepsIInv

LEMMA DisposeStep ==
  ASSUME IInv, UNCHANGED setting, NEW f \in Finishers, Dispose(f)
  PROVE  IInv'
<1>a. /\ f \in Actors /\ pc[f] = "disposing" /\ TypeOK /\ FinishIsKnown(f)
      /\ AttemptIsManaged(f) /\ OutcomeIsDone(f) /\ CheckpointIsKept(f)
  BY DEF IInv, CommandsAreKnown, Actors, Dispose
<1>b. /\ call[f] \in FinishCalls /\ runs'[f] = runs[f] /\ Attempt(f)' = Attempt(f)
      /\ Attempt(f) \in Dirs /\ Attempt(f) # Checkpoint /\ Checkpoint \in Dirs
      /\ Tidy(Attempt(f)) /\ FinishCalls' = FinishCalls /\ Overlap' = Overlap
  BY <1>a, AttemptIsADirectory, SettingStays
     DEF FinishIsKnown, IInv, Dispose, Attempt, Dirs
<1>c. (Goto(f, "cleaning") => Moving(f, "cleaning"))
  BY <1>a, Going DEF Labels, Working
<1>d. \A code \in FinishCodes :
        Raise(f, "cleaning", code) => Raised(f, "cleaning", code)
  BY <1>a, RaisingInFinish DEF Labels, Working
<1>e. /\ CleanupSucceeds(Attempt(f), call[f].debug) => CleanedUp(Attempt(f), call[f].debug)
      /\ CleanupFails(Attempt(f), call[f].debug) => StuckAt(Attempt(f), call[f].debug)
  BY <1>a, <1>b, CleaningUp, FailingToCleanUp DEF FinishCalls
<1>1. FinishStep(f)
  BY <1>a, <1>b, <1>c, <1>d, <1>e DEF Dispose, Raised, Moving, Calling, CleanedUp,
     StuckAt, Touching, DiskOK, FinishCodes, Recoverable, FinishStep, TypeOK, Labels,
     Working
<1>2. FinishIsKnown(f)'
  BY <1>a, <1>b, <1>c, <1>d, <1>e DEF Dispose, Raised, Moving, Calling, CleanedUp,
     StuckAt, Touching, DiskOK, FinishCodes, Recoverable, FinishIsKnown, Working
<1>3. Tidy(Attempt(f))'
  BY <1>a, <1>b, <1>c, <1>d, <1>e DEF Dispose, Raised, Moving, Calling, CleanedUp,
     StuckAt, Touching, DiskOK, FinishCodes, Recoverable, Tidy, AttemptIsManaged, Working
<1>4. AttemptIsManaged(f)'
  BY <1>a, <1>b, <1>c, <1>d, <1>e DEF Dispose, Raised, Moving, Calling, CleanedUp,
     StuckAt, Touching, DiskOK, FinishCodes, Recoverable, AttemptIsManaged, Tidy, Working
<1>5. OutcomeIsDone(f)'
  BY <1>a, <1>b, <1>c, <1>d, <1>e DEF Dispose, Raised, Moving, Calling, CleanedUp,
     StuckAt, Touching, DiskOK, FinishCodes, Recoverable, OutcomeIsDone, FinishIsKnown,
     Working
<1>6. CheckpointIsKept(f)'
  BY <1>a, <1>b, <1>c, <1>d, <1>e DEF Dispose, Raised, Moving, Calling, CleanedUp,
     StuckAt, Touching, DiskOK, FinishCodes, Recoverable, CheckpointIsKept, Bound, Working
<1> QED
  BY <1>a, <1>1, <1>2, <1>3, <1>4, <1>5, <1>6, FinishStepKeepsIInv

LEMMA PublishStep ==
  ASSUME IInv, UNCHANGED setting, NEW f \in Finishers, Publish(f)
  PROVE  IInv'
<1>a. /\ f \in Actors /\ pc[f] = "finishing" /\ TypeOK /\ FinishIsKnown(f)
      /\ AttemptIsManaged(f) /\ OutcomeIsDone(f) /\ CheckpointIsKept(f)
  BY DEF IInv, CommandsAreKnown, Actors, Publish
<1>b. /\ call[f] \in FinishCalls /\ runs'[f] = runs[f] /\ Attempt(f)' = Attempt(f)
      /\ Attempt(f) \in Dirs /\ Attempt(f) # Checkpoint /\ Checkpoint \in Dirs
      /\ Tidy(Attempt(f)) /\ FinishCalls' = FinishCalls /\ Overlap' = Overlap
  BY <1>a, AttemptIsADirectory, SettingStays
     DEF FinishIsKnown, IInv, Publish, Attempt, Dirs
<1>c. (Goto(f, "published") => Moving(f, "published"))
  BY <1>a, Going DEF Labels, Working
<1>d. \A code \in FinishCodes :
        Raise(f, "delivered", code) => Raised(f, "delivered", code)
  BY <1>a, RaisingInFinish DEF Labels, Working
<1>e. call[f].target \in setting.outputs /\ Attempt(f) \in Attempts
  BY <1>a, <1>b, AttemptIsADirectory DEF FinishCalls
<1>1. FinishStep(f)
  BY <1>a, <1>b, <1>c, <1>d, <1>e DEF Publish, Raised, Moving, Calling, TypeOK,
     FinishCodes, Recoverable, FinishStep, DiskOK, Labels, Working
<1>2. FinishIsKnown(f)'
  BY <1>a, <1>b, <1>c, <1>d, <1>e DEF Publish, Raised, Moving, Calling, TypeOK,
     FinishCodes, Recoverable, FinishIsKnown, Working
<1>3. Tidy(Attempt(f))'
  BY <1>a, <1>b, <1>c, <1>d, <1>e DEF Publish, Raised, Moving, Calling, TypeOK,
     FinishCodes, Recoverable, Tidy, AttemptIsManaged, Working
<1>4. AttemptIsManaged(f)'
  BY <1>a, <1>b, <1>c, <1>d, <1>e DEF Publish, Raised, Moving, Calling, TypeOK,
     FinishCodes, Recoverable, AttemptIsManaged, Tidy, Working
<1>5. OutcomeIsDone(f)'
  BY <1>a, <1>b, <1>c, <1>d, <1>e DEF Publish, Raised, Moving, Calling, TypeOK,
     FinishCodes, Recoverable, OutcomeIsDone, FinishIsKnown, Working
<1>6. CheckpointIsKept(f)'
  BY <1>a, <1>b, <1>c, <1>d, <1>e DEF Publish, Raised, Moving, Calling, TypeOK,
     FinishCodes, Recoverable, CheckpointIsKept, Bound, Working
<1> QED
  BY <1>a, <1>1, <1>2, <1>3, <1>4, <1>5, <1>6, FinishStepKeepsIInv

LEMMA FinalizeStep ==
  ASSUME IInv, UNCHANGED setting, NEW f \in Finishers, Finalize(f)
  PROVE  IInv'
<1>a. /\ f \in Actors /\ pc[f] = "published" /\ TypeOK /\ FinishIsKnown(f)
      /\ AttemptIsManaged(f) /\ OutcomeIsDone(f) /\ CheckpointIsKept(f)
  BY DEF IInv, CommandsAreKnown, Actors, Finalize
<1>b. /\ call[f] \in FinishCalls /\ runs'[f] = runs[f] /\ Attempt(f)' = Attempt(f)
      /\ Attempt(f) \in Dirs /\ Attempt(f) # Checkpoint /\ Checkpoint \in Dirs
      /\ Tidy(Attempt(f)) /\ FinishCalls' = FinishCalls /\ Overlap' = Overlap
  BY <1>a, AttemptIsADirectory, SettingStays
     DEF FinishIsKnown, IInv, Finalize, Attempt, Dirs
<1>c. (Goto(f, "delivered") => Moving(f, "delivered"))
  BY <1>a, Going DEF Labels, Working
<1>d. \A code \in FinishCodes :
        Raise(f, "delivered", code) => Raised(f, "delivered", code)
  BY <1>a, RaisingInFinish DEF Labels, Working
<1>1. FinishStep(f)
  BY <1>a, <1>b, <1>c, <1>d DEF Finalize, VALIDATED, FINALIZED, Raised, Moving, Calling,
     TypeOK, FinishCodes, Recoverable, FinishStep, DiskOK, Labels, Working
<1>2. FinishIsKnown(f)'
  BY <1>a, <1>b, <1>c, <1>d DEF Finalize, VALIDATED, FINALIZED, Raised, Moving, Calling,
     TypeOK, FinishCodes, Recoverable, FinishIsKnown, Working
<1>3. Tidy(Attempt(f))'
  BY <1>a, <1>b, <1>c, <1>d DEF Finalize, VALIDATED, FINALIZED, Raised, Moving, Calling,
     TypeOK, FinishCodes, Recoverable, Tidy, AttemptIsManaged, Working
<1>4. AttemptIsManaged(f)'
  BY <1>a, <1>b, <1>c, <1>d DEF Finalize, VALIDATED, FINALIZED, Raised, Moving, Calling,
     TypeOK, FinishCodes, Recoverable, AttemptIsManaged, Tidy, Working
<1>5. OutcomeIsDone(f)'
  BY <1>a, <1>b, <1>c, <1>d DEF Finalize, VALIDATED, FINALIZED, Raised, Moving, Calling,
     TypeOK, FinishCodes, Recoverable, OutcomeIsDone, FinishIsKnown, Working
<1>6. CheckpointIsKept(f)'
  BY <1>a, <1>b, <1>c, <1>d DEF Finalize, VALIDATED, FINALIZED, Raised, Moving, Calling,
     TypeOK, FinishCodes, Recoverable, CheckpointIsKept, Bound, Working
<1> QED
  BY <1>a, <1>1, <1>2, <1>3, <1>4, <1>5, <1>6, FinishStepKeepsIInv

LEMMA CleanDeliveryStep ==
  ASSUME IInv, UNCHANGED setting, NEW f \in Finishers, CleanDelivery(f)
  PROVE  IInv'
<1>a. /\ f \in Actors /\ pc[f] = "delivered" /\ TypeOK /\ FinishIsKnown(f)
      /\ AttemptIsManaged(f) /\ OutcomeIsDone(f) /\ CheckpointIsKept(f)
  BY DEF IInv, CommandsAreKnown, Actors, CleanDelivery
<1>b. /\ call[f] \in FinishCalls /\ runs'[f] = runs[f] /\ Attempt(f)' = Attempt(f)
      /\ Attempt(f) \in Dirs /\ Attempt(f) # Checkpoint /\ Checkpoint \in Dirs
      /\ Tidy(Attempt(f)) /\ FinishCalls' = FinishCalls /\ Overlap' = Overlap
  BY <1>a, AttemptIsADirectory, SettingStays
     DEF FinishIsKnown, IInv, CleanDelivery, Attempt, Dirs
<1>c. (Goto(f, "cleaning") => Moving(f, "cleaning"))
  BY <1>a, Going DEF Labels, Working
<1>d. \A code \in FinishCodes :
        Raise(f, "cleaning", code) => Raised(f, "cleaning", code)
  BY <1>a, RaisingInFinish DEF Labels, Working
<1>e. call[f].code \in FinishCodes /\ call[f].debug \in BOOLEAN
  BY <1>b DEF FinishCalls
<1>f. /\ CleanupSucceeds(Attempt(f), call[f].debug) => CleanedUp(Attempt(f), call[f].debug)
      /\ CleanupFails(Attempt(f), call[f].debug) => StuckAt(Attempt(f), call[f].debug)
  BY <1>a, <1>b, CleaningUp, FailingToCleanUp DEF FinishCalls
<1>1. FinishStep(f)
  BY <1>a, <1>b, <1>c, <1>d, <1>e, <1>f DEF CleanDelivery, Raised, Moving, Calling,
     CleanedUp, StuckAt, Touching, DiskOK, FinishCodes, Recoverable, FinishStep, TypeOK,
     Labels, Working
<1>2. FinishIsKnown(f)'
  BY <1>a, <1>b, <1>c, <1>d, <1>e, <1>f DEF CleanDelivery, Raised, Moving, Calling,
     CleanedUp, StuckAt, Touching, DiskOK, FinishCodes, Recoverable, FinishIsKnown,
     Working
<1>3. Tidy(Attempt(f))'
  BY <1>a, <1>b, <1>c, <1>d, <1>e, <1>f DEF CleanDelivery, Raised, Moving, Calling,
     CleanedUp, StuckAt, Touching, DiskOK, FinishCodes, Recoverable, Tidy,
     AttemptIsManaged, Working
<1>4. AttemptIsManaged(f)'
  BY <1>a, <1>b, <1>c, <1>d, <1>e, <1>f DEF CleanDelivery, Raised, Moving, Calling,
     CleanedUp, StuckAt, Touching, DiskOK, FinishCodes, Recoverable, AttemptIsManaged,
     Tidy, Working
<1>5. OutcomeIsDone(f)'
  BY <1>a, <1>b, <1>c, <1>d, <1>e, <1>f DEF CleanDelivery, Raised, Moving, Calling,
     CleanedUp, StuckAt, Touching, DiskOK, FinishCodes, Recoverable, OutcomeIsDone,
     FinishIsKnown, Working
<1>6. CheckpointIsKept(f)'
  BY <1>a, <1>b, <1>c, <1>d, <1>e, <1>f DEF CleanDelivery, Raised, Moving, Calling,
     CleanedUp, StuckAt, Touching, DiskOK, FinishCodes, Recoverable, CheckpointIsKept,
     Bound, Working
<1> QED
  BY <1>a, <1>1, <1>2, <1>3, <1>4, <1>5, <1>6, FinishStepKeepsIInv

LEMMA CleanAttemptStep ==
  ASSUME IInv, UNCHANGED setting, NEW f \in Finishers, CleanAttempt(f)
  PROVE  IInv'
<1>a. /\ f \in Actors /\ pc[f] = "cleaning" /\ TypeOK /\ FinishIsKnown(f)
      /\ AttemptIsManaged(f) /\ OutcomeIsDone(f) /\ CheckpointIsKept(f)
  BY DEF IInv, CommandsAreKnown, Actors, CleanAttempt
<1>b. /\ call[f] \in FinishCalls /\ runs'[f] = runs[f] /\ Attempt(f)' = Attempt(f)
      /\ Attempt(f) \in Dirs /\ Attempt(f) # Checkpoint /\ Checkpoint \in Dirs
      /\ Tidy(Attempt(f)) /\ FinishCalls' = FinishCalls /\ Overlap' = Overlap
  BY <1>a, AttemptIsADirectory, SettingStays
     DEF FinishIsKnown, IInv, CleanAttempt, FinishWith, Report, Attempt, Dirs
<1>c. (Goto(f, "parting") => Moving(f, "parting"))
  BY <1>a, Going DEF Labels, Working
<1>d. \A code \in FinishCodes \cup {"FINISH_OK"},
     action \in {"none", "repair"} :
        FinishWith(f, code,
     action) => Reporting(f, code,
     action)
  BY <1>a, ReportingAFinish
<1>e. /\ CleanupSucceeds(Attempt(f), call[f].debug) => CleanedUp(Attempt(f), call[f].debug)
      /\ CleanupFails(Attempt(f), call[f].debug) => StuckAt(Attempt(f), call[f].debug)
  BY <1>a, <1>b, CleaningUp, FailingToCleanUp DEF FinishCalls
<1>1. FinishStep(f)
  BY <1>a, <1>b, <1>c, <1>d, <1>e DEF CleanAttempt, Clean, CleanRaises, Reporting, Moving,
     CleanedUp, StuckAt, Touching, DiskOK, FinishCodes, Recoverable, FinishStep, TypeOK,
     Labels, Working
<1>2. FinishIsKnown(f)'
  BY <1>a, <1>b, <1>c, <1>d, <1>e DEF CleanAttempt, Clean, CleanRaises, Reporting, Moving,
     CleanedUp, StuckAt, Touching, DiskOK, FinishCodes, Recoverable, FinishIsKnown,
     Working
<1>3. Tidy(Attempt(f))'
  BY <1>a, <1>b, <1>c, <1>d, <1>e DEF CleanAttempt, Clean, CleanRaises, Reporting, Moving,
     CleanedUp, StuckAt, Touching, DiskOK, FinishCodes, Recoverable, Tidy,
     AttemptIsManaged, Working
<1>4. AttemptIsManaged(f)'
  BY <1>a, <1>b, <1>c, <1>d, <1>e DEF CleanAttempt, Clean, CleanRaises, Reporting, Moving,
     CleanedUp, StuckAt, Touching, DiskOK, FinishCodes, Recoverable, AttemptIsManaged,
     Tidy, Working
<1>5. OutcomeIsDone(f)'
  BY <1>a, <1>b, <1>c, <1>d, <1>e DEF CleanAttempt, Clean, CleanRaises, Reporting, Moving,
     CleanedUp, StuckAt, Touching, DiskOK, FinishCodes, Recoverable, OutcomeIsDone,
     FinishIsKnown, Working
<1>6. CheckpointIsKept(f)'
  BY <1>a, <1>b, <1>c, <1>d, <1>e DEF CleanAttempt, Clean, CleanRaises, Reporting, Moving,
     CleanedUp, StuckAt, Touching, DiskOK, FinishCodes, Recoverable, CheckpointIsKept,
     Bound, Working
<1> QED
  BY <1>a, <1>1, <1>2, <1>3, <1>4, <1>5, <1>6, FinishStepKeepsIInv

LEMMA CleanCheckpointStep ==
  ASSUME IInv, UNCHANGED setting, NEW f \in Finishers, CleanCheckpoint(f)
  PROVE  IInv'
<1>a. /\ f \in Actors /\ pc[f] = "parting" /\ TypeOK /\ FinishIsKnown(f)
      /\ AttemptIsManaged(f) /\ OutcomeIsDone(f) /\ CheckpointIsKept(f)
  BY DEF IInv, CommandsAreKnown, Actors, CleanCheckpoint
<1>b. /\ call[f] \in FinishCalls /\ runs'[f] = runs[f] /\ Attempt(f)' = Attempt(f)
      /\ Attempt(f) \in Dirs /\ Attempt(f) # Checkpoint /\ Checkpoint \in Dirs
      /\ Tidy(Attempt(f)) /\ FinishCalls' = FinishCalls /\ Overlap' = Overlap
  BY <1>a, AttemptIsADirectory, SettingStays
     DEF FinishIsKnown, IInv, CleanCheckpoint, FinishWith, Report, Attempt, Dirs
<1>c. \A code \in FinishCodes \cup {"FINISH_OK"},
     action \in {"none", "repair"} :
        FinishWith(f, code,
     action) => Reporting(f, code,
     action)
  BY <1>a, ReportingAFinish
<1>d. call[f].code \in FinishCodes /\ call[f].debug \in BOOLEAN
  BY <1>b DEF FinishCalls
<1>e. /\ RecoveryAction(call[f].code) \in {"none", "repair"}
      /\ RecoveryAction(call[f].code) # "none" <=> call[f].code \in Recoverable
  BY <1>a, <1>b, RecoveryActions DEF FinishCalls
<1>f. \A keep \in BOOLEAN :
        /\ CleanupSucceeds(Checkpoint, keep) => CleanedUp(Checkpoint, keep)
        /\ CleanupFails(Checkpoint, keep) => StuckAt(Checkpoint, keep)
  BY <1>a, <1>b, CleaningUp, FailingToCleanUp
<1>1. FinishStep(f)
  BY <1>a, <1>b, <1>c, <1>d, <1>e, <1>f DEF CleanCheckpoint, Clean, CleanRaises,
     Reporting, Moving, CleanedUp, StuckAt, Touching, DiskOK, FinishCodes, Recoverable,
     FinishStep, TypeOK, Labels, Working
<1>2. FinishIsKnown(f)'
  BY <1>a, <1>b, <1>c, <1>d, <1>e, <1>f DEF CleanCheckpoint, Clean, CleanRaises,
     Reporting, Moving, CleanedUp, StuckAt, Touching, DiskOK, FinishCodes, Recoverable,
     FinishIsKnown, Working
<1>3. Tidy(Attempt(f))'
  <2>1. dir'[Attempt(f)] = dir[Attempt(f)] /\ text'[Attempt(f)] = text[Attempt(f)]
        /\ stage'[Attempt(f)] = stage[Attempt(f)]
    BY <1>a, <1>b, <1>d, <1>e, <1>f
       DEF CleanCheckpoint, Clean, CleanRaises, CleanedUp, StuckAt, Touching
  <2> QED
    BY <1>b, <2>1 DEF Tidy
<1>4. AttemptIsManaged(f)'
  BY <1>a, <1>b, <1>c, <1>d, <1>e, <1>f DEF CleanCheckpoint, Clean, CleanRaises,
     Reporting, Moving, CleanedUp, StuckAt, Touching, DiskOK, FinishCodes, Recoverable,
     AttemptIsManaged, Tidy, Working
<1>5. OutcomeIsDone(f)'
  BY <1>a, <1>b, <1>c, <1>d, <1>e, <1>f DEF CleanCheckpoint, Clean, CleanRaises,
     Reporting, Moving, CleanedUp, StuckAt, Touching, DiskOK, FinishCodes, Recoverable,
     OutcomeIsDone, FinishIsKnown, Working
<1>6. CheckpointIsKept(f)'
  BY <1>a, <1>b, <1>c, <1>d, <1>e, <1>f DEF CleanCheckpoint, Clean, CleanRaises,
     Reporting, Moving, CleanedUp, StuckAt, Touching, DiskOK, FinishCodes, Recoverable,
     CheckpointIsKept, Bound, Working
<1> QED
  BY <1>a, <1>1, <1>2, <1>3, <1>4, <1>5, <1>6, FinishStepKeepsIInv

LEMMA SucceedStep ==
  ASSUME IInv, UNCHANGED setting, NEW f \in Finishers, Succeed(f)
  PROVE  IInv'
<1>a. /\ f \in Actors /\ pc[f] = "cleaning" /\ TypeOK /\ FinishIsKnown(f)
      /\ AttemptIsManaged(f) /\ OutcomeIsDone(f) /\ CheckpointIsKept(f)
  BY DEF IInv, CommandsAreKnown, Actors, Succeed
<1>b. /\ call[f] \in FinishCalls /\ runs'[f] = runs[f] /\ Attempt(f)' = Attempt(f)
      /\ Attempt(f) \in Dirs /\ Attempt(f) # Checkpoint /\ Checkpoint \in Dirs
      /\ Tidy(Attempt(f)) /\ FinishCalls' = FinishCalls /\ Overlap' = Overlap
  BY <1>a, AttemptIsADirectory, SettingStays
     DEF FinishIsKnown, IInv, Succeed, FinishWith, Report, Attempt, Dirs
<1>c. \A code \in FinishCodes \cup {"FINISH_OK"},
     action \in {"none", "repair"} :
        FinishWith(f, code,
     action) => Reporting(f, code,
     action)
  BY <1>a, ReportingAFinish
<1>d. /\ CleanupSucceeds(Checkpoint, call[f].debug) => CleanedUp(Checkpoint, call[f].debug)
      /\ CleanupFails(Checkpoint, call[f].debug) => StuckAt(Checkpoint, call[f].debug)
  BY <1>a, <1>b, CleaningUp, FailingToCleanUp DEF FinishCalls
<1>1. FinishStep(f)
  BY <1>a, <1>b, <1>c, <1>d DEF Succeed, Clean, CleanRaises, Reporting, Moving, CleanedUp,
     StuckAt, Touching, DiskOK, FinishCodes, Recoverable, FinishStep, TypeOK, Labels,
     Working
<1>2. FinishIsKnown(f)'
  BY <1>a, <1>b, <1>c, <1>d DEF Succeed, Clean, CleanRaises, Reporting, Moving, CleanedUp,
     StuckAt, Touching, DiskOK, FinishCodes, Recoverable, FinishIsKnown, Working
<1>3. Tidy(Attempt(f))'
  BY <1>a, <1>b, <1>c, <1>d DEF Succeed, Clean, CleanRaises, Reporting, Moving, CleanedUp,
     StuckAt, Touching, DiskOK, FinishCodes, Recoverable, Tidy, AttemptIsManaged, Working
<1>4. AttemptIsManaged(f)'
  BY <1>a, <1>b, <1>c, <1>d DEF Succeed, Clean, CleanRaises, Reporting, Moving, CleanedUp,
     StuckAt, Touching, DiskOK, FinishCodes, Recoverable, AttemptIsManaged, Tidy, Working
<1>5. OutcomeIsDone(f)'
  BY <1>a, <1>b, <1>c, <1>d DEF Succeed, Clean, CleanRaises, Reporting, Moving, CleanedUp,
     StuckAt, Touching, DiskOK, FinishCodes, Recoverable, OutcomeIsDone, FinishIsKnown,
     Working
<1>6. CheckpointIsKept(f)'
  BY <1>a, <1>b, <1>c, <1>d DEF Succeed, Clean, CleanRaises, Reporting, Moving, CleanedUp,
     StuckAt, Touching, DiskOK, FinishCodes, Recoverable, CheckpointIsKept, Bound, Working
<1> QED
  BY <1>a, <1>1, <1>2, <1>3, <1>4, <1>5, <1>6, FinishStepKeepsIInv

LEMMA InterruptStep ==
  ASSUME IInv, UNCHANGED setting, NEW f \in Finishers, Interrupt(f)
  PROVE  IInv'
<1>a. /\ f \in Actors /\ pc[f] # "idle" /\ TypeOK /\ FinishIsKnown(f)
      /\ AttemptIsManaged(f) /\ OutcomeIsDone(f) /\ CheckpointIsKept(f)
  BY DEF IInv, CommandsAreKnown, Actors, Interrupt
<1>b. /\ call[f] \in FinishCalls /\ runs'[f] = runs[f] /\ Attempt(f)' = Attempt(f)
      /\ Attempt(f) \in Dirs /\ Attempt(f) # Checkpoint /\ Checkpoint \in Dirs
      /\ Tidy(Attempt(f)) /\ FinishCalls' = FinishCalls /\ Overlap' = Overlap
  BY <1>a, AttemptIsADirectory, SettingStays
     DEF FinishIsKnown, IInv, Interrupt, Attempt, Dirs
<1>c. \A code \in FinishCodes :
        /\ Raise(f, "cleaning", code) => Raised(f, "cleaning", code)
        /\ Raise(f, "abandoning", code) => Raised(f, "abandoning", code)
        /\ Raise(f, "disposing", code) => Raised(f, "disposing", code)
        /\ Raise(f, "delivered", code) => Raised(f, "delivered", code)
  BY <1>a, RaisingInFinish DEF Labels, Working
<1>1. FinishStep(f)
  BY <1>a, <1>b, <1>c DEF Interrupt, onDisk, Raised, Moving, Calling, FinishCodes,
     Recoverable, FinishStep, TypeOK, DiskOK, Labels, Working
<1>2. FinishIsKnown(f)'
  BY <1>a, <1>b, <1>c DEF Interrupt, onDisk, Raised, Moving, Calling, FinishCodes,
     Recoverable, FinishIsKnown, Working
<1>3. Tidy(Attempt(f))'
  BY <1>a, <1>b, <1>c DEF Interrupt, onDisk, Raised, Moving, Calling, FinishCodes,
     Recoverable, Tidy, AttemptIsManaged, Working
<1>4. AttemptIsManaged(f)'
  BY <1>a, <1>b, <1>c DEF Interrupt, onDisk, Raised, Moving, Calling, FinishCodes,
     Recoverable, AttemptIsManaged, Tidy, Working
<1>5. OutcomeIsDone(f)'
  BY <1>a, <1>b, <1>c DEF Interrupt, onDisk, Raised, Moving, Calling, FinishCodes,
     Recoverable, OutcomeIsDone, FinishIsKnown, Working
<1>6. CheckpointIsKept(f)'
  BY <1>a, <1>b, <1>c DEF Interrupt, onDisk, Raised, Moving, Calling, FinishCodes,
     Recoverable, CheckpointIsKept, Bound, Working
<1> QED
  BY <1>a, <1>1, <1>2, <1>3, <1>4, <1>5, <1>6, FinishStepKeepsIInv

-----------------------------------------------------------------------------
(* A step that is not one of a finish under way leaves the finishes and    *)
(* their attempts where they are.                                          *)
ElsewhereStep ==
    /\ UNCHANGED << setting, output >>
    /\ \A f \in Finishers : pc'[f] = pc[f] /\ call'[f] = call[f] /\ runs'[f] = runs[f]
    /\ \A d \in Attempts : dir'[d] = dir[d] /\ text'[d] = text[d] /\ stage'[d] = stage[d]

LEMMA ElsewhereStepKeepsIInv ==
  ASSUME IInv, ElsewhereStep, TypeOK', OneCommand', AttemptsAreFresh',
         \A p \in Preparers : PreparationIsKnown(p)', \A s \in Sweepers : SweepIsKnown(s)',
         ~Overlap => /\ (\E f \in Finishers : pc[f] # "idle") =>
                           /\ dir'[Checkpoint] = dir[Checkpoint]
                           /\ text'[Checkpoint] = text[Checkpoint]
                           /\ stage'[Checkpoint] = stage[Checkpoint]
  PROVE  IInv'
<1>1. FinishCalls' = FinishCalls /\ Overlap' = Overlap
  BY SettingStays DEF ElsewhereStep
<1>2. CommandsAreKnown'
  BY <1>1 DEF IInv, CommandsAreKnown, FinishIsKnown, ElsewhereStep
<1>3. \A d \in Attempts : Tidy(d)'
  BY DEF IInv, Tidy, ElsewhereStep
<1>4. ASSUME NEW f \in Finishers
      PROVE  AttemptIsManaged(f)' /\ OutcomeIsDone(f)' /\ CheckpointIsKept(f)'
  <2>1. pc'[f] = pc[f] /\ call'[f] = call[f] /\ Attempt(f)' = Attempt(f) /\ output' = output
    BY DEF ElsewhereStep, Attempt
  <2>2. CASE pc[f] = "idle"
    BY <2>1, <2>2 DEF AttemptIsManaged, OutcomeIsDone, CheckpointIsKept, Working
  <2>3. CASE pc[f] # "idle"
    <3>1. Attempt(f) \in Attempts
      BY <2>3, AttemptIsADirectory DEF IInv, CommandsAreKnown
    <3>2. dir'[Attempt(f)] = dir[Attempt(f)] /\ stage'[Attempt(f)] = stage[Attempt(f)]
      BY <3>1 DEF ElsewhereStep
    <3>3. AttemptIsManaged(f)'
      BY <2>1, <3>2 DEF AttemptIsManaged, IInv
    <3>4. OutcomeIsDone(f)'
      BY <2>1, <3>2 DEF OutcomeIsDone, IInv
    <3>5. CheckpointIsKept(f)'
      BY <1>1, <2>1, <2>3 DEF CheckpointIsKept, Bound, IInv
    <3> QED
      BY <3>3, <3>4, <3>5
  <2> QED
    BY <2>2, <2>3
<1> QED
  BY <1>2, <1>3, <1>4 DEF IInv

(* A preparation touches the checkpoint alone.                             *)
PrepareStep(p) ==
    /\ UNCHANGED << setting, output >>
    /\ pc' \in [Actors -> Labels] /\ \A b \in Actors \ {p} : pc'[b] = pc[b]
    /\ call' \in [Actors -> {NoResult} \cup PrepareCalls \cup FinishCalls \cup SweepCalls]
    /\ \A b \in Actors \ {p} : call'[b] = call[b]
    /\ runs' \in [Actors -> Nat] /\ \A b \in Actors \ {p} : runs'[b] = runs[b]
    /\ result' \in [Actors -> {NoResult} \cup [code : PrepareCodes] \cup Reports]
    /\ DiskOK'
    /\ \A e \in Dirs \ {Checkpoint} : /\ dir'[e] = dir[e] /\ text'[e] = text[e]
                                      /\ stage'[e] = stage[e] /\ expired'[e] = expired[e]

LEMMA AttemptsStayFresh ==
  ASSUME IInv, \A f \in Finishers : pc'[f] = pc[f] /\ runs'[f] = runs[f],
         \A d \in Attempts : dir'[d] = dir[d] /\ (expired'[d] => expired[d]),
         \A s \in Sweepers : pc'[s] = "sweeping" => pc[s] = "sweeping" /\ call'[s] = call[s]
  PROVE  AttemptsAreFresh'
<1> SUFFICES ASSUME NEW g \in Finishers, NEW n \in 1 .. MaxFinishes
             PROVE  /\ n > runs[g] => dir'[<< g, n >>] = "absent" /\ Unswept(<< g, n >>)'
                    /\ n = runs[g] /\ pc[g] # "idle" => Unswept(<< g, n >>)'
  BY DEF AttemptsAreFresh
<1>1. << g, n >> \in Attempts
  BY DEF Attempts
<1>2. Unswept(<< g, n >>) => Unswept(<< g, n >>)'
  BY <1>1 DEF Unswept
<1> QED
  BY <1>1, <1>2 DEF IInv, AttemptsAreFresh

LEMMA PrepareStepKeepsIInv ==
  ASSUME IInv, NEW p \in Preparers, PrepareStep(p), PreparationIsKnown(p)',
         pc[p] # "idle" \/ \A b \in Finishers \cup Preparers : ~Overlap => pc[b] = "idle"
  PROVE  IInv'
<1>1. /\ FinishCalls' = FinishCalls /\ Reports' = Reports /\ Overlap' = Overlap
      /\ p \in Actors /\ p \notin Finishers /\ p \notin Sweepers
  BY SettingStays, ActorsAssumption DEF PrepareStep, Actors
<1>2. TypeOK'
  BY <1>1 DEF IInv, TypeOK, PrepareStep, DiskOK
<1>3. ElsewhereStep
  BY <1>1, CheckpointAssumption DEF PrepareStep, ElsewhereStep, Actors, Dirs
<1>4. AttemptsAreFresh'
  <2>1. \A d \in Attempts : dir'[d] = dir[d] /\ (expired'[d] => expired[d])
    BY CheckpointAssumption DEF PrepareStep, Dirs
  <2>2. \A s \in Sweepers : pc'[s] = pc[s] /\ call'[s] = call[s]
    BY <1>1 DEF PrepareStep, Actors
  <2> QED
    BY <1>3, <2>1, <2>2, AttemptsStayFresh DEF ElsewhereStep
<1>5. OneCommand'
  BY <1>1 DEF IInv, OneCommand, PrepareStep, Actors
<1>6. \A q \in Preparers : PreparationIsKnown(q)'
  BY <1>1 DEF IInv, CommandsAreKnown, PreparationIsKnown, PrepareStep, Actors
<1>7. \A s \in Sweepers : SweepIsKnown(s)'
  BY <1>1 DEF IInv, CommandsAreKnown, SweepIsKnown, PrepareStep, Actors
<1>8. ~Overlap => \A f \in Finishers : pc[f] = "idle"
  BY <1>1 DEF IInv, OneCommand
<1> QED
  BY <1>2, <1>3, <1>4, <1>5, <1>6, <1>7, <1>8, ElsewhereStepKeepsIInv

LEMMA BeginPrepareStep ==
  ASSUME IInv, UNCHANGED setting, NEW p \in Preparers, BeginPrepare(p)
  PROVE  IInv'
<1>1. /\ p \in Actors /\ TypeOK /\ Checkpoint \in Dirs /\ PrepareCalls' = PrepareCalls
      /\ \A b \in Finishers \cup Preparers : ~Overlap => pc[b] = "idle"
  BY DEF IInv, Actors, Dirs, BeginPrepare, MayStart, PrepareCalls
<1>2. \A code \in PrepareCodes : [code |-> code, at |-> 0] \in PrepareCalls
  BY DEF PrepareCalls, EXTRACTED
<1>3. PrepareStep(p)
  BY <1>1, <1>2 DEF BeginPrepare, Goto, PrepareStep, TypeOK, DiskOK, Labels, PrepareCodes
<1>4. PreparationIsKnown(p)'
  BY <1>1, <1>2 DEF BeginPrepare, Goto, PreparationIsKnown, TypeOK, PrepareCodes, EXTRACTED
<1> QED
  BY <1>1, <1>3, <1>4, PrepareStepKeepsIInv

LEMMA PreparationContext ==
  ASSUME IInv, UNCHANGED setting, NEW p \in Preparers, pc[p] # "idle"
  PROVE  /\ p \in Actors /\ TypeOK /\ PreparationIsKnown(p) /\ Checkpoint \in Dirs
         /\ call[p] \in PrepareCalls /\ PrepareCalls' = PrepareCalls
         /\ \A label \in Labels : Goto(p, label) => Moving(p, label)
         /\ \A label \in Labels, code \in PrepareCodes :
               Raise(p, label, code) => /\ Moving(p, label) /\ Calling(p, call'[p])
                                        /\ call'[p] \in PrepareCalls
<1>1. /\ p \in Actors /\ TypeOK /\ PreparationIsKnown(p) /\ Checkpoint \in Dirs
      /\ call[p] \in PrepareCalls /\ PrepareCalls' = PrepareCalls
  BY DEF IInv, CommandsAreKnown, PreparationIsKnown, Actors, Dirs, PrepareCalls
<1> QED
  BY <1>1, Going, RaisingInPrepare

LEMMA MarkCheckpointStep ==
  ASSUME IInv, UNCHANGED setting, NEW p \in Preparers, MarkCheckpoint(p)
  PROVE  IInv'
<1>1. pc[p] = "marking"
  BY DEF MarkCheckpoint
<1>4. /\ dir' \in [Dirs -> {"absent", "bare", "managed", "torn"}]
      /\ \A e \in Dirs \ {Checkpoint} : dir'[e] = dir[e]
  <2>1. PICK v \in {"absent", "bare", "managed", "torn"} : dir' = [dir EXCEPT ![Checkpoint] = v]
    BY <1>1, PreparationContext DEF MarkCheckpoint, TypeOK
  <2> QED
    BY <1>1, <2>1, PreparationContext DEF TypeOK
<1>5. /\ expired' \in [Dirs -> BOOLEAN]
      /\ \A e \in Dirs \ {Checkpoint} : expired'[e] = expired[e]
  BY <1>1, PreparationContext DEF MarkCheckpoint, TypeOK
<1>6. /\ Moving(p, pc'[p]) /\ Calling(p, call'[p])
      /\ UNCHANGED << text, stage, output, runs, result >>
  <2>1. CASE Goto(p, "extracting") /\ UNCHANGED call
    BY <1>1, <2>1, PreparationContext DEF MarkCheckpoint, Moving, Calling, TypeOK, Labels
  <2>2. CASE Raise(p, "rejected", "JOB_CREATE_FAILED")
    BY <1>1, <2>2, PreparationContext DEF MarkCheckpoint, Moving, Labels, PrepareCodes
  <2> QED
    BY <2>1, <2>2 DEF MarkCheckpoint
<1>2. PrepareStep(p)
  BY <1>1, <1>4, <1>5, <1>6, PreparationContext
     DEF Moving, Calling, PrepareStep, TypeOK, DiskOK
<1>3. PreparationIsKnown(p)'
  BY <1>1, PreparationContext
     DEF MarkCheckpoint, Moving, Calling, PreparationIsKnown, Labels, PrepareCodes
<1> QED
  BY <1>1, <1>2, <1>3, PrepareStepKeepsIInv

LEMMA ExtractStep ==
  ASSUME IInv, UNCHANGED setting, NEW p \in Preparers, Extract(p)
  PROVE  IInv'
<1>1. pc[p] = "extracting"
  BY DEF Extract
<1>2. WriteText(Checkpoint, {"extraction"}) => Wrote(Checkpoint, {"extraction"})
  BY <1>1, PreparationContext, WritingText DEF Artifacts, Prepared
<1>3. PrepareStep(p)
  BY <1>1, <1>2, PreparationContext
     DEF Extract, Wrote, Moving, Calling, PrepareStep, TypeOK, DiskOK, Labels, PrepareCodes
<1>4. PreparationIsKnown(p)'
  <2>1. \/ Goto(p, "committing") /\ UNCHANGED call
        \/ Raise(p, "unpreparing", "PREPARE_FAILED")
    BY DEF Extract
  <2>2. CASE Goto(p, "committing") /\ UNCHANGED call
    BY <1>1, <2>2, PreparationContext DEF Moving, PreparationIsKnown, Labels
  <2>3. CASE Raise(p, "unpreparing", "PREPARE_FAILED")
    BY <1>1, <2>3, PreparationContext DEF Moving, PreparationIsKnown, Labels, PrepareCodes
  <2> QED
    BY <2>1, <2>2, <2>3
<1> QED
  BY <1>1, <1>3, <1>4, PrepareStepKeepsIInv

LEMMA CommitTextStep ==
  ASSUME IInv, UNCHANGED setting, NEW p \in Preparers, CommitText(p)
  PROVE  IInv'
<1>1. pc[p] = "committing"
  BY DEF CommitText
<1>2. WriteText(Checkpoint, {"units"}) => Wrote(Checkpoint, {"units"})
  BY <1>1, PreparationContext, WritingText DEF Artifacts, Prepared
<1>3. PrepareStep(p)
  BY <1>1, <1>2, PreparationContext
     DEF CommitText, Wrote, Moving, Calling, PrepareStep, TypeOK, DiskOK, Labels, PrepareCodes
<1>4. PreparationIsKnown(p)'
  <2>1. \/ Goto(p, "freezing") /\ UNCHANGED call
        \/ \E code \in PrepareCodes : Raise(p, "unpreparing", code)
    BY DEF CommitText, PrepareCodes
  <2>2. CASE Goto(p, "freezing") /\ UNCHANGED call
    BY <1>1, <2>2, PreparationContext DEF Moving, PreparationIsKnown, Labels
  <2>3. CASE \E code \in PrepareCodes : Raise(p, "unpreparing", code)
    BY <1>1, <2>3, PreparationContext DEF Moving, PreparationIsKnown, Labels
  <2> QED
    BY <2>1, <2>2, <2>3
<1> QED
  BY <1>1, <1>3, <1>4, PrepareStepKeepsIInv

LEMMA FreezeStep ==
  ASSUME IInv, UNCHANGED setting, NEW p \in Preparers, Freeze(p)
  PROVE  IInv'
<1>1. pc[p] = "freezing"
  BY DEF Freeze
<1>2. /\ call[p] \in PrepareCalls /\ call[p].at \in 0 .. 2 /\ p \in Actors /\ TypeOK
      /\ Checkpoint \in Dirs
  BY <1>1, PreparationContext DEF PreparationIsKnown, PrepareCalls, EXTRACTED
<1>3. ASSUME call' = [call EXCEPT ![p].at = @ + 1]
      PROVE  /\ Calling(p, call'[p]) /\ call'[p] \in PrepareCalls
             /\ call'[p].at = call[p].at + 1
  <2>1. call' = [call EXCEPT ![p] = [call[p] EXCEPT !.at = call[p].at + 1]]
    BY <1>2, <1>3 DEF TypeOK
  <2>2. LET c == [call[p] EXCEPT !.at = call[p].at + 1]
        IN c \in PrepareCalls /\ c.at = call[p].at + 1
    BY <1>2 DEF PrepareCalls, EXTRACTED
  <2> QED
    BY <1>2, <2>1, <2>2 DEF TypeOK, Calling
<1>4. ASSUME /\ stage[Checkpoint] = call[p].at
             /\ dir' = [dir EXCEPT ![Checkpoint] = IF @ = "absent" THEN "bare" ELSE @]
             /\ stage' = [stage EXCEPT ![Checkpoint] = @ + 1]
             /\ call' = [call EXCEPT ![p].at = @ + 1]
             /\ Goto(p, IF call[p].at + 1 = EXTRACTED THEN "prepared" ELSE "freezing")
             /\ UNCHANGED << text, expired, output, runs, result >>
      PROVE  PrepareStep(p) /\ PreparationIsKnown(p)'
  <2>1. Moving(p, IF call[p].at + 1 = EXTRACTED THEN "prepared" ELSE "freezing")
    BY <1>2, <1>4, Going DEF Labels
  <2>2. DiskOK'
    <3>1. stage[Checkpoint] + 1 \in 0 .. FINALIZED
      BY <1>2, <1>4 DEF FINALIZED
    <3>2. stage' \in [Dirs -> 0 .. FINALIZED]
      BY <1>2, <1>4, <3>1 DEF TypeOK
    <3> QED
      BY <1>2, <1>4, <3>2 DEF TypeOK, DiskOK
  <2>3. PrepareStep(p)
    BY <1>2, <1>3, <1>4, <2>1, <2>2 DEF Moving, Calling, PrepareStep, TypeOK
  <2>4. PreparationIsKnown(p)'
    BY <1>2, <1>3, <1>4, <2>1, PreparationContext, <1>1
       DEF Moving, PreparationIsKnown, EXTRACTED
  <2> QED
    BY <2>3, <2>4
<1>5. ASSUME Raise(p, "unpreparing", "PREPARE_FAILED"),
             UNCHANGED << dir, stage, text, expired, output, runs, result >>
      PROVE  PrepareStep(p) /\ PreparationIsKnown(p)'
  BY <1>1, <1>5, PreparationContext
     DEF Moving, Calling, PreparationIsKnown, PrepareStep, TypeOK, DiskOK, Labels, PrepareCodes
<1> QED
  BY <1>1, <1>4, <1>5, PrepareStepKeepsIInv DEF Freeze

LEMMA ReportingAPreparation ==
  ASSUME TypeOK, NEW p \in Preparers, NEW code \in PrepareCodes, Report(p, [code |-> code])
  PROVE  /\ Moving(p, "idle") /\ UNCHANGED << call, runs >>
         /\ result' \in [Actors -> {NoResult} \cup [code : PrepareCodes] \cup Reports]
         /\ \A b \in Actors \ {p} : result'[b] = result[b]
<1>1. p \in Actors /\ "idle" \in Labels /\ [code |-> code] \in [code : PrepareCodes]
  BY DEF Actors, Labels
<1>2. Goto(p, "idle") /\ result' = [result EXCEPT ![p] = [code |-> code]]
  BY DEF Report
<1>3. Moving(p, "idle")
  BY <1>1, <1>2, Going
<1>4. /\ result' \in [Actors -> {NoResult} \cup [code : PrepareCodes] \cup Reports]
      /\ \A b \in Actors \ {p} : result'[b] = result[b]
  BY <1>1, <1>2 DEF TypeOK
<1> QED
  BY <1>3, <1>4 DEF Report

LEMMA FinishPrepareStep ==
  ASSUME IInv, UNCHANGED setting, NEW p \in Preparers, FinishPrepare(p)
  PROVE  IInv'
<1>1. /\ pc[p] \in {"prepared", "rejected"} /\ Report(p, [code |-> call[p].code])
      /\ UNCHANGED << dir, text, stage, expired, output >>
  BY DEF FinishPrepare, onDisk
<1>2. TypeOK /\ call[p].code \in PrepareCodes
  BY <1>1, PreparationContext DEF PrepareCalls
<1>3. PrepareStep(p)
  BY <1>1, <1>2, ReportingAPreparation DEF Moving, PrepareStep, TypeOK, DiskOK
<1>4. PreparationIsKnown(p)'
  BY <1>1, <1>2, ReportingAPreparation DEF Moving, PreparationIsKnown
<1> QED
  BY <1>1, <1>3, <1>4, PrepareStepKeepsIInv

LEMMA CleanPreparationStep ==
  ASSUME IInv, UNCHANGED setting, NEW p \in Preparers, CleanPreparation(p)
  PROVE  IInv'
<1>1. /\ pc[p] = "unpreparing" /\ UNCHANGED output
      /\ CleanupSucceeds(Checkpoint, FALSE) \/ CleanupFails(Checkpoint, FALSE)
      /\ \/ Report(p, [code |-> call[p].code])
         \/ Report(p, [code |-> "PREPARE_CLEANUP_FAILED"])
  BY DEF CleanPreparation
<1>2. TypeOK /\ call[p].code \in PrepareCodes /\ "PREPARE_CLEANUP_FAILED" \in PrepareCodes
  BY <1>1, PreparationContext DEF PrepareCalls, PrepareCodes
<1>3. Touching(Checkpoint)
  BY <1>1, <1>2, PreparationContext, CleaningUp, FailingToCleanUp DEF CleanedUp, StuckAt
<1>4. PrepareStep(p)
  BY <1>1, <1>2, <1>3, ReportingAPreparation DEF Moving, Touching, PrepareStep, TypeOK
<1>5. PreparationIsKnown(p)'
  BY <1>1, <1>2, ReportingAPreparation DEF Moving, PreparationIsKnown
<1> QED
  BY <1>1, <1>4, <1>5, PrepareStepKeepsIInv

(* The first step of a finish.                                             *)
LEMMA BeginFinishStep ==
  ASSUME IInv, UNCHANGED setting, NEW f \in Finishers, BeginFinish(f)
  PROVE  IInv'
<1>1. PICK t \in setting.outputs, debug \in setting.debug :
         call' = [call EXCEPT ![f] = [target |-> t, debug |-> debug, at |-> EXTRACTED,
                                      code |-> "OK", attempt |-> FALSE]]
  BY DEF BeginFinish
<1>2. /\ pc[f] = "idle" /\ runs[f] < setting.finishes[f] /\ runs' = [runs EXCEPT ![f] = @ + 1]
      /\ Goto(f, "scoping") /\ result' = [result EXCEPT ![f] = NoResult]
      /\ UNCHANGED << dir, text, stage, expired, output >>
      /\ \A b \in Finishers \cup Preparers : ~Overlap => pc[b] = "idle"
  BY DEF BeginFinish, MayStart, onDisk
<1>3. f \in Actors /\ TypeOK /\ "scoping" \in Labels /\ f \notin Preparers /\ f \notin Sweepers
  BY ActorsAssumption DEF IInv, Actors, Labels
<1>4. setting.debug \subseteq BOOLEAN /\ setting.finishes[f] \in 0 .. MaxFinishes
  BY <1>3, SettingsAssumption DEF TypeOK
<1> DEFINE c == [target |-> t, debug |-> debug, at |-> EXTRACTED, code |-> "OK",
                 attempt |-> FALSE]
<1>5. c \in FinishCalls /\ c.code = "OK" /\ ~c.attempt
  BY <1>4 DEF FinishCalls, FinishCodes, EXTRACTED, VALIDATED
<1> HIDE DEF c
<1>6. Calling(f, c)
  BY <1>1, <1>3, <1>5 DEF TypeOK, Calling, c
<1>7. Moving(f, "scoping")
  BY <1>2, <1>3, Going
<1>8. /\ runs' \in [Actors -> Nat] /\ runs'[f] = runs[f] + 1 /\ runs'[f] \in 1 .. MaxFinishes
      /\ \A b \in Actors \ {f} : runs'[b] = runs[b]
  BY <1>2, <1>3, <1>4, RunsAssumption DEF TypeOK
<1>9. FinishCalls' = FinishCalls /\ Reports' = Reports /\ Overlap' = Overlap
  BY SettingStays
<1>10. TypeOK'
  BY <1>2, <1>3, <1>6, <1>7, <1>8, <1>9 DEF TypeOK, Moving, Calling
<1>11. CommandsAreKnown'
  <2>1. ASSUME NEW g \in Finishers PROVE FinishIsKnown(g)'
    <3>1. CASE g = f
      BY <3>1, <1>5, <1>6, <1>7, <1>8, <1>9 DEF FinishIsKnown, Moving, Calling, Working
    <3>2. CASE g # f
      BY <3>2, <1>6, <1>7, <1>8, <1>9
         DEF IInv, CommandsAreKnown, FinishIsKnown, Moving, Calling, Actors
    <3> QED
      BY <3>1, <3>2
  <2>2. \A p \in Preparers : PreparationIsKnown(p)'
    BY <1>3, <1>6, <1>7 DEF IInv, CommandsAreKnown, PreparationIsKnown, Moving, Calling, Actors
  <2>3. \A s \in Sweepers : SweepIsKnown(s)'
    BY <1>3, <1>6, <1>7 DEF IInv, CommandsAreKnown, SweepIsKnown, Moving, Calling, Actors
  <2> QED
    BY <2>1, <2>2, <2>3 DEF CommandsAreKnown
<1>12. AttemptsAreFresh'
  <2> SUFFICES ASSUME NEW g \in Finishers, NEW n \in 1 .. MaxFinishes
               PROVE  /\ n > runs'[g] => dir'[<< g, n >>] = "absent" /\ Unswept(<< g, n >>)'
                      /\ n = runs'[g] /\ pc'[g] # "idle" => Unswept(<< g, n >>)'
    BY DEF AttemptsAreFresh
  <2>1. Unswept(<< g, n >>) => Unswept(<< g, n >>)'
    BY <1>2, <1>3, <1>6, <1>7 DEF Unswept, Moving, Calling, Actors
  <2>2. /\ n > runs[g] => dir[<< g, n >>] = "absent" /\ Unswept(<< g, n >>)
        /\ n = runs[g] /\ pc[g] # "idle" => Unswept(<< g, n >>)
    BY DEF IInv, AttemptsAreFresh
  <2>3. CASE g = f
    BY <1>2, <1>3, <1>8, <2>1, <2>2, <2>3 DEF TypeOK
  <2>4. CASE g # f
    BY <1>2, <1>7, <1>8, <2>1, <2>2, <2>4 DEF Moving, Actors
  <2> QED
    BY <2>3, <2>4
<1>13. OneCommand'
  BY <1>2, <1>3, <1>7, <1>9 DEF IInv, OneCommand, Moving, Actors
<1>14. \A d \in Attempts : Tidy(d)'
  BY <1>2 DEF IInv, Tidy
<1>15. ASSUME NEW g \in Finishers
       PROVE  AttemptIsManaged(g)' /\ OutcomeIsDone(g)' /\ CheckpointIsKept(g)'
  <2>1. CASE g = f
    <3>1. pc'[f] = "scoping" /\ call'[f].code = "OK" /\ Attempt(f)' = << f, runs'[f] >>
      BY <1>5, <1>6, <1>7 DEF Moving, Calling, Attempt
    <3>2. runs'[f] > runs[f] /\ runs'[f] \in 1 .. MaxFinishes
      BY <1>3, <1>8 DEF TypeOK
    <3>3. dir'[Attempt(f)'] = "absent"
      BY <1>2, <3>1, <3>2 DEF IInv, AttemptsAreFresh
    <3> QED
      BY <2>1, <3>1, <3>3
         DEF AttemptIsManaged, OutcomeIsDone, CheckpointIsKept, Working, Recoverable
  <2>2. CASE g # f
    <3>1. pc'[g] = pc[g] /\ call'[g] = call[g] /\ runs'[g] = runs[g] /\ Attempt(g)' = Attempt(g)
      BY <2>2, <1>6, <1>7, <1>8 DEF Moving, Calling, Actors, Attempt
    <3>2. AttemptIsManaged(g)'
      BY <1>2, <3>1 DEF AttemptIsManaged, IInv
    <3>3. OutcomeIsDone(g)'
      BY <1>2, <3>1 DEF OutcomeIsDone, IInv
    <3>4. CheckpointIsKept(g)'
      BY <1>2, <1>9, <3>1 DEF CheckpointIsKept, Bound, IInv
    <3> QED
      BY <3>2, <3>3, <3>4
  <2> QED
    BY <2>1, <2>2
<1> QED
  BY <1>10, <1>11, <1>12, <1>13, <1>14, <1>15 DEF IInv

-----------------------------------------------------------------------------
(* Sweeps, crashes and the passing of time.                                *)

LEMMA FindStep ==
  ASSUME IInv, UNCHANGED setting, NEW s \in Sweepers, NEW d \in Dirs, Find(s, d)
  PROVE  IInv'
<1>1. /\ Overlap /\ pc[s] = "idle" /\ expired[d] /\ Goto(s, "sweeping")
      /\ call' = [call EXCEPT ![s] = [job |-> d]] /\ UNCHANGED << runs, result >>
      /\ UNCHANGED << dir, text, stage, expired, output >>
  BY DEF Find, onDisk
<1>2. s \in Actors /\ TypeOK /\ "sweeping" \in Labels /\ s \notin Finishers /\ s \notin Preparers
  BY ActorsAssumption DEF IInv, Actors, Labels
<1>3. [job |-> d] \in SweepCalls /\ [job |-> d].job = d
  BY DEF SweepCalls
<1>4. Moving(s, "sweeping") /\ Calling(s, [job |-> d])
  BY <1>1, <1>2, <1>3, Going DEF TypeOK, Calling
<1>5. FinishCalls' = FinishCalls /\ Reports' = Reports /\ Overlap' = Overlap
  BY SettingStays
<1>6. TypeOK'
  BY <1>1, <1>2, <1>4, <1>5 DEF TypeOK, Moving, Calling
<1>7. ElsewhereStep
  BY <1>1, <1>2, <1>4 DEF ElsewhereStep, Moving, Calling, Actors, Dirs
<1>8. AttemptsAreFresh'
  <2> SUFFICES ASSUME NEW g \in Finishers, NEW n \in 1 .. MaxFinishes
               PROVE  /\ n > runs[g] => dir[<< g, n >>] = "absent" /\ Unswept(<< g, n >>)'
                      /\ n = runs[g] /\ pc[g] # "idle" => Unswept(<< g, n >>)'
    BY <1>1, <1>7 DEF AttemptsAreFresh, ElsewhereStep
  <2>1. Unswept(<< g, n >>) => Unswept(<< g, n >>)'
    BY <1>1, <1>3, <1>4 DEF Unswept, Moving, Calling, Actors
  <2> QED
    BY <2>1 DEF IInv, AttemptsAreFresh
<1>9. OneCommand'
  BY <1>1, <1>5 DEF OneCommand
<1>10. \A p \in Preparers : PreparationIsKnown(p)'
  BY <1>2, <1>4 DEF IInv, CommandsAreKnown, PreparationIsKnown, Moving, Calling, Actors
<1>11. \A r \in Sweepers : SweepIsKnown(r)'
  BY <1>3, <1>4 DEF IInv, CommandsAreKnown, SweepIsKnown, Moving, Calling, Actors
<1> QED
  BY <1>1, <1>6, <1>7, <1>8, <1>9, <1>10, <1>11, ElsewhereStepKeepsIInv

(* A sweep touches a checkpoint or an attempt no run is working on.        *)
LEMMA SweepStep ==
  ASSUME IInv, UNCHANGED setting, NEW s \in Sweepers, Sweep(s)
  PROVE  IInv'
<1> DEFINE d == call[s].job
<1>1. /\ pc[s] = "sweeping" /\ Goto(s, "idle") /\ UNCHANGED << output, call, runs, result >>
      /\ CleanupSucceeds(d, FALSE) \/ CleanupFails(d, FALSE)
  BY DEF Sweep
<1>2. /\ s \in Actors /\ TypeOK /\ "idle" \in Labels /\ s \notin Finishers /\ s \notin Preparers
      /\ d \in Dirs
  BY <1>1, ActorsAssumption DEF IInv, Actors, Labels, CommandsAreKnown, SweepIsKnown, SweepCalls
<1> HIDE DEF d
<1>3. Moving(s, "idle")
  BY <1>1, <1>2, Going
<1>4. /\ Touching(d) /\ expired'[d] = expired[d]
      /\ text'[d] # {} /\ dir[d] = "managed" => dir'[d] \in {"managed", "torn"}
      /\ dir'[d] = "absent" => stage'[d] = 0 \/ dir[d] # "managed"
      /\ dir[d] # "managed" =>
            stage'[d] = stage[d] /\ text'[d] = text[d] /\ dir'[d] = dir[d]
  BY <1>1, <1>2, CleaningUp, FailingToCleanUp DEF CleanedUp, StuckAt
<1>5. FinishCalls' = FinishCalls /\ Reports' = Reports /\ Overlap' = Overlap /\ Overlap
  BY <1>1, SettingStays DEF IInv, OneCommand
<1>6. TypeOK'
  BY <1>1, <1>2, <1>3, <1>4, <1>5 DEF TypeOK, Moving, Touching, DiskOK
<1>7. CommandsAreKnown'
  BY <1>1, <1>2, <1>3, <1>5 DEF IInv, CommandsAreKnown, FinishIsKnown, PreparationIsKnown,
     SweepIsKnown, Moving, Actors
<1>8. AttemptsAreFresh'
  <2> SUFFICES ASSUME NEW g \in Finishers, NEW n \in 1 .. MaxFinishes
               PROVE  /\ n > runs[g] => dir'[<< g, n >>] = "absent" /\ Unswept(<< g, n >>)'
                      /\ n = runs[g] /\ pc'[g] # "idle" => Unswept(<< g, n >>)'
    BY <1>1 DEF AttemptsAreFresh
  <2>1. << g, n >> \in Dirs /\ pc'[g] = pc[g]
    BY <1>2, <1>3 DEF Moving, Actors, Dirs, Attempts
  <2>2. Unswept(<< g, n >>) => Unswept(<< g, n >>)' /\ << g, n >> # d
    BY <1>1, <1>2, <1>3, <1>4, <2>1 DEF Unswept, Moving, Actors, Touching, d
  <2> QED
    BY <1>4, <2>1, <2>2 DEF IInv, AttemptsAreFresh, Touching
<1>9. OneCommand'
  BY <1>5 DEF OneCommand
<1>10. \A e \in Attempts : Tidy(e)'
  <2> TAKE e \in Attempts
  <2>1. e \in Dirs /\ Tidy(e)
    BY DEF IInv, Dirs
  <2>2. CASE e = d
    BY <1>4, <2>1, <2>2 DEF Tidy
  <2>3. CASE e # d
    BY <1>4, <2>1, <2>3 DEF Tidy, Touching
  <2> QED
    BY <2>2, <2>3
<1>11. ASSUME NEW g \in Finishers
       PROVE  AttemptIsManaged(g)' /\ OutcomeIsDone(g)' /\ CheckpointIsKept(g)'
  <2>1. pc'[g] = pc[g] /\ call'[g] = call[g] /\ Attempt(g)' = Attempt(g)
    BY <1>1, <1>2, <1>3 DEF Moving, Actors, Attempt
  <2>2. CASE pc[g] = "idle"
    BY <2>1, <2>2 DEF AttemptIsManaged, OutcomeIsDone, CheckpointIsKept, Working
  <2>3. CASE pc[g] # "idle"
    <3>1. runs[g] \in 1 .. MaxFinishes /\ Attempt(g) = << g, runs[g] >> /\ Attempt(g) \in Dirs
      BY <2>3, AttemptIsADirectory DEF IInv, CommandsAreKnown, FinishIsKnown
    <3>2. Unswept(Attempt(g))
      BY <2>3, <3>1 DEF IInv, AttemptsAreFresh
    <3>3. Attempt(g) # d
      BY <1>1, <3>2 DEF Unswept, d
    <3>4. dir'[Attempt(g)] = dir[Attempt(g)] /\ stage'[Attempt(g)] = stage[Attempt(g)]
      BY <1>4, <3>1, <3>3 DEF Touching
    <3>5. AttemptIsManaged(g)'
      BY <2>1, <3>4 DEF AttemptIsManaged, IInv
    <3>6. OutcomeIsDone(g)'
      BY <1>1, <2>1, <3>4 DEF OutcomeIsDone, IInv
    <3> QED
      BY <1>5, <3>5, <3>6 DEF CheckpointIsKept
  <2> QED
    BY <2>2, <2>3
<1> QED
  BY <1>6, <1>7, <1>8, <1>9, <1>10, <1>11 DEF IInv

LEMMA CrashStep ==
  ASSUME IInv, UNCHANGED setting, NEW a \in Actors, Crash(a)
  PROVE  IInv'
<1>1. Goto(a, "idle") /\ UNCHANGED << dir, text, stage, expired, output, call, runs, result >>
  BY DEF Crash, onDisk
<1>2. TypeOK /\ "idle" \in Labels
  BY DEF IInv, Labels
<1>3. pc' \in [Actors -> Labels] /\ \A b \in Actors : pc'[b] \in {pc[b], "idle"}
  BY <1>1, <1>2, Going DEF Moving
<1>4. FinishCalls' = FinishCalls /\ Reports' = Reports /\ Overlap' = Overlap
  BY SettingStays
<1>5. TypeOK'
  BY <1>1, <1>2, <1>3, <1>4 DEF TypeOK
<1>6. CommandsAreKnown'
  <2>1. \A f \in Finishers : FinishIsKnown(f)'
    BY <1>1, <1>3, <1>4 DEF IInv, CommandsAreKnown, FinishIsKnown, Actors, Working
  <2>2. \A p \in Preparers : PreparationIsKnown(p)'
    BY <1>1, <1>3 DEF IInv, CommandsAreKnown, PreparationIsKnown, Actors
  <2>3. \A s \in Sweepers : SweepIsKnown(s)'
    BY <1>1, <1>3 DEF IInv, CommandsAreKnown, SweepIsKnown, Actors
  <2> QED
    BY <2>1, <2>2, <2>3 DEF CommandsAreKnown
<1>7. AttemptsAreFresh'
  <2>1. \A f \in Finishers : pc'[f] # "idle" => pc[f] # "idle"
    BY <1>3 DEF Actors
  <2>2. \A d : Unswept(d) => Unswept(d)'
    BY <1>1, <1>3 DEF Unswept, Actors
  <2> QED
    BY <1>1, <2>1, <2>2 DEF IInv, AttemptsAreFresh
<1>8. OneCommand'
  BY <1>3, <1>4 DEF IInv, OneCommand, Actors
<1>9. \A d \in Attempts : Tidy(d)'
  BY <1>1 DEF IInv, Tidy
<1>10. ASSUME NEW f \in Finishers
       PROVE  AttemptIsManaged(f)' /\ OutcomeIsDone(f)' /\ CheckpointIsKept(f)'
  <2>1. pc'[f] \in {pc[f], "idle"} /\ Attempt(f)' = Attempt(f)
    BY <1>1, <1>3 DEF Actors, Attempt
  <2>2. AttemptIsManaged(f)'
    BY <1>1, <2>1 DEF IInv, AttemptIsManaged, Working
  <2>3. OutcomeIsDone(f)'
    BY <1>1, <2>1 DEF IInv, OutcomeIsDone
  <2>4. CheckpointIsKept(f)'
    BY <1>1, <1>4, <2>1 DEF IInv, CheckpointIsKept, Bound, Working
  <2> QED
    BY <2>2, <2>3, <2>4
<1> QED
  BY <1>5, <1>6, <1>7, <1>8, <1>9, <1>10 DEF IInv

LEMMA ExpireStep ==
  ASSUME IInv, UNCHANGED setting, NEW d \in Dirs, Expire(d)
  PROVE  IInv'
<1>1. /\ dir[d] = "managed" /\ ~BeingMade(d) /\ expired' = [expired EXCEPT ![d] = TRUE]
      /\ UNCHANGED << dir, text, stage, output, pc, call, runs, result >>
  BY DEF Expire
<1>2. FinishCalls' = FinishCalls /\ Reports' = Reports /\ Overlap' = Overlap
  BY SettingStays
<1>3. TypeOK'
  BY <1>1, <1>2 DEF IInv, TypeOK
<1>4. ElsewhereStep
  BY <1>1 DEF ElsewhereStep
<1>5. AttemptsAreFresh'
  <2> SUFFICES ASSUME NEW g \in Finishers, NEW n \in 1 .. MaxFinishes
               PROVE  /\ n > runs[g] => dir[<< g, n >>] = "absent" /\ Unswept(<< g, n >>)'
                      /\ n = runs[g] /\ pc[g] # "idle" => Unswept(<< g, n >>)'
    BY <1>1 DEF AttemptsAreFresh
  <2>1. << g, n >> \in Dirs
    BY DEF Dirs, Attempts
  <2>2. << g, n >> # d /\ Unswept(<< g, n >>) => Unswept(<< g, n >>)'
    BY <1>1, <2>1 DEF Unswept, IInv, TypeOK
  <2>3. n = runs[g] /\ pc[g] # "idle" => << g, n >> # d
    BY <1>1 DEF BeingMade, Attempt
  <2>4. n > runs[g] => << g, n >> # d
    BY <1>1 DEF IInv, AttemptsAreFresh
  <2> QED
    BY <2>2, <2>3, <2>4 DEF IInv, AttemptsAreFresh
<1>6. OneCommand'
  BY <1>1, <1>2 DEF IInv, OneCommand
<1>7. \A p \in Preparers : PreparationIsKnown(p)'
  BY <1>1 DEF IInv, CommandsAreKnown, PreparationIsKnown
<1>8. \A s \in Sweepers : SweepIsKnown(s)'
  BY <1>1 DEF IInv, CommandsAreKnown, SweepIsKnown
<1> QED
  BY <1>1, <1>3, <1>4, <1>5, <1>6, <1>7, <1>8, ElsewhereStepKeepsIInv

LEMMA InitIInv == Init => IInv
<1> SUFFICES ASSUME Init PROVE IInv
  OBVIOUS
<1>1. TypeOK
  BY SettingsAssumption DEF Init, TypeOK, Labels, FINALIZED
<1>2. CommandsAreKnown
  BY DEF Init, CommandsAreKnown, FinishIsKnown, PreparationIsKnown, SweepIsKnown, Actors,
     Working
<1>3. AttemptsAreFresh
  BY DEF Init, AttemptsAreFresh, Unswept, Actors, Dirs, Attempts
<1>4. OneCommand
  BY DEF Init, OneCommand, Actors
<1>5. \A d \in Attempts : Tidy(d)
  BY DEF Init, Tidy, Dirs
<1>6. \A f \in Finishers : AttemptIsManaged(f) /\ OutcomeIsDone(f) /\ CheckpointIsKept(f)
  BY DEF Init, AttemptIsManaged, OutcomeIsDone, CheckpointIsKept, Actors, Working
<1> QED
  BY <1>1, <1>2, <1>3, <1>4, <1>5, <1>6 DEF IInv

LEMMA NextIInv == IInv /\ [Next]_vars => IInv'
<1> SUFFICES ASSUME IInv, [Next]_vars PROVE IInv'
  OBVIOUS
<1>1. CASE UNCHANGED vars
  <2>1. /\ UNCHANGED << setting, dir, text, stage, expired, output, pc, call, runs, result >>
        /\ FinishCalls' = FinishCalls /\ Reports' = Reports /\ Overlap' = Overlap
    BY <1>1, SettingStays DEF vars, onDisk
  <2>2. TypeOK' /\ OneCommand' /\ AttemptsAreFresh'
    BY <2>1 DEF IInv, TypeOK, OneCommand, AttemptsAreFresh, Unswept
  <2>3. CommandsAreKnown'
    BY <2>1 DEF IInv, CommandsAreKnown, FinishIsKnown, PreparationIsKnown, SweepIsKnown
  <2>4. \A d \in Attempts : Tidy(d)'
    BY <2>1 DEF IInv, Tidy
  <2>5. \A f \in Finishers :
           AttemptIsManaged(f)' /\ OutcomeIsDone(f)' /\ CheckpointIsKept(f)'
    BY <2>1 DEF IInv, AttemptIsManaged, OutcomeIsDone, CheckpointIsKept, Attempt, Bound
  <2> QED
    BY <2>2, <2>3, <2>4, <2>5 DEF IInv
<1>2. ASSUME UNCHANGED setting, NEW p \in Preparers, Prepare(p) PROVE IInv'
  BY <1>2, BeginPrepareStep, MarkCheckpointStep, ExtractStep, CommitTextStep, FreezeStep,
     FinishPrepareStep, CleanPreparationStep DEF Prepare
<1>3. ASSUME UNCHANGED setting, NEW f \in Finishers, Finish(f) PROVE IInv'
  BY <1>3, BeginFinishStep, ResolveCheckpointStep, LoadStep, MakeAttemptStep, MarkAttemptStep,
     CopyCheckpointStep, OpenLedgerStep, AbandonStep, ResolveAttemptStep, AdvanceAttemptStep,
     DisposeStep, PublishStep, FinalizeStep, CleanDeliveryStep, CleanAttemptStep,
     CleanCheckpointStep, SucceedStep, InterruptStep DEF Finish
<1> QED
  BY <1>1, <1>2, <1>3, FindStep, SweepStep, CrashStep, ExpireStep DEF Next

-----------------------------------------------------------------------------
(* The theorems.                                                           *)

(* The invariant the promises rest on holds of every behaviour.            *)
THEOREM Invariance == Spec => []IInv
BY InitIInv, NextIInv, PTL DEF Spec

(* Every variable keeps its type: directories, ledgers, the user's files   *)
(* and the locals and reports of every command.                            *)
THEOREM TypeCorrect == Spec => []TypeOK
<1>1. IInv => TypeOK
  BY DEF IInv
<1> QED
  BY <1>1, Invariance, PTL

(* Four steps of a finish report; nothing else changes what it reported.   *)
Reports4(f) == ResolveCheckpoint(f) \/ CleanAttempt(f) \/ CleanCheckpoint(f) \/ Succeed(f)

LEMMA WhoReports ==
  ASSUME IInv, [Next]_vars, NEW f \in Finishers, Returned(f)
  PROVE  Reports4(f)
<1> SUFFICES ASSUME ~Reports4(f) PROVE result'[f] = result[f] \/ result'[f] = NoResult
  BY DEF Returned
<1>1. TypeOK /\ f \in Actors /\ f \notin Preparers
  BY ActorsAssumption DEF IInv, Actors
<1>2. ASSUME NEW p \in Preparers, Prepare(p) PROVE result'[f] = result[f]
  BY <1>1, <1>2 DEF TypeOK, Prepare, BeginPrepare, MarkCheckpoint, Extract, CommitText, Freeze,
     FinishPrepare, CleanPreparation, Report
<1>3. ASSUME NEW g \in Finishers, g # f, Finish(g) PROVE result'[f] = result[f]
  BY <1>1, <1>3 DEF TypeOK, Finish, BeginFinish, ResolveCheckpoint, Load, MakeAttempt,
     MarkAttempt, CopyCheckpoint, OpenLedger, Abandon, ResolveAttempt, AdvanceAttempt, Dispose,
     Publish, Finalize, CleanDelivery, CleanAttempt, CleanCheckpoint, Succeed, Interrupt,
     FinishWith, Report
<1>4. ASSUME Finish(f) PROVE result'[f] = result[f] \/ result'[f] = NoResult
  BY <1>1, <1>4 DEF Reports4, TypeOK, Finish, BeginFinish, Load, MakeAttempt, MarkAttempt,
     CopyCheckpoint, OpenLedger, Abandon, ResolveAttempt, AdvanceAttempt, Dispose, Publish,
     Finalize, CleanDelivery, Interrupt
<1>5. ASSUME \/ \E s \in Sweepers : Sweep(s) \/ \E d \in Dirs : Find(s, d)
             \/ \E a \in Actors : Crash(a)
             \/ \E d \in Dirs : Expire(d)
      PROVE  result' = result
  BY <1>5 DEF Sweep, Find, Crash, Expire
<1>6. CASE UNCHANGED vars
  BY <1>6 DEF vars
<1> QED
  BY <1>2, <1>3, <1>4, <1>5, <1>6 DEF Next

(* What the four know when they report.                                    *)
LEMMA Reporter ==
  ASSUME IInv, [Next]_vars, NEW f \in Finishers, Reports4(f)
  PROVE  /\ TypeOK /\ pc[f] # "idle" /\ FinishIsKnown(f) /\ OutcomeIsDone(f)
         /\ AttemptIsManaged(f) /\ CheckpointIsKept(f) /\ call[f] \in FinishCalls
         /\ Attempt(f) \in Dirs /\ Attempt(f) # Checkpoint /\ Checkpoint \in Dirs
         /\ call[f].debug \in BOOLEAN /\ call[f].code \in FinishCodes
         /\ \A code \in FinishCodes \cup {"FINISH_OK"}, action \in {"none", "repair"} :
               FinishWith(f, code, action) => Reporting(f, code, action)
         /\ \A keep \in BOOLEAN :
               /\ CleanupSucceeds(Checkpoint, keep) => CleanedUp(Checkpoint, keep)
               /\ CleanupFails(Checkpoint, keep) => StuckAt(Checkpoint, keep)
<1>1. /\ TypeOK /\ pc[f] # "idle" /\ FinishIsKnown(f) /\ OutcomeIsDone(f)
      /\ AttemptIsManaged(f) /\ CheckpointIsKept(f)
  BY DEF IInv, CommandsAreKnown, Reports4, ResolveCheckpoint, CleanAttempt, CleanCheckpoint,
     Succeed
<1>2. /\ call[f] \in FinishCalls /\ Checkpoint \in Dirs
      /\ call[f].debug \in BOOLEAN /\ call[f].code \in FinishCodes
  BY <1>1 DEF FinishIsKnown, FinishCalls, Dirs
<1>3. Attempt(f) \in Dirs /\ Attempt(f) # Checkpoint
  BY <1>1, AttemptIsADirectory
<1> QED
  BY <1>1, <1>2, <1>3, ReportingAFinish, CleaningUp, FailingToCleanUp

(* A checkpoint that is cleaned up is the only directory that changes.     *)
LEMMA CheckpointAlone ==
  ASSUME IInv, [Next]_vars, NEW f \in Finishers, CleanCheckpoint(f) \/ Succeed(f)
  PROVE  dir'[Attempt(f)] = dir[Attempt(f)] /\ output' = output
<1>1. Reports4(f)
  BY DEF Reports4
<1>2. PICK keep \in BOOLEAN : Clean(Checkpoint, keep) \/ CleanRaises(Checkpoint, keep)
  <2>1. (RecoveryAction(call[f].code) # "none") \in BOOLEAN
    OBVIOUS
  <2>2. call[f].debug \in BOOLEAN
    BY <1>1, Reporter
  <2>3. CASE CleanCheckpoint(f)
    BY <2>1, <2>2, <2>3 DEF CleanCheckpoint
  <2>4. CASE Succeed(f)
    BY <2>2, <2>4 DEF Succeed
  <2> QED
    BY <2>3, <2>4
<1>3. dir'[Attempt(f)] = dir[Attempt(f)]
  BY <1>1, <1>2, Reporter DEF Clean, CleanRaises, CleanedUp, StuckAt, Touching
<1>4. output' = output
  BY DEF CleanCheckpoint, Succeed
<1> QED
  BY <1>3, <1>4

(* A run that reports success has published its own attempt, and unless    *)
(* debugging was asked for, neither directory is left: whatever other      *)
(* finishes, preparations and sweeps do meanwhile.                         *)
THEOREM SuccessAlwaysComplete == Spec => SuccessIsComplete
<1>1. ASSUME IInv, [Next]_vars, NEW f \in Finishers, Returned(f),
             result'[f].code = "FINISH_OK"
      PROVE  /\ output'[result'[f].target] = result'[f].attempt
             /\ ~result'[f].debug =>
                   dir'[result'[f].attempt] = "absent" /\ dir'[Checkpoint] = "absent"
  <2>1. Reports4(f)
    BY <1>1, WhoReports
  <2>2. ~ResolveCheckpoint(f)
    BY <1>1, <2>1, Reporter DEF ResolveCheckpoint, Reporting, FinishCodes, Goto, Returned
  <2>3. ~CleanAttempt(f)
    BY <1>1, <2>1, Reporter DEF CleanAttempt, Reporting, FinishCodes, Returned
  <2>4. ~CleanCheckpoint(f)
    <3>1. "FINISH_OK" \notin FinishCodes /\ "CLEANUP_FAILED" \in FinishCodes
      BY DEF FinishCodes, Recoverable
    <3>2. CleanCheckpoint(f) => result'[f].code \in FinishCodes
      BY <1>1, <2>1, <3>1, Reporter, RecoveryActions DEF CleanCheckpoint, Reporting
    <3> QED
      BY <1>1, <3>1, <3>2
  <2>5. Succeed(f)
    BY <2>1, <2>2, <2>3, <2>4 DEF Reports4
  <2>6. Reporting(f, "FINISH_OK", "none") /\ Clean(Checkpoint, call[f].debug)
    BY <1>1, <2>1, <2>5, Reporter DEF Succeed, Reporting, FinishCodes
  <2>7. pc[f] = "cleaning" /\ call[f].code = "OK"
    BY <2>5 DEF Succeed
  <2>8. output[call[f].target] = Attempt(f) /\ (~call[f].debug => dir[Attempt(f)] = "absent")
    BY <1>1, <2>1, <2>7, Reporter DEF OutcomeIsDone
  <2>9. ~call[f].debug => dir'[Checkpoint] = "absent"
    BY <1>1, <2>1, <2>6, Reporter DEF Clean, CleanedUp
  <2> QED
    BY <1>1, <2>5, <2>6, <2>8, <2>9, CheckpointAlone DEF Reporting
<1>2. IInv /\ [Next]_vars =>
        \A f \in Finishers : (Returned(f) /\ result'[f].code = "FINISH_OK") =>
            /\ output'[result'[f].target] = result'[f].attempt
            /\ ~result'[f].debug =>
                  dir'[result'[f].attempt] = "absent" /\ dir'[Checkpoint] = "absent"
  BY <1>1
<1> QED
  BY <1>2, Invariance, PTL DEF Spec, SuccessIsComplete

(* A run that fails after it opened its attempt, and does not say that its *)
(* cleanup failed, leaves nothing of the attempt, unless debugging was     *)
(* asked for: whatever stage, error, cancellation or delivery failed.      *)
THEOREM FailureAlwaysCleansAttempt == Spec => FailureCleansAttempt
<1>1. ASSUME IInv, [Next]_vars, NEW f \in Finishers, Returned(f), call[f].attempt,
             result'[f].code # "CLEANUP_FAILED", ~result'[f].debug
      PROVE  dir'[result'[f].attempt] = "absent"
  <2>1. Reports4(f)
    BY <1>1, WhoReports
  <2>2. ~ResolveCheckpoint(f)
    BY <1>1, <2>1, Reporter DEF ResolveCheckpoint, FinishIsKnown
  <2>3. ~CleanAttempt(f)
    BY <1>1, <2>1, Reporter DEF CleanAttempt, Reporting, FinishCodes, Returned
  <2>4. CASE CleanCheckpoint(f)
    <3>1. result'[f].attempt = Attempt(f) /\ result'[f].debug = call[f].debug
      BY <1>1, <2>1, <2>4, Reporter, RecoveryActions DEF CleanCheckpoint, Reporting, FinishCodes
    <3>2. dir[Attempt(f)] = "absent"
      BY <1>1, <2>1, <2>4, <3>1, Reporter DEF CleanCheckpoint, OutcomeIsDone
    <3> QED
      BY <1>1, <2>4, <3>1, <3>2, CheckpointAlone
  <2>5. CASE Succeed(f)
    <3>1. result'[f].attempt = Attempt(f) /\ result'[f].debug = call[f].debug
      BY <1>1, <2>1, <2>5, Reporter DEF Succeed, Reporting, FinishCodes
    <3>2. dir[Attempt(f)] = "absent"
      BY <1>1, <2>1, <2>5, <3>1, Reporter DEF Succeed, OutcomeIsDone
    <3> QED
      BY <1>1, <2>5, <3>1, <3>2, CheckpointAlone
  <2> QED
    BY <2>1, <2>2, <2>3, <2>4, <2>5 DEF Reports4
<1>2. IInv /\ [Next]_vars =>
        \A f \in Finishers :
            (/\ Returned(f) /\ call[f].attempt
             /\ result'[f].code # "CLEANUP_FAILED" /\ ~result'[f].debug)
                => dir'[result'[f].attempt] = "absent"
  BY <1>1
<1> QED
  BY <1>2, Invariance, PTL DEF Spec, FailureCleansAttempt

(* references/runbook.md: "A recoverable failure retains extraction for    *)
(* one hour for the same active repair."  When no other command runs at    *)
(* the same time, the checkpoint is complete, recognised and fresh.        *)
THEOREM RepairsAlwaysKeepTheCheckpoint == Spec => RecoverableKeepsCheckpoint
<1>1. ASSUME IInv, [Next]_vars, NEW f \in Finishers, ~Overlap, Returned(f),
             result'[f].action # "none"
      PROVE  /\ dir'[Checkpoint] = "managed" /\ ~expired'[Checkpoint]
             /\ stage'[Checkpoint] = EXTRACTED /\ Prepared \subseteq text'[Checkpoint]
  <2>1. Reports4(f)
    BY <1>1, WhoReports
  <2>2. ~ResolveCheckpoint(f)
    BY <1>1, <2>1, Reporter DEF ResolveCheckpoint, Reporting, FinishCodes, Returned, Goto
  <2>3. ~CleanAttempt(f)
    BY <1>1, <2>1, Reporter DEF CleanAttempt, Reporting, FinishCodes, Returned
  <2>4. ~Succeed(f)
    BY <1>1, <2>1, Reporter DEF Succeed, Reporting, FinishCodes
  <2>5. CleanCheckpoint(f)
    BY <2>1, <2>2, <2>3, <2>4 DEF Reports4
  <2>6. /\ Clean(Checkpoint, call[f].debug \/ RecoveryAction(call[f].code) # "none")
        /\ FinishWith(f, call[f].code, RecoveryAction(call[f].code))
    <3>1. \/ /\ Clean(Checkpoint, call[f].debug \/ RecoveryAction(call[f].code) # "none")
             /\ FinishWith(f, call[f].code, RecoveryAction(call[f].code))
          \/ FinishWith(f, "CLEANUP_FAILED", "none")
      BY <2>5 DEF CleanCheckpoint
    <3>2. "CLEANUP_FAILED" \in FinishCodes
      BY DEF FinishCodes
    <3> QED
      BY <1>1, <2>1, <3>1, <3>2, Reporter DEF Reporting
  <2>7. RecoveryAction(call[f].code) # "none" /\ call[f].code \in Recoverable
    BY <1>1, <2>1, <2>6, Reporter, RecoveryActions DEF Reporting
  <2>8. dir[Checkpoint] = "managed" /\ Bound(Checkpoint)
    BY <1>1, <2>1, <2>5, <2>7, Reporter DEF CheckpointIsKept, CleanCheckpoint
  <2>9. CleanedUp(Checkpoint, TRUE)
    BY <1>1, <2>1, <2>6, <2>7, <2>8, Reporter DEF Clean
  <2> QED
    BY <2>8, <2>9 DEF CleanedUp, Bound
<1>2. IInv /\ [Next]_vars =>
        \A f \in Finishers : (~Overlap /\ Returned(f) /\ result'[f].action # "none") =>
            /\ dir'[Checkpoint] = "managed" /\ ~expired'[Checkpoint]
            /\ stage'[Checkpoint] = EXTRACTED /\ Prepared \subseteq text'[Checkpoint]
  BY <1>1
<1> QED
  BY <1>2, Invariance, PTL DEF Spec, RecoverableKeepsCheckpoint

-----------------------------------------------------------------------------
(* The checkpoint, when one command runs at a time.                        *)

CheckpointStays == /\ dir'[Checkpoint] = dir[Checkpoint]
                   /\ text'[Checkpoint] = text[Checkpoint]
                   /\ stage'[Checkpoint] = stage[Checkpoint]

CheckpointIsCleaned ==
    \E keep \in BOOLEAN : CleanedUp(Checkpoint, keep) \/ StuckAt(Checkpoint, keep)

(* A cleanup takes only a directory that is managed, and takes it whole or *)
(* leaves it to the next.                                                  *)
LEMMA CleaningKeepsManaged ==
  ASSUME CheckpointIsManaged, UNCHANGED setting, CheckpointStays \/ CheckpointIsCleaned,
         \A p \in Preparers : pc'[p] \in {pc[p], "idle"},
         ~Overlap /\ ~CheckpointStays => \A p \in Preparers : pc'[p] = "idle"
  PROVE  CheckpointIsManaged'
<1> SUFFICES ASSUME ~Overlap
             PROVE  /\ Tidy(Checkpoint)'
                    /\ \A p \in Preparers :
                        /\ pc'[p] = "marking" =>
                              dir'[Checkpoint] = "bare" /\ stage'[Checkpoint] = 0
                        /\ pc'[p] \in {"extracting", "committing"} =>
                              dir'[Checkpoint] = "managed"
  BY SettingStays DEF CheckpointIsManaged
<1>1. Tidy(Checkpoint)'
  BY DEF CheckpointIsManaged, CheckpointStays, CheckpointIsCleaned, CleanedUp, StuckAt, Tidy
<1> QED
  BY <1>1 DEF CheckpointIsManaged, CheckpointStays

(* A finish writes to its attempt and cleans the checkpoint up.            *)
LEMMA FinishAndCheckpoint ==
  ASSUME IInv, NEW f \in Finishers, Finish(f)
  PROVE  CheckpointStays \/ CheckpointIsCleaned
<1>1. TypeOK /\ Checkpoint \in Dirs
  BY DEF IInv, Dirs
<1>2. ASSUME pc[f] # "idle"
      PROVE  /\ Attempt(f) \in Dirs /\ Attempt(f) # Checkpoint
             /\ call[f].debug \in BOOLEAN
  BY <1>2, AttemptIsADirectory DEF IInv, CommandsAreKnown, FinishIsKnown, FinishCalls
<1>3. ASSUME NEW keep \in BOOLEAN,
             pc[f] # "idle",
             CleanupSucceeds(Attempt(f), keep) \/ CleanupFails(Attempt(f), keep)
      PROVE  CheckpointStays
  BY <1>1, <1>2, <1>3, CleaningUp, FailingToCleanUp
     DEF CleanedUp, StuckAt, Touching, CheckpointStays
<1>4. ASSUME NEW keep \in BOOLEAN, Clean(Checkpoint, keep) \/ CleanRaises(Checkpoint, keep)
      PROVE  CheckpointStays \/ CheckpointIsCleaned
  BY <1>1, <1>4, CleaningUp, FailingToCleanUp
     DEF Clean, CleanRaises, CheckpointStays, CheckpointIsCleaned
<1>5. CASE BeginFinish(f) \/ ResolveCheckpoint(f) \/ Load(f) \/ ResolveAttempt(f)
           \/ Publish(f) \/ Interrupt(f)
  BY <1>5 DEF BeginFinish, ResolveCheckpoint, Load, ResolveAttempt, Publish, Interrupt, onDisk,
     CheckpointStays
<1>6. CASE MakeAttempt(f) \/ MarkAttempt(f) \/ OpenLedger(f) \/ Finalize(f)
  BY <1>1, <1>2, <1>6
     DEF MakeAttempt, MarkAttempt, OpenLedger, Finalize, TypeOK, CheckpointStays
<1>7. CASE CopyCheckpoint(f)
  BY <1>1, <1>2, <1>7 DEF CopyCheckpoint, WriteText, TypeOK, CheckpointStays
<1>8. CASE AdvanceAttempt(f)
  BY <1>1, <1>2, <1>8 DEF AdvanceAttempt, WriteText, TypeOK, CheckpointStays
<1>9. CASE Abandon(f) \/ Dispose(f) \/ CleanDelivery(f)
  BY <1>2, <1>3, <1>9 DEF Abandon, Dispose, CleanDelivery
<1>10. CASE CleanAttempt(f)
  BY <1>2, <1>3, <1>10 DEF CleanAttempt, Clean, CleanRaises, CheckpointStays
<1>11. CASE CleanCheckpoint(f)
  <2>1. (call[f].debug \/ RecoveryAction(call[f].code) # "none") \in BOOLEAN
    OBVIOUS
  <2> QED
    BY <1>4, <1>11, <2>1 DEF CleanCheckpoint
<1>12. CASE Succeed(f)
  BY <1>2, <1>4, <1>12 DEF Succeed
<1> QED
  BY <1>5, <1>6, <1>7, <1>8, <1>9, <1>10, <1>11, <1>12 DEF Finish

LEMMA FinishLeavesPreparers ==
  ASSUME IInv, NEW f \in Finishers, Finish(f)
  PROVE  \A p \in Preparers : pc'[p] = pc[p]
<1>1. TypeOK /\ f \notin Preparers /\ \A p \in Preparers : p \in Actors
  BY ActorsAssumption DEF IInv, Actors
<1> QED
  BY <1>1 DEF TypeOK, Finish, BeginFinish, ResolveCheckpoint, Load, MakeAttempt,
     MarkAttempt, CopyCheckpoint, OpenLedger, Abandon, ResolveAttempt, AdvanceAttempt, Dispose,
     Publish, Finalize, CleanDelivery, CleanAttempt, CleanCheckpoint, Succeed, Interrupt,
     FinishWith, Report, Raise, Goto

(* Without overlap a command that takes a step is the only one.            *)
LEMMA FinishAlone ==
  ASSUME IInv, ~Overlap, NEW f \in Finishers, Finish(f), ~BeginFinish(f)
  PROVE  \A p \in Preparers : pc[p] = "idle"
<1>1. pc[f] # "idle"
  BY DEF Finish, ResolveCheckpoint, Load, MakeAttempt, MarkAttempt, CopyCheckpoint, OpenLedger,
     Abandon, ResolveAttempt, AdvanceAttempt, Dispose, Publish, Finalize, CleanDelivery,
     CleanAttempt, CleanCheckpoint, Succeed, Interrupt
<1> QED
  BY <1>1, ActorsAssumption DEF IInv, OneCommand

LEMMA PreparationAlone ==
  ASSUME IInv, ~Overlap, NEW p \in Preparers, NEW q \in Preparers, Prepare(p), p # q
  PROVE  pc[q] = "idle"
<1>1. pc[p] # "idle" \/ BeginPrepare(p)
  BY DEF Prepare, MarkCheckpoint, Extract, CommitText, Freeze, FinishPrepare, CleanPreparation
<1> QED
  BY <1>1 DEF IInv, OneCommand, BeginPrepare, MayStart

LEMMA PrepareKeepsManaged ==
  ASSUME IInv, CheckpointIsManaged, UNCHANGED setting, NEW p \in Preparers, Prepare(p)
  PROVE  CheckpointIsManaged'
<1> SUFFICES ASSUME ~Overlap
             PROVE  CheckpointIsManaged'
  BY SettingStays DEF CheckpointIsManaged
<1>1. TypeOK /\ Checkpoint \in Dirs /\ p \in Actors
  BY DEF IInv, Dirs, Actors
<1>2. \A q \in Preparers \ {p} : pc'[q] = "idle"
  <2>1. \A q \in Preparers \ {p} : pc[q] = "idle" /\ q \in Actors
    BY PreparationAlone DEF Actors
  <2> QED
    BY <1>1, <2>1 DEF TypeOK, Prepare, BeginPrepare, MarkCheckpoint, Extract, CommitText,
       Freeze, FinishPrepare, CleanPreparation, Report, Raise, Goto
<1>3. ASSUME Tidy(Checkpoint)',
             pc'[p] = "marking" => dir'[Checkpoint] = "bare" /\ stage'[Checkpoint] = 0,
             pc'[p] \in {"extracting", "committing"} => dir'[Checkpoint] = "managed"
      PROVE  CheckpointIsManaged'
  BY <1>2, <1>3 DEF CheckpointIsManaged
<1>4. CASE BeginPrepare(p)
  BY <1>1, <1>3, <1>4 DEF BeginPrepare, Goto, TypeOK, CheckpointIsManaged, Tidy
<1>5. CASE MarkCheckpoint(p)
  BY <1>1, <1>3, <1>5 DEF MarkCheckpoint, Raise, Goto, TypeOK, CheckpointIsManaged, Tidy
<1>6. CASE Extract(p)
  <2>1. dir[Checkpoint] = "managed" /\ dir'[Checkpoint] = "managed"
    BY <1>1, <1>6 DEF Extract, WriteText, TypeOK, CheckpointIsManaged
  <2>2. pc'[p] \in {"committing", "unpreparing"}
    BY <1>1, <1>6 DEF Extract, Raise, Goto, TypeOK
  <2> QED
    BY <1>3, <2>1, <2>2 DEF Tidy
<1>10. CASE CommitText(p)
  <2>1. dir[Checkpoint] = "managed" /\ dir'[Checkpoint] = "managed"
    BY <1>1, <1>10 DEF CommitText, WriteText, TypeOK, CheckpointIsManaged
  <2>2. pc'[p] \in {"freezing", "unpreparing"}
    BY <1>1, <1>10 DEF CommitText, Raise, Goto, TypeOK
  <2> QED
    BY <1>3, <2>1, <2>2 DEF Tidy
<1>7. CASE Freeze(p)
  <2>1. pc'[p] \in {"prepared", "freezing", "unpreparing"}
    BY <1>1, <1>7 DEF Freeze, Raise, Goto, TypeOK
  <2>2. \/ dir' = dir /\ stage' = stage
        \/ /\ dir'[Checkpoint] # "absent"
           /\ dir[Checkpoint] # "absent" => dir'[Checkpoint] = dir[Checkpoint]
    BY <1>1, <1>7 DEF Freeze, TypeOK
  <2>3. text' = text
    BY <1>7 DEF Freeze
  <2>4. Tidy(Checkpoint)'
    BY <2>2, <2>3 DEF CheckpointIsManaged, Tidy
  <2> QED
    BY <1>3, <2>1, <2>4
<1>8. CASE FinishPrepare(p)
  BY <1>1, <1>3, <1>8
     DEF FinishPrepare, Report, Goto, onDisk, TypeOK, CheckpointIsManaged, Tidy
<1>9. CASE CleanPreparation(p)
  <2>1. pc'[p] = "idle"
    BY <1>1, <1>9 DEF CleanPreparation, Report, Goto, TypeOK
  <2>2. CheckpointIsCleaned
    BY <1>1, <1>9, CleaningUp, FailingToCleanUp DEF CleanPreparation, CheckpointIsCleaned
  <2>3. \A q \in Preparers : pc'[q] = "idle"
    BY <1>2, <2>1
  <2> QED
    BY <2>2, <2>3, CleaningKeepsManaged
<1> QED
  BY <1>4, <1>5, <1>6, <1>7, <1>8, <1>9, <1>10 DEF Prepare

LEMMA NextKeepsManaged ==
  ASSUME IInv, CheckpointIsManaged, [Next]_vars
  PROVE  CheckpointIsManaged'
<1>1. TypeOK /\ Checkpoint \in Dirs /\ UNCHANGED setting
  BY DEF IInv, Dirs, Next, vars
<1>2. ASSUME NEW s \in Sweepers, Sweep(s)
      PROVE  CheckpointIsManaged'
  <2>1. Overlap
    BY <1>2 DEF Sweep, IInv, OneCommand
  <2> QED
    BY <1>1, <2>1, SettingStays DEF CheckpointIsManaged
<1>3. ASSUME \/ \E s \in Sweepers, d \in Dirs : Find(s, d)
             \/ \E a \in Actors : Crash(a)
             \/ \E d \in Dirs : Expire(d)
             \/ UNCHANGED vars
      PROVE  CheckpointIsManaged'
  <2>1. CheckpointStays
    BY <1>3 DEF Find, Crash, Expire, vars, onDisk, CheckpointStays
  <2>2. \A p \in Preparers : pc'[p] \in {pc[p], "idle"}
    <3>1. ASSUME NEW s \in Sweepers, NEW d \in Dirs, Find(s, d)
          PROVE  \A p \in Preparers : pc'[p] = pc[p]
      BY <1>1, <3>1, ActorsAssumption DEF Find, Goto, TypeOK, Actors
    <3>2. ASSUME NEW a \in Actors, Crash(a)
          PROVE  \A p \in Preparers : pc'[p] \in {pc[p], "idle"}
      BY <1>1, <3>2 DEF Crash, Goto, TypeOK, Actors
    <3>3. ASSUME UNCHANGED vars \/ \E d \in Dirs : Expire(d)
          PROVE  pc' = pc
      BY <3>3 DEF Expire, vars
    <3> QED
      BY <1>3, <3>1, <3>2, <3>3
  <2> QED
    BY <1>1, <2>1, <2>2, CleaningKeepsManaged
<1>4. ASSUME NEW f \in Finishers, Finish(f)
      PROVE  CheckpointIsManaged'
  <2>1. \A p \in Preparers : pc'[p] = pc[p]
    BY <1>4, FinishLeavesPreparers
  <2>2. CASE BeginFinish(f)
    <3>1. CheckpointStays
      BY <2>2 DEF BeginFinish, onDisk, CheckpointStays
    <3> QED
      BY <1>1, <2>1, <3>1, CleaningKeepsManaged
  <2>3. CASE ~BeginFinish(f)
    <3>1. ~Overlap => \A p \in Preparers : pc'[p] = "idle"
      BY <1>4, <2>1, <2>3, FinishAlone
    <3> QED
      BY <1>1, <1>4, <2>1, <3>1, FinishAndCheckpoint, CleaningKeepsManaged
  <2> QED
    BY <2>2, <2>3
<1> QED
  BY <1>1, <1>2, <1>3, <1>4, PrepareKeepsManaged DEF Next

(* Paper text lies only in directories that a sweep will find, at every    *)
(* instant at which a command could die: in attempts whatever runs at the  *)
(* same time, in the checkpoint when one command runs at a time, although  *)
(* every write would make a directory of its own where it is missing.      *)
THEOREM TextAlwaysManaged == Spec => []TextIsManaged
<1>1. Init => CheckpointIsManaged
  BY DEF Init, CheckpointIsManaged, Tidy, Dirs, Actors
<1>2. IInv /\ CheckpointIsManaged /\ [Next]_vars => CheckpointIsManaged'
  BY NextKeepsManaged
<1>3. IInv /\ CheckpointIsManaged => TextIsManaged
  BY DEF IInv, CheckpointIsManaged, Tidy, HoldsText, TextIsManaged, Dirs
<1> QED
  BY <1>1, <1>2, <1>3, Invariance, PTL DEF Spec
=============================================================================

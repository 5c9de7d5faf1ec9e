------------------------------ MODULE WorkerRun ------------------------------
(***************************************************************************)
(* One call of the Windows sandbox, security/windows_worker.py: the parent *)
(* creates an AppContainer profile, a Job Object, three pipes and a        *)
(* suspended child, starts two threads that read the child's pipes,        *)
(* resumes it, waits for at most the wall-clock limit, judges what came    *)
(* back, and in a finally clause ends, closes and erases everything.       *)
(*                                                                         *)
(* Output is counted in reads (of 8192 bytes).  Every request of the       *)
(* program fits into a pipe, so writing it never blocks.  The child is one *)
(* process: active_process_limit is one.                                   *)
(***************************************************************************)
EXTENDS Naturals

CONSTANTS
    Response,      \* reads that a complete response takes
    Limit,         \* max_protocol_bytes, in reads
    PipeRoom,      \* reads that a pipe holds before a writer has to wait
    Operations,    \* "work", or "probe" for the kill-on-close probe
    Faults         \* which of "api", "stuck", "reader", "erase" may happen

ASSUME SizesAssumption == /\ Response \in Nat \ {0} /\ Limit \in Nat
                          /\ PipeRoom \in Nat \ {0} /\ Response <= Limit
ASSUME OperationsAssumption == Operations \subseteq {"work", "probe"}
ASSUME FaultsAssumption == Faults \subseteq {"api", "stuck", "reader", "erase"}

Streams == {"stdout", "stderr"}
ParentEnd(s) == IF s = "stdout" THEN "parent_stdout" ELSE "parent_stderr"
ChildEnds == {"child_stdin", "child_stdout", "child_stderr"}
ParentEnds == {"parent_stdin", "parent_stdout", "parent_stderr"}
Handles == {"job", "port", "process", "thread"} \cup ChildEnds \cup ParentEnds

VARIABLES
    pc,            \* where the parent is
    op,            \* the operation of the request
    held,          \* the handles that its locals hold
    open,          \* the handles that the kernel has open for it
    misused,       \* whether a handle was closed that was not open
    profile,       \* the AppContainer profile: registered, and its files there
    container,     \* whether the parent knows of a profile to clean up
    child,         \* the child process
    messages,      \* what the Job reported to the completion port
    written,       \* per stream, reads that the child has written
    reader,        \* per stream, the reader thread
    join,          \* the parent's stdout_thread and stderr_thread
    seen,          \* what the parent has observed
    verdict,       \* the pending exception, or "OK"
    errors,        \* cleanup_errors is not empty
    result         \* what the caller gets

locals == << held, open, misused >>
vars == << pc, op, held, open, misused, profile, container, child, messages, written,
           reader, join, seen, verdict, errors, result >>

Init ==
    /\ pc = "preparing"
    /\ op \in Operations
    /\ held = {} /\ open = {} /\ misused = FALSE
    /\ profile = [registered |-> FALSE, files |-> FALSE]
    /\ container = FALSE
    /\ child = [state |-> "none", inJob |-> FALSE, closed |-> FALSE, exit |-> "none"]
    /\ messages = {}
    /\ written = [s \in Streams |-> 0]
    /\ reader = [s \in Streams |-> [state |-> "none", data |-> 0, overflow |-> FALSE]]
    /\ join = [s \in Streams |-> FALSE]
    /\ seen = [timedOut |-> FALSE, confirmed |-> FALSE, exit |-> "none", messages |-> {},
               alive |-> FALSE]
    /\ verdict = "none"
    /\ errors = FALSE
    /\ result = "none"

Api == "api" \in Faults
Alive == child.state \in {"suspended", "running", "dying"}
Ended(s) == reader[s].state = "done"

Raise(code) == pc' = "ending_process" /\ verdict' = code
Go(label) == pc' = label /\ UNCHANGED verdict

Acquire(H) == /\ held' = held \cup H
              /\ open' = open \cup H
              /\ UNCHANGED misused

Close(H) == /\ held' = held \ H
            /\ open' = open \ H
            /\ misused' = (misused \/ ~(H \subseteq open))

(* A terminated process is gone at once, or, stuck, some time later.       *)
Killed == {[child EXCEPT !.state = "dead", !.exit = "killed"]} \cup
          (IF "stuck" \in Faults THEN {[child EXCEPT !.state = "dying"]} ELSE {})

Terminate == IF Alive THEN child' \in Killed ELSE UNCHANGED child

(* TerminateJobObject and KILL_ON_JOB_CLOSE.                               *)
TerminateJob == IF child.inJob THEN Terminate ELSE UNCHANGED child

-----------------------------------------------------------------------------
(* Setting up.                                                             *)

(* _prepare_appcontainer cleans up its own failures.                       *)
Prepare ==
    /\ pc = "preparing"
    /\ \/ /\ profile' = [registered |-> TRUE, files |-> TRUE]
          /\ container' = TRUE
          /\ Go("configuring")
       \/ Api /\ Raise("UNAVAILABLE") /\ UNCHANGED << profile, container >>
       \/ /\ Api /\ "erase" \in Faults
          /\ profile' = [registered |-> TRUE, files |-> TRUE]
          /\ Raise("CLEANUP") /\ UNCHANGED container
    /\ UNCHANGED << op, locals, child, messages, written, reader, join, seen, errors, result >>

ConfigureJob ==
    /\ pc = "configuring"
    /\ \/ Acquire({"job", "port"}) /\ Go("making_pipes")
       \/ Api /\ Raise("UNAVAILABLE") /\ UNCHANGED locals
    /\ UNCHANGED << op, profile, container, child, messages, written, reader, join, seen,
                    errors, result >>

(* Three pipes, of which some exist when one cannot be made.               *)
MakePipes ==
    /\ pc = "making_pipes"
    /\ \/ Acquire(ChildEnds \cup ParentEnds) /\ Go("creating")
       \/ /\ Api /\ Raise("UNAVAILABLE")
          /\ \E made \in {{}, {"child_stdin", "parent_stdin"},
                          {"child_stdin", "parent_stdin", "child_stdout", "parent_stdout"},
                          ChildEnds \cup ParentEnds} : Acquire(made)
    /\ UNCHANGED << op, profile, container, child, messages, written, reader, join, seen,
                    errors, result >>

(* The child is created suspended; then its ends of the pipes are closed.  *)
CreateChild ==
    /\ pc = "creating"
    /\ \/ /\ child' = [child EXCEPT !.state = "suspended"]
          /\ held' = (held \ ChildEnds) \cup {"process", "thread"}
          /\ open' = (open \ ChildEnds) \cup {"process", "thread"}
          /\ misused' = (misused \/ ~(ChildEnds \subseteq open))
          /\ Go("assigning")
       \/ Api /\ Raise("UNAVAILABLE") /\ UNCHANGED << locals, child >>
    /\ UNCHANGED << op, profile, container, messages, written, reader, join, seen, errors,
                    result >>

(* A child outside the Job is terminated directly, in two attempts.        *)
Assign ==
    /\ pc = "assigning"
    /\ \/ /\ child' = [child EXCEPT !.inJob = TRUE]
          /\ Go("starting_stdout") /\ UNCHANGED seen
       \/ /\ Api /\ Raise("UNAVAILABLE")
          /\ Terminate
          /\ seen' = [seen EXCEPT !.confirmed = child'.state = "dead"]
    /\ UNCHANGED << op, locals, profile, container, messages, written, reader, join, errors,
                    result >>

(* Fault: the parent goes on holding the end that the reader will close.   *)
StartReaderKeeping(s, label, next) ==
    /\ pc = label
    /\ \/ /\ reader' = [reader EXCEPT ![s].state = "reading"]
          /\ join' = [join EXCEPT ![s] = TRUE]
          /\ Go(next)
       \/ Api /\ Raise("OTHER") /\ UNCHANGED << reader, join >>
    /\ UNCHANGED << op, locals, profile, container, child, messages, written, seen, errors,
                    result >>

(* With its thread the read end of the pipe passes to the reader.          *)
StartReader(s, label, next) ==
    /\ pc = label
    /\ \/ /\ reader' = [reader EXCEPT ![s].state = "reading"]
          /\ join' = [join EXCEPT ![s] = TRUE]
          /\ held' = held \ {ParentEnd(s)}
          /\ Go(next)
       \/ Api /\ Raise("OTHER") /\ UNCHANGED << held, reader, join >>
    /\ UNCHANGED << op, open, misused, profile, container, child, messages, written, seen,
                    errors, result >>

Resume ==
    /\ pc = "resuming"
    /\ \/ /\ child' = [child EXCEPT !.state = "running"]
          /\ Close({"thread"})
          /\ Go("asking")
       \/ Api /\ Raise("UNAVAILABLE") /\ TerminateJob /\ UNCHANGED locals
    /\ UNCHANGED << op, profile, container, messages, written, reader, join, seen, errors,
                    result >>

(* Whether the child still reads the request does not matter.              *)
WriteRequest ==
    /\ pc = "asking"
    /\ Close({"parent_stdin"})
    /\ Go(IF op = "probe" THEN "probing" ELSE "waiting")
    /\ UNCHANGED << op, profile, container, child, messages, written, reader, join, seen,
                    errors, result >>
-----------------------------------------------------------------------------
(* The child, the limits of the Job, and the reader threads.               *)

ChildWrites(s) ==
    /\ child.state = "running" /\ ~child.closed
    /\ written[s] - reader[s].data < PipeRoom
    /\ written[s] <= Limit
    /\ written' = [written EXCEPT ![s] = @ + 1]
    /\ UNCHANGED << pc, op, locals, profile, container, child, messages, reader, join, seen,
                    verdict, errors, result >>

(* It exits, is refused memory, or runs out of CPU time.  A message to the *)
(* completion port may get lost.                                           *)
ChildExits ==
    /\ child.state = "running"
    /\ \E code \in {"zero", "nonzero"} : child' = [child EXCEPT !.state = "dead", !.exit = code]
    /\ UNCHANGED << pc, op, locals, profile, container, messages, written, reader, join, seen,
                    verdict, errors, result >>

RefuseMemory ==
    /\ child.state = "running"
    /\ messages' = messages \cup {"memory"}
    /\ UNCHANGED << pc, op, locals, profile, container, child, written, reader, join, seen,
                    verdict, errors, result >>

EndCpuTime ==
    /\ child.state = "running"
    /\ child' = [child EXCEPT !.state = "dead", !.exit = "cpu"]
    /\ messages' \in {messages, messages \cup {"cpu"}}
    /\ UNCHANGED << pc, op, locals, profile, container, written, reader, join, seen, verdict,
                    errors, result >>

(* The child of the probe closes its pipes and stays alive.                *)
ChildCloses ==
    /\ op = "probe" /\ child.state = "running" /\ ~child.closed
    /\ child' = [child EXCEPT !.closed = TRUE]
    /\ UNCHANGED << pc, op, locals, profile, container, messages, written, reader, join, seen,
                    verdict, errors, result >>

Die ==
    /\ child.state = "dying"
    /\ child' = [child EXCEPT !.state = "dead", !.exit = "killed"]
    /\ UNCHANGED << pc, op, locals, profile, container, messages, written, reader, join, seen,
                    verdict, errors, result >>

(* _bounded_pipe_reader: read, or note the overflow and end the Job, or    *)
(* see the end of the pipe or an error, and close it.                      *)
ReaderReads(s) ==
    /\ reader[s].state = "reading"
    /\ written[s] > reader[s].data
    /\ reader' = IF reader[s].data < Limit
                 THEN [reader EXCEPT ![s].data = @ + 1]
                 ELSE [reader EXCEPT ![s].state = "stopping", ![s].overflow = TRUE]
    /\ UNCHANGED << pc, op, locals, profile, container, child, messages, written, join, seen,
                    verdict, errors, result >>

ReaderStops(s) ==
    /\ reader[s].state = "stopping"
    /\ reader' = [reader EXCEPT ![s].state = "closing"]
    /\ IF "job" \in open THEN TerminateJob ELSE UNCHANGED child
    /\ UNCHANGED << pc, op, locals, profile, container, messages, written, join, seen, verdict,
                    errors, result >>

ReaderEnds(s) ==
    /\ \/ reader[s].state = "closing"
       \/ /\ reader[s].state = "reading"
          /\ \/ /\ written[s] = reader[s].data
                /\ child.closed \/ ~Alive
             \/ "reader" \in Faults
    /\ reader' = [reader EXCEPT ![s].state = "done"]
    /\ open' = open \ {ParentEnd(s)}
    /\ misused' = (misused \/ ParentEnd(s) \notin open)
    /\ UNCHANGED << pc, op, held, profile, container, child, messages, written, join, seen,
                    verdict, errors, result >>
-----------------------------------------------------------------------------
(* Waiting and judging.                                                    *)

(* The probe's worker answers, closes its pipes and must die with the Job. *)
ProbeReady ==
    /\ pc = "probing"
    /\ \/ /\ \A s \in Streams : Ended(s) /\ ~reader[s].overflow
          /\ reader["stdout"].data = Response
          /\ Go("closing_job_alive")
       \/ \E s \in Streams : ~Ended(s) /\ Raise("TIMEOUT")
       \/ /\ \A s \in Streams : Ended(s)
          /\ \E s \in Streams : reader[s].overflow
          /\ Raise("OUTPUT_LIMIT")
       \/ /\ \A s \in Streams : Ended(s) /\ ~reader[s].overflow
          /\ Raise("EXECUTION")
    /\ UNCHANGED << op, locals, profile, container, child, messages, written, reader, join, seen,
                    errors, result >>

ProbeCloseJob ==
    /\ pc = "closing_job_alive"
    /\ \/ /\ Alive
          /\ Close({"job"})
          /\ TerminateJob
          /\ IF child'.state = "dead" THEN Go("waiting") ELSE Raise("EXECUTION")
          /\ seen' = [seen EXCEPT !.confirmed = child'.state = "dead"]
       \/ /\ ~Alive \/ Api
          /\ Raise("EXECUTION")
          /\ UNCHANGED << locals, child, seen >>
    /\ UNCHANGED << op, profile, container, messages, written, reader, join, errors, result >>

(* The wait ends with the child, at the limit, or with an error.  At the   *)
(* limit the Job is terminated; whether that has happened is not checked.  *)
Wait ==
    /\ pc = "waiting"
    /\ \/ ~Alive /\ Go("examining") /\ UNCHANGED << child, seen >>
       \/ /\ Alive
          /\ TerminateJob
          /\ seen' = [seen EXCEPT !.timedOut = TRUE]
          /\ Go("examining")
       \/ /\ Api /\ Raise("UNAVAILABLE")
          /\ IF "job" \in open THEN TerminateJob ELSE UNCHANGED child
          /\ UNCHANGED seen
    /\ UNCHANGED << op, locals, profile, container, messages, written, reader, join, errors,
                    result >>

(* The exit code, STILL_ACTIVE included, and the messages of the Job.      *)
Examine ==
    /\ pc = "examining"
    /\ \/ /\ seen' = [seen EXCEPT !.exit = child.exit, !.messages = messages]
          /\ Close({"process"})
          /\ Go("joining")
       \/ Api /\ Raise("UNAVAILABLE") /\ UNCHANGED << locals, seen >>
    /\ UNCHANGED << op, profile, container, child, messages, written, reader, join, errors,
                    result >>

(* Readers get two seconds, which is enough once the child is gone.  Then  *)
(* the threads are forgotten.                                              *)
JoinReaders ==
    /\ pc = "joining"
    /\ (\A s \in Streams : Ended(s)) \/ Alive
    /\ seen' = [seen EXCEPT !.alive = \E s \in Streams : ~Ended(s)]
    /\ join' = [s \in Streams |-> FALSE]
    /\ Go("judging")
    /\ UNCHANGED << op, locals, profile, container, child, messages, written, reader, errors,
                    result >>

Overflowed == \E s \in Streams : reader[s].overflow
Failed == seen.exit # "zero" /\ op # "probe"

(* Fault: the time limit is looked at first.                               *)
JudgementTimeoutFirst ==
    CASE seen.timedOut -> "TIMEOUT"
      [] ~seen.timedOut /\ Overflowed -> "OUTPUT_LIMIT"
      [] ~seen.timedOut /\ ~Overflowed /\ seen.alive -> "EXECUTION"
      [] OTHER -> IF Failed
                  THEN IF "cpu" \in seen.messages THEN "CPU"
                       ELSE IF "memory" \in seen.messages THEN "MEMORY" ELSE "EXECUTION"
                  ELSE IF reader["stdout"].data # Response THEN "EXECUTION" ELSE "DECODED"

Judgement ==
    CASE Overflowed -> "OUTPUT_LIMIT"
      [] ~Overflowed /\ seen.alive -> "EXECUTION"
      [] ~Overflowed /\ ~seen.alive /\ seen.timedOut -> "TIMEOUT"
      [] OTHER -> IF Failed
                  THEN IF "cpu" \in seen.messages THEN "CPU"
                       ELSE IF "memory" \in seen.messages THEN "MEMORY" ELSE "EXECUTION"
                  ELSE IF reader["stdout"].data # Response THEN "EXECUTION" ELSE "DECODED"

(* A response that decodes may report an error, or be anything else.       *)
Judge ==
    /\ pc = "judging"
    /\ IF Judgement = "DECODED"
       THEN Go("reading") \/ Raise("REPORTED") \/ Raise("EXECUTION")
       ELSE Raise(Judgement)
    /\ UNCHANGED << op, locals, profile, container, child, messages, written, reader, join, seen,
                    errors, result >>

(* The files that the response describes, then the end of the try block.   *)
ReadArtifacts ==
    /\ pc = "reading"
    /\ \/ /\ Close({"job", "port"} \cap held)
          /\ TerminateJob
          /\ Raise("OK")
       \/ op = "work" /\ Raise("EXECUTION") /\ UNCHANGED << locals, child >>
    /\ UNCHANGED << op, profile, container, messages, written, reader, join, seen, errors,
                    result >>
-----------------------------------------------------------------------------
(* The finally clause.                                                     *)

(* A process that no Job of ours would end is terminated directly.         *)
EndProcess ==
    /\ pc = "ending_process"
    /\ IF /\ "process" \in held /\ ~seen.confirmed
          /\ ~child.inJob \/ "job" \notin held
       THEN /\ Terminate
            /\ seen' = [seen EXCEPT !.confirmed = child'.state = "dead"]
            /\ errors' = (errors \/ child'.state # "dead")
       ELSE UNCHANGED << child, seen, errors >>
    /\ Go("ending_job")
    /\ UNCHANGED << op, locals, profile, container, messages, written, reader, join, result >>

(* _terminate_job_and_wait: the Job is terminated if there is one ...      *)
EndJob ==
    /\ pc = "ending_job"
    /\ \/ "job" \in held /\ TerminateJob /\ UNCHANGED errors
       \/ "job" \in held /\ Api /\ errors' = TRUE /\ (TerminateJob \/ UNCHANGED child)
       \/ "job" \notin held /\ UNCHANGED << child, errors >>
    /\ Go(IF "job" \in held THEN "emptying_job" ELSE "closing")
    /\ UNCHANGED << op, locals, profile, container, messages, written, reader, join, seen,
                    result >>

(* Fault: TerminateJobObject is trusted.                                   *)
EmptyJobTrusting ==
    /\ pc = "emptying_job"
    /\ Go("closing")
    /\ UNCHANGED << op, locals, profile, container, child, messages, written, reader, join,
                    seen, errors, result >>

(* Fault: there is no deadline.                                            *)
EmptyJobPatiently ==
    /\ pc = "emptying_job"
    /\ ~(child.inJob /\ Alive)
    /\ Go("closing")
    /\ UNCHANGED << op, locals, profile, container, child, messages, written, reader, join,
                    seen, errors, result >>

(* ... and no process may be left in it when the time is up.               *)
EmptyJob ==
    /\ pc = "emptying_job"
    /\ errors' = (errors \/ (child.inJob /\ Alive))
    /\ Go("closing")
    /\ UNCHANGED << op, locals, profile, container, child, messages, written, reader, join,
                    seen, result >>

CloseHandles ==
    /\ pc = "closing"
    /\ Close(held)
    /\ IF "job" \in held THEN TerminateJob ELSE UNCHANGED child
    /\ Go("joining_again")
    /\ UNCHANGED << op, profile, container, messages, written, reader, join, seen, errors,
                    result >>

JoinAgain ==
    /\ pc = "joining_again"
    /\ (\A s \in Streams : join[s] => Ended(s)) \/ Alive
    /\ errors' = (errors \/ \E s \in Streams : join[s] /\ ~Ended(s))
    /\ Go("erasing")
    /\ UNCHANGED << op, locals, profile, container, child, messages, written, reader, join,
                    seen, result >>

(* _cleanup_appcontainer_profile: the API must report success, at the      *)
(* second attempt at the latest, and the files must be gone.               *)
EraseProfile ==
    /\ pc = "erasing"
    /\ \/ container /\ profile' = [registered |-> FALSE, files |-> FALSE] /\ UNCHANGED errors
       \/ /\ container /\ "erase" \in Faults
          /\ profile' \in [registered : BOOLEAN, files : BOOLEAN]
          /\ profile'.registered \/ profile'.files
          /\ errors' = TRUE
       \/ ~container /\ UNCHANGED << profile, errors >>
    /\ Go("raising")
    /\ UNCHANGED << op, locals, container, child, messages, written, reader, join, seen, result >>

Finish ==
    /\ pc = "raising"
    /\ result' = IF errors THEN "CLEANUP" ELSE verdict
    /\ Go("done")
    /\ UNCHANGED << op, locals, profile, container, child, messages, written, reader, join,
                    seen, errors >>

Parent ==
    \/ Prepare \/ ConfigureJob \/ MakePipes \/ CreateChild \/ Assign
    \/ StartReader("stdout", "starting_stdout", "starting_stderr")
    \/ StartReader("stderr", "starting_stderr", "resuming")
    \/ Resume \/ WriteRequest \/ ProbeReady \/ ProbeCloseJob
    \/ Wait \/ Examine \/ JoinReaders \/ Judge \/ ReadArtifacts
    \/ EndProcess \/ EndJob \/ EmptyJob \/ CloseHandles \/ JoinAgain \/ EraseProfile \/ Finish

Reader(s) == ReaderReads(s) \/ ReaderStops(s) \/ ReaderEnds(s)

Child == \/ ChildExits \/ RefuseMemory \/ EndCpuTime \/ ChildCloses \/ Die
         \/ \E s \in Streams : ChildWrites(s)

Next == Parent \/ Child \/ \E s \in Streams : Reader(s)

Spec == Init /\ [][Next]_vars

(* The parent and its threads go on; the child may do what it likes.       *)
FairSpec == /\ Spec
            /\ WF_vars(Parent)
            /\ \A s \in Streams : WF_vars(Reader(s))
-----------------------------------------------------------------------------
Labels == {"preparing", "configuring", "making_pipes", "creating", "assigning",
           "starting_stdout", "starting_stderr", "resuming", "asking", "probing",
           "closing_job_alive", "waiting", "examining", "joining", "judging", "reading",
           "ending_process", "ending_job", "emptying_job", "closing", "joining_again",
           "erasing", "raising", "done"}
Exits == {"none", "zero", "nonzero", "cpu", "killed"}
Codes == {"none", "OK", "UNAVAILABLE", "CLEANUP", "OTHER", "TIMEOUT", "OUTPUT_LIMIT",
          "EXECUTION", "REPORTED", "CPU", "MEMORY"}

Children == [state : {"none", "suspended", "running", "dying", "dead"},
             inJob : BOOLEAN, closed : BOOLEAN, exit : Exits]
Readers == [state : {"none", "reading", "stopping", "closing", "done"},
            data : 0 .. Limit, overflow : BOOLEAN]
Observations == [timedOut : BOOLEAN, confirmed : BOOLEAN, exit : Exits,
                 messages : SUBSET {"memory", "cpu"}, alive : BOOLEAN]

(* The values of the variables.                                            *)
TypeOK ==
    /\ pc \in Labels /\ op \in Operations
    /\ held \subseteq Handles /\ open \subseteq Handles /\ misused \in BOOLEAN
    /\ profile \in [registered : BOOLEAN, files : BOOLEAN] /\ container \in BOOLEAN
    /\ child \in Children
    /\ messages \subseteq {"memory", "cpu"}
    /\ written \in [Streams -> 0 .. Limit + 1]
    /\ reader \in [Streams -> Readers]
    /\ \A s \in Streams : reader[s].data <= written[s]
    /\ join \in [Streams -> BOOLEAN]
    /\ seen \in Observations
    /\ verdict \in Codes /\ errors \in BOOLEAN /\ result \in Codes

(* A call that does not report a failed cleanup leaves nothing behind: its *)
(* process is dead, its profile erased with all the files in it, and a     *)
(* reader it gave up has only the end of its pipe to find.                 *)
NothingSurvives ==
    (pc = "done" /\ result # "CLEANUP") =>
        /\ ~Alive
        /\ ~profile.registered /\ ~profile.files
        /\ seen.alive \/ \A s \in Streams : reader[s].state \in {"none", "done"}

(* Whatever fails, every handle is closed exactly once, by the parent or   *)
(* by the reader it was handed to.                                         *)
HandlesClosedOnce ==
    /\ ~misused
    /\ pc = "done" => open \subseteq {ParentEnd(s) : s \in {x \in Streams : ~Ended(x)}}

(* The verdict is true.  A result is the whole answer of a worker that     *)
(* ended well by itself, or of a probe that died with its Job, within the  *)
(* limits.  A failure is reported as what it was: each limit only if it    *)
(* was reached, and an overflow as nothing else, unless a pipe had to be   *)
(* given up.                                                               *)
VerdictIsTrue ==
    pc = "done" =>
        /\ result = "OK" =>
               /\ child.exit = IF op = "work" THEN "zero" ELSE "killed"
               /\ reader["stdout"].data = Response
               /\ ~seen.timedOut /\ ~Overflowed
        /\ result = "OUTPUT_LIMIT" => \E s \in Streams : written[s] > Limit
        /\ result = "CPU" => child.exit = "cpu"
        /\ result = "MEMORY" => "memory" \in messages /\ child.exit \in {"nonzero", "cpu"}
        /\ (result = "TIMEOUT" /\ op = "work") => child.exit = "killed"
        /\ (Overflowed /\ ~seen.alive /\ op = "work") =>
               result \in {"OUTPUT_LIMIT", "CLEANUP", "UNAVAILABLE", "OTHER"}

(* Whatever the child does, and even if it cannot be killed, the call ends. *)
CallReturns == <>(pc = "done")
=============================================================================

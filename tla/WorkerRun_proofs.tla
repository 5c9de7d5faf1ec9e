-------------------------- MODULE WorkerRun_proofs ---------------------------
(* What WorkerRun promises, for every size of a response and every limit.    *)
EXTENDS WorkerRun, TLAPS

Early == {"preparing", "configuring", "making_pipes", "creating"}
Running == {"probing", "closing_job_alive", "waiting", "examining", "joining", "judging", "reading"}
Trying == Early \cup Running \cup
          {"assigning", "starting_stdout", "starting_stderr", "resuming", "asking"}
Closed == {"joining_again", "erasing", "raising", "done"}
Active(s) == reader[s].state \in {"reading", "stopping", "closing"}
AllEnded == \A s \in Streams : Ended(s)

(* The open handles are those the parent holds and the ends that readers     *)
(* have been handed; what a step is about to close is held.                  *)
HandlesAreOwned ==
    /\ open = held \cup {ParentEnd(s) : s \in {x \in Streams : Active(x)}}
    /\ \A s \in Streams : reader[s].state # "none" => ParentEnd(s) \notin held
    /\ pc = "creating" => ChildEnds \cup ParentEnds \subseteq held
    /\ pc \in {"assigning", "starting_stdout"} => ParentEnds \subseteq held
    /\ pc = "starting_stderr" => "parent_stderr" \in held
    /\ pc \in {"assigning", "starting_stdout", "starting_stderr", "resuming"} => "thread" \in held
    /\ pc \in {"starting_stderr", "resuming", "asking"} => "parent_stdin" \in held
    /\ pc \in {"assigning", "starting_stdout", "starting_stderr", "resuming", "asking",
               "probing", "closing_job_alive", "waiting", "examining"} => "process" \in held
    /\ pc \in Closed => held = {}

(* The readers exist once they have been started, and are joined, or ended,  *)
(* or known to be alive.                                                     *)
ReadersAreJoined ==
    /\ pc \in Early \cup {"assigning", "starting_stdout"} =>
          \A s \in Streams : reader[s].state = "none"
    /\ pc = "starting_stderr" => reader["stdout"].state # "none" /\ reader["stderr"].state = "none"
    /\ pc \in {"resuming", "asking"} \cup Running => \A s \in Streams : reader[s].state # "none"
    /\ pc \in {"judging", "reading"} => seen.alive \/ AllEnded
    /\ \A s \in Streams : Active(s) => join[s] \/ seen.alive
    /\ pc \in {"erasing", "raising", "done"} /\ ~errors =>
          \A s \in Streams : join[s] => Ended(s)

(* A child that lives can still be ended through a handle that is held; in   *)
(* the end it is dead, or the failure is noted.                              *)
ChildIsWithinReach ==
    /\ pc \in Early => child.state = "none" /\ ~child.inJob
    /\ pc \in {"assigning", "starting_stdout", "starting_stderr", "resuming"} =>
          child.state = "suspended"
    /\ pc \in Trying \ (Early \cup {"assigning"}) => child.state # "none" /\ child.inJob
    /\ pc \in {"making_pipes", "creating", "assigning"} => "job" \in held
    /\ pc \in Trying \ (Early \cup {"assigning"}) /\ Alive => "job" \in held
    /\ seen.confirmed => child.state = "dead"
    /\ pc = "ending_process" /\ Alive => "process" \in held \/ (child.inJob /\ "job" \in held)
    /\ pc = "ending_job" /\ Alive => errors \/ (child.inJob /\ "job" \in held)
    /\ pc = "emptying_job" /\ Alive => errors \/ child.inJob
    /\ pc \in {"closing"} \cup Closed /\ Alive => errors

(* What is recorded of the child's end is what happened to it.               *)
ExitIsKnown ==
    /\ child.exit = "none" <=> child.state # "dead"
    /\ "cpu" \in messages => child.exit = "cpu"
    /\ seen.messages \subseteq messages
    /\ seen.exit # "none" => seen.exit = child.exit
    /\ seen.timedOut => child.state = "dying" \/ child.exit = "killed"
    /\ pc \in Trying \ {"examining", "joining", "judging", "reading"} => ~seen.timedOut
    /\ pc \in {"probing", "closing_job_alive"} => op = "probe"
    /\ (pc \in Trying /\ op = "work" /\ (child.state = "dying" \/ child.exit = "killed")) =>
          seen.timedOut \/ Overflowed
    /\ (pc \in {"waiting", "examining", "joining", "judging", "reading"} /\ op = "probe") =>
          child.exit = "killed" /\ ~seen.timedOut
    /\ pc \in {"examining", "joining", "judging", "reading"} /\ ~seen.timedOut =>
          child.state = "dead"
    /\ pc \in {"joining", "judging", "reading"} /\ ~seen.timedOut => seen.exit = child.exit

OverflowIsReal ==
    \A s \in Streams : /\ reader[s].overflow => written[s] > Limit
                       /\ reader[s].state = "stopping" => reader[s].overflow
                       /\ child.state \in {"none", "suspended"} => written[s] = 0

(* A complete answer within the limits, of a child that ended as it should.  *)
Complete ==
    /\ child.exit = IF op = "work" THEN "zero" ELSE "killed"
    /\ reader["stdout"].data = Response
    /\ ~seen.timedOut /\ ~Overflowed /\ AllEnded

(* What each verdict rests on.                                               *)
VerdictIsFounded ==
    /\ pc \in Trying <=> verdict = "none"
    /\ pc = "reading" \/ verdict = "OK" => Complete
    /\ verdict = "OUTPUT_LIMIT" => \E s \in Streams : written[s] > Limit
    /\ verdict = "CPU" => child.exit = "cpu"
    /\ verdict = "MEMORY" => "memory" \in messages /\ child.exit \in {"nonzero", "cpu"}
    /\ verdict = "TIMEOUT" /\ op = "work" => seen.timedOut
    /\ (op = "work" /\ verdict \in {"OK", "TIMEOUT", "EXECUTION", "REPORTED", "CPU", "MEMORY"}) =>
          seen.alive \/ (AllEnded /\ ~Overflowed)
    /\ pc = "done" => result = IF errors THEN "CLEANUP" ELSE verdict

(* The profile is erased, or the failure is noted.                           *)
ProfileIsKnown ==
    /\ ~container /\ (profile.registered \/ profile.files) => verdict = "CLEANUP"
    /\ pc \in {"raising", "done"} /\ ~errors /\ verdict # "CLEANUP" =>
          ~profile.registered /\ ~profile.files

IInv == /\ TypeOK /\ ~misused
        /\ HandlesAreOwned /\ ReadersAreJoined /\ ChildIsWithinReach /\ ExitIsKnown
        /\ OverflowIsReal /\ VerdictIsFounded /\ ProfileIsKnown

(* What ending the process or its Job does to the child.                     *)
Kill ==
    IF Alive
    THEN /\ child' \in Children /\ child'.inJob = child.inJob
         /\ \/ child'.state = "dead" /\ child'.exit = "killed"
            \/ child'.state = "dying" /\ child'.exit = child.exit
    ELSE child' = child
KillJob == IF child.inJob THEN Kill ELSE child' = child

LEMMA TerminationKills ==
  ASSUME TypeOK PROVE (Terminate => Kill) /\ (TerminateJob => KillJob)
<1>1. ASSUME Terminate PROVE Kill
  <2>1. CASE ~Alive
    BY <1>1, <2>1 DEF Terminate, Kill
  <2>2. CASE Alive
    <3>1. \/ child' = [child EXCEPT !.state = "dead", !.exit = "killed"]
          \/ child' = [child EXCEPT !.state = "dying"]
      BY <1>1, <2>2 DEF Terminate, Killed
    <3> QED
      BY <2>2, <3>1 DEF TypeOK, Children, Exits, Kill
  <2> QED
    BY <2>1, <2>2
<1> QED
  BY <1>1 DEF TerminateJob, KillJob

LEMMA InitIInv == Init => IInv
<1> SUFFICES ASSUME Init PROVE IInv
  OBVIOUS
<1>1. TypeOK
  <2>1. pc \in Labels /\ op \in Operations /\ verdict \in Codes
    BY DEF Init, Labels, Codes
  <2>2. errors \in BOOLEAN /\ result \in Codes /\ messages \subseteq {"memory", "cpu"}
    BY SizesAssumption DEF Init, TypeOK, Codes
  <2>3. held \subseteq Handles /\ open \subseteq Handles /\ misused \in BOOLEAN
    BY SizesAssumption DEF Init, TypeOK, Handles, ChildEnds, ParentEnds, Streams, ParentEnd
  <2>4. profile \in [registered : BOOLEAN, files : BOOLEAN] /\ container \in BOOLEAN
    BY SizesAssumption DEF Init, TypeOK
  <2>5. child \in Children
    BY DEF Init, Children, Exits
  <2>6. /\ written \in [Streams -> 0 .. Limit + 1] /\ reader \in [Streams -> Readers]
        /\ \A q \in Streams : reader[q].data <= written[q]
    BY SizesAssumption DEF Init, Readers
  <2>7. join \in [Streams -> BOOLEAN]
    BY DEF Init
  <2>8. seen \in Observations
    BY DEF Init, Observations, Exits
  <2> QED
    BY <2>1, <2>2, <2>3, <2>4, <2>5, <2>6, <2>7, <2>8 DEF TypeOK
<1>2. ~misused
  BY DEF Init
<1>3. HandlesAreOwned
  BY DEF Init, HandlesAreOwned, Active
<1>4. ReadersAreJoined
  BY DEF Init, ReadersAreJoined, Active, Running
<1>5. ChildIsWithinReach
  BY DEF Init, ChildIsWithinReach, Alive, Early
<1>6. ExitIsKnown
  BY DEF Init, ExitIsKnown
<1>7. OverflowIsReal
  BY DEF Init, OverflowIsReal
<1>8. VerdictIsFounded
  BY DEF Init, VerdictIsFounded, Early, Trying
<1>9. ProfileIsKnown
  BY DEF Init, ProfileIsKnown
<1> QED
  BY <1>1, <1>2, <1>3, <1>4, <1>5, <1>6, <1>7, <1>8, <1>9 DEF IInv

LEMMA PrepareStep == ASSUME IInv, Prepare PROVE IInv'
<1>1. TypeOK'
  <2>1. pc' \in Labels /\ op' \in Operations /\ verdict' \in Codes
    BY DEF Prepare, Raise, Go, IInv, TypeOK, Labels, Codes
  <2>2. errors' \in BOOLEAN /\ result' \in Codes /\ messages' \subseteq {"memory", "cpu"}
    BY DEF Prepare, IInv, TypeOK
  <2>3. held' \subseteq Handles /\ open' \subseteq Handles /\ misused' \in BOOLEAN
    BY DEF Prepare, locals, IInv, TypeOK
  <2>4. profile' \in [registered : BOOLEAN, files : BOOLEAN] /\ container' \in BOOLEAN
    <3>1. profile' \in {profile, [registered |-> TRUE, files |-> TRUE]}
      BY DEF Prepare
    <3>2. container' = container \/ container' = TRUE
      BY DEF Prepare
    <3>3. [registered |-> TRUE, files |-> TRUE] \in [registered : BOOLEAN, files : BOOLEAN]
      OBVIOUS
    <3>4. profile' \in [registered : BOOLEAN, files : BOOLEAN]
      BY <3>1, <3>3 DEF IInv, TypeOK
    <3>5. container' \in BOOLEAN
      BY <3>2 DEF IInv, TypeOK
    <3> QED
      BY <3>4, <3>5
  <2>5. child' \in Children
    BY DEF Prepare, IInv, TypeOK
  <2>6. /\ written' \in [Streams -> 0 .. Limit + 1] /\ reader' \in [Streams -> Readers]
        /\ \A q \in Streams : reader'[q].data <= written'[q]
    BY DEF Prepare, IInv, TypeOK
  <2>7. join' \in [Streams -> BOOLEAN]
    BY DEF Prepare, IInv, TypeOK
  <2>8. seen' \in Observations
    BY DEF Prepare, IInv, TypeOK
  <2> QED
    BY <2>1, <2>2, <2>3, <2>4, <2>5, <2>6, <2>7, <2>8 DEF TypeOK
<1>2. ~misused'
  BY DEF Prepare, locals, IInv
<1>3. HandlesAreOwned'
  BY DEF Prepare, Raise, Go, locals, IInv, HandlesAreOwned, Active, Closed
<1>4. ReadersAreJoined'
  BY DEF Prepare, Raise, Go, IInv, ReadersAreJoined, Active, Early, Running
<1>5. ChildIsWithinReach'
  BY DEF Prepare, Raise, Go, IInv, ChildIsWithinReach, Alive, Early, Running, Trying
<1>6. ExitIsKnown'
  BY DEF Prepare, Raise, Go, IInv, ExitIsKnown, ChildIsWithinReach, Early
<1>7. OverflowIsReal'
  BY DEF Prepare, IInv, OverflowIsReal
<1>8. VerdictIsFounded'
  BY DEF Prepare, Raise, Go, IInv, VerdictIsFounded, Early, Running, Trying
<1>9. ProfileIsKnown'
  BY DEF Prepare, Raise, Go, IInv, ProfileIsKnown, VerdictIsFounded, Early, Trying
<1> QED
  BY <1>1, <1>2, <1>3, <1>4, <1>5, <1>6, <1>7, <1>8, <1>9 DEF IInv

LEMMA ConfigureJobStep == ASSUME IInv, ConfigureJob PROVE IInv'
<1>1. TypeOK'
  <2>1. /\ pc' \in Labels /\ op' \in Operations /\ verdict' \in Codes
        /\ errors' \in BOOLEAN /\ result' \in Codes /\ messages' \subseteq {"memory", "cpu"}
        /\ profile' \in [registered : BOOLEAN, files : BOOLEAN] /\ container' \in BOOLEAN
        /\ written' \in [Streams -> 0 .. Limit + 1] /\ reader' \in [Streams -> Readers]
        /\ \A q \in Streams : reader'[q].data <= written'[q]
        /\ join' \in [Streams -> BOOLEAN]
        /\ seen' \in Observations
    BY DEF ConfigureJob, Raise, Go, IInv, TypeOK, Labels, Codes
  <2>2. held' \subseteq Handles /\ open' \subseteq Handles /\ misused' \in BOOLEAN
    BY SizesAssumption DEF ConfigureJob, Raise, Go, locals, Acquire, Api, IInv, TypeOK,
       Handles, ChildEnds, ParentEnds, Streams, ParentEnd
  <2>3. child' \in Children
    BY DEF ConfigureJob, IInv, TypeOK
  <2> QED
    BY <2>1, <2>2, <2>3 DEF TypeOK
<1>2. ~misused'
  BY DEF ConfigureJob, locals, Acquire, IInv
<1>3. HandlesAreOwned'
  BY DEF ConfigureJob, Raise, Go, locals, Acquire, IInv, HandlesAreOwned, Active, ParentEnd,
     Closed
<1>4. ReadersAreJoined'
  BY DEF ConfigureJob, Raise, Go, IInv, ReadersAreJoined, Active, Early, Running
<1>5. ChildIsWithinReach'
  BY DEF ConfigureJob, Raise, Go, Acquire, IInv, ChildIsWithinReach, Alive, Early, Running,
     Trying
<1>6. ExitIsKnown'
  BY DEF ConfigureJob, Raise, Go, IInv, ExitIsKnown, ChildIsWithinReach, Early
<1>7. OverflowIsReal'
  BY DEF ConfigureJob, IInv, OverflowIsReal
<1>8. VerdictIsFounded'
  BY DEF ConfigureJob, Raise, Go, IInv, VerdictIsFounded, Early, Running, Trying
<1>9. ProfileIsKnown'
  BY DEF ConfigureJob, Raise, Go, IInv, ProfileIsKnown, VerdictIsFounded, Early, Trying
<1> QED
  BY <1>1, <1>2, <1>3, <1>4, <1>5, <1>6, <1>7, <1>8, <1>9 DEF IInv

LEMMA MakePipesStep == ASSUME IInv, MakePipes PROVE IInv'
<1>1. TypeOK'
  <2>1. /\ pc' \in Labels /\ op' \in Operations /\ verdict' \in Codes
        /\ errors' \in BOOLEAN /\ result' \in Codes /\ messages' \subseteq {"memory", "cpu"}
        /\ profile' \in [registered : BOOLEAN, files : BOOLEAN] /\ container' \in BOOLEAN
        /\ written' \in [Streams -> 0 .. Limit + 1] /\ reader' \in [Streams -> Readers]
        /\ \A q \in Streams : reader'[q].data <= written'[q]
        /\ join' \in [Streams -> BOOLEAN]
        /\ seen' \in Observations
    BY DEF MakePipes, Raise, Go, IInv, TypeOK, Labels, Codes
  <2>2. held' \subseteq Handles /\ open' \subseteq Handles /\ misused' \in BOOLEAN
    BY SizesAssumption DEF MakePipes, Raise, Go, locals, Acquire, Api, IInv, TypeOK,
       Handles, ChildEnds, ParentEnds, Streams, ParentEnd
  <2>3. child' \in Children
    BY DEF MakePipes, IInv, TypeOK
  <2> QED
    BY <2>1, <2>2, <2>3 DEF TypeOK
<1>2. ~misused'
  BY DEF MakePipes, Acquire, IInv
<1>3. HandlesAreOwned'
  BY DEF MakePipes, Raise, Go, Acquire, IInv, HandlesAreOwned, ReadersAreJoined, Active,
     Early, Closed
<1>4. ReadersAreJoined'
  BY DEF MakePipes, Raise, Go, IInv, ReadersAreJoined, Active, Early, Running
<1>5. ChildIsWithinReach'
  BY DEF MakePipes, Raise, Go, Acquire, IInv, ChildIsWithinReach, Alive, Early, Running,
     Trying
<1>6. ExitIsKnown'
  BY DEF MakePipes, Raise, Go, IInv, ExitIsKnown, ChildIsWithinReach, Early
<1>7. OverflowIsReal'
  BY DEF MakePipes, IInv, OverflowIsReal
<1>8. VerdictIsFounded'
  BY DEF MakePipes, Raise, Go, IInv, VerdictIsFounded, Early, Running, Trying
<1>9. ProfileIsKnown'
  BY DEF MakePipes, Raise, Go, IInv, ProfileIsKnown, VerdictIsFounded, Early, Trying
<1> QED
  BY <1>1, <1>2, <1>3, <1>4, <1>5, <1>6, <1>7, <1>8, <1>9 DEF IInv

LEMMA CreateChildStep == ASSUME IInv, CreateChild PROVE IInv'
<1>1. TypeOK'
  <2>1. /\ pc' \in Labels /\ op' \in Operations /\ verdict' \in Codes
        /\ errors' \in BOOLEAN /\ result' \in Codes /\ messages' \subseteq {"memory", "cpu"}
        /\ profile' \in [registered : BOOLEAN, files : BOOLEAN] /\ container' \in BOOLEAN
        /\ written' \in [Streams -> 0 .. Limit + 1] /\ reader' \in [Streams -> Readers]
        /\ \A q \in Streams : reader'[q].data <= written'[q]
        /\ join' \in [Streams -> BOOLEAN]
        /\ seen' \in Observations
    BY DEF CreateChild, Raise, Go, IInv, TypeOK, Labels, Codes
  <2>2. held' \subseteq Handles /\ open' \subseteq Handles /\ misused' \in BOOLEAN
    BY SizesAssumption DEF CreateChild, Raise, Go, locals, Api, IInv, TypeOK, Handles,
       ChildEnds, ParentEnds, Streams, ParentEnd
  <2>3. child' \in Children
    BY DEF CreateChild, IInv, TypeOK, Children
  <2> QED
    BY <2>1, <2>2, <2>3 DEF TypeOK
<1>2. ~misused'
  BY DEF CreateChild, locals, IInv, TypeOK, HandlesAreOwned
<1>3. HandlesAreOwned'
  BY DEF CreateChild, Raise, Go, locals, IInv, HandlesAreOwned, ParentEnd, ChildEnds,
     ParentEnds, Closed
<1>4. ReadersAreJoined'
  BY DEF CreateChild, Raise, Go, IInv, ReadersAreJoined, Active, Early, Running
<1>5. ChildIsWithinReach'
  BY DEF CreateChild, Raise, Go, IInv, TypeOK, ChildIsWithinReach, Alive, ChildEnds, Children,
     Early, Running, Trying, Closed
<1>6. ExitIsKnown'
  BY DEF CreateChild, Raise, Go, IInv, TypeOK, ExitIsKnown, ChildIsWithinReach, Children,
     Early
<1>7. OverflowIsReal'
  BY DEF CreateChild, IInv, OverflowIsReal, ChildIsWithinReach, Early
<1>8. VerdictIsFounded'
  BY DEF CreateChild, Raise, Go, IInv, VerdictIsFounded, Early, Running, Trying
<1>9. ProfileIsKnown'
  BY DEF CreateChild, Raise, Go, IInv, ProfileIsKnown, VerdictIsFounded, Early, Trying
<1> QED
  BY <1>1, <1>2, <1>3, <1>4, <1>5, <1>6, <1>7, <1>8, <1>9 DEF IInv

LEMMA AssignStep == ASSUME IInv, Assign PROVE IInv'
<1>0. (Terminate => Kill) /\ (TerminateJob => KillJob)
  BY TerminationKills DEF IInv
<1>1. TypeOK'
  <2>1. /\ pc' \in Labels /\ op' \in Operations /\ verdict' \in Codes
        /\ errors' \in BOOLEAN /\ result' \in Codes /\ messages' \subseteq {"memory", "cpu"}
    BY DEF Assign, Raise, Go, IInv, TypeOK, Labels, Codes
  <2>2. /\ held' \subseteq Handles /\ open' \subseteq Handles /\ misused' \in BOOLEAN
        /\ profile' \in [registered : BOOLEAN, files : BOOLEAN] /\ container' \in BOOLEAN
    BY DEF Assign, locals, IInv, TypeOK
  <2>3. child' \in Children
    BY SizesAssumption, <1>0 DEF Assign, Raise, Go, locals, Api, Kill, KillJob, Alive, IInv,
       TypeOK, Children, Exits
  <2>4. /\ written' \in [Streams -> 0 .. Limit + 1] /\ reader' \in [Streams -> Readers]
        /\ \A q \in Streams : reader'[q].data <= written'[q]
        /\ join' \in [Streams -> BOOLEAN]
    BY DEF Assign, IInv, TypeOK
  <2>5. seen' \in Observations
    BY SizesAssumption, <1>0 DEF Assign, Raise, Go, locals, Api, Kill, KillJob, Alive, IInv,
       TypeOK, Observations, Exits
  <2> QED
    BY <2>1, <2>2, <2>3, <2>4, <2>5 DEF TypeOK
<1>2. ~misused'
  BY DEF Assign, locals, IInv
<1>3. HandlesAreOwned'
  BY DEF Assign, Raise, Go, locals, IInv, HandlesAreOwned, Active, Closed
<1>4. ReadersAreJoined'
  BY DEF Assign, Raise, Go, IInv, ReadersAreJoined, Active, Running
<1>5. ChildIsWithinReach'
  BY DEF Assign, Raise, Go, locals, IInv, TypeOK, ChildIsWithinReach, HandlesAreOwned,
     Children, Observations, Early, Running, Trying, Closed
<1>6. ExitIsKnown'
  BY <1>0 DEF Assign, Raise, Go, Kill, IInv, TypeOK, ExitIsKnown, ChildIsWithinReach,
     Children, Observations, Early, Running, Trying
<1>7. OverflowIsReal'
  BY DEF Assign, IInv, OverflowIsReal, ChildIsWithinReach
<1>8. VerdictIsFounded'
  BY DEF Assign, Raise, Go, IInv, VerdictIsFounded, Early, Running, Trying
<1>9. ProfileIsKnown'
  BY DEF Assign, Raise, Go, IInv, ProfileIsKnown, VerdictIsFounded, Trying
<1> QED
  BY <1>1, <1>2, <1>3, <1>4, <1>5, <1>6, <1>7, <1>8, <1>9 DEF IInv

LEMMA ResumeStep == ASSUME IInv, Resume PROVE IInv'
<1>0. (Terminate => Kill) /\ (TerminateJob => KillJob)
  BY TerminationKills DEF IInv
<1>1. TypeOK'
  <2>1. /\ pc' \in Labels /\ op' \in Operations /\ verdict' \in Codes
        /\ errors' \in BOOLEAN /\ result' \in Codes /\ messages' \subseteq {"memory", "cpu"}
        /\ profile' \in [registered : BOOLEAN, files : BOOLEAN] /\ container' \in BOOLEAN
        /\ written' \in [Streams -> 0 .. Limit + 1] /\ reader' \in [Streams -> Readers]
        /\ \A q \in Streams : reader'[q].data <= written'[q]
        /\ join' \in [Streams -> BOOLEAN]
        /\ seen' \in Observations
    BY DEF Resume, Raise, Go, IInv, TypeOK, Labels, Codes
  <2>2. held' \subseteq Handles /\ open' \subseteq Handles /\ misused' \in BOOLEAN
    BY SizesAssumption, <1>0 DEF Resume, Raise, Go, locals, Close, Kill, KillJob, Alive,
       Api, IInv, TypeOK, Handles, ChildEnds, ParentEnds, Streams, ParentEnd
  <2>3. child' \in Children
    BY <1>0 DEF Resume, Kill, KillJob, IInv, TypeOK, Children
  <2> QED
    BY <2>1, <2>2, <2>3 DEF TypeOK
<1>2. ~misused'
  BY DEF Resume, locals, Close, IInv, TypeOK, HandlesAreOwned
<1>3. HandlesAreOwned'
  BY DEF Resume, Raise, Go, locals, Close, IInv, HandlesAreOwned, Active, Closed
<1>4. ReadersAreJoined'
  BY DEF Resume, Raise, Go, IInv, ReadersAreJoined, Active, Early
<1>5. ChildIsWithinReach'
  <2>1. /\ child.state = "suspended" /\ child.inJob /\ "process" \in held
        /\ Alive => "job" \in held
        /\ seen.confirmed => child.state = "dead"
        /\ child \in Children /\ seen' = seen
    BY DEF Resume, IInv, TypeOK, HandlesAreOwned, ChildIsWithinReach, Trying
  <2>2. CASE /\ child' = [child EXCEPT !.state = "running"]
             /\ Close({"thread"}) /\ Go("asking")
    <3>1. child'.state = "running" /\ child'.inJob
      BY <2>1, <2>2
    <3> QED
      BY <2>1, <2>2 DEF Close, Go, ChildIsWithinReach, Closed, Early, Alive
  <2>3. CASE pc' = "ending_process" /\ KillJob /\ UNCHANGED held
    BY <2>1, <2>3 DEF ChildIsWithinReach, Early, Trying, Running, Closed
  <2> QED
    BY <1>0, <2>2, <2>3 DEF Resume, Raise, locals
<1>6. ExitIsKnown'
  BY <1>0 DEF Resume, Raise, Go, Kill, KillJob, IInv, TypeOK, ExitIsKnown, ChildIsWithinReach,
     Children, Early, Running, Trying
<1>7. OverflowIsReal'
  BY DEF Resume, IInv, OverflowIsReal, ChildIsWithinReach
<1>8. VerdictIsFounded'
  BY DEF Resume, Raise, Go, IInv, VerdictIsFounded, Early, Running, Trying
<1>9. ProfileIsKnown'
  BY DEF Resume, Raise, Go, IInv, ProfileIsKnown, VerdictIsFounded, Trying
<1> QED
  BY <1>1, <1>2, <1>3, <1>4, <1>5, <1>6, <1>7, <1>8, <1>9 DEF IInv

LEMMA WriteRequestStep == ASSUME IInv, WriteRequest PROVE IInv'
<1>1. TypeOK'
  BY DEF WriteRequest, Go, Close, IInv, TypeOK, Labels
<1>2. ~misused'
  BY DEF WriteRequest, Close, IInv, TypeOK, HandlesAreOwned
<1>3. HandlesAreOwned'
  BY DEF WriteRequest, Go, Close, IInv, HandlesAreOwned, Active, Closed
<1>4. ReadersAreJoined'
  BY DEF WriteRequest, Go, IInv, ReadersAreJoined, Active, Early
<1>5. ChildIsWithinReach'
  BY DEF WriteRequest, Go, Close, IInv, ChildIsWithinReach, Alive, Early, Trying, Closed
<1>6. ExitIsKnown'
  BY DEF WriteRequest, Go, IInv, ExitIsKnown, Overflowed, Trying
<1>7. OverflowIsReal'
  BY DEF WriteRequest, IInv, OverflowIsReal
<1>8. VerdictIsFounded'
  BY DEF WriteRequest, Go, IInv, VerdictIsFounded, Running, Trying
<1>9. ProfileIsKnown'
  BY DEF WriteRequest, Go, IInv, ProfileIsKnown
<1> QED
  BY <1>1, <1>2, <1>3, <1>4, <1>5, <1>6, <1>7, <1>8, <1>9 DEF IInv

LEMMA ProbeReadyStep == ASSUME IInv, ProbeReady PROVE IInv'
<1>1. TypeOK'
  BY DEF ProbeReady, Raise, Go, locals, IInv, TypeOK, Labels, Codes
<1>2. ~misused'
  BY DEF ProbeReady, locals, IInv
<1>3. HandlesAreOwned'
  BY DEF ProbeReady, Raise, Go, locals, IInv, HandlesAreOwned, Active, Closed
<1>4. ReadersAreJoined'
  BY DEF ProbeReady, Raise, Go, IInv, ReadersAreJoined, Active, Early, Running
<1>5. ChildIsWithinReach'
  BY DEF ProbeReady, Raise, Go, locals, IInv, ChildIsWithinReach, Alive, Early, Running,
     Trying, Closed
<1>6. ExitIsKnown'
  BY DEF ProbeReady, Raise, Go, IInv, ExitIsKnown, Running, Trying
<1>7. OverflowIsReal'
  BY DEF ProbeReady, IInv, OverflowIsReal
<1>8. VerdictIsFounded'
  BY DEF ProbeReady, Raise, Go, IInv, VerdictIsFounded, ExitIsKnown, OverflowIsReal, Early,
     Running, Trying
<1>9. ProfileIsKnown'
  BY DEF ProbeReady, Raise, Go, IInv, ProfileIsKnown, VerdictIsFounded, Running, Trying
<1> QED
  BY <1>1, <1>2, <1>3, <1>4, <1>5, <1>6, <1>7, <1>8, <1>9 DEF IInv

LEMMA ProbeCloseJobStep == ASSUME IInv, ProbeCloseJob PROVE IInv'
<1>0. (Terminate => Kill) /\ (TerminateJob => KillJob)
  BY TerminationKills DEF IInv
<1>1. TypeOK'
  <2>1. /\ pc' \in Labels /\ op' \in Operations /\ verdict' \in Codes
        /\ errors' \in BOOLEAN /\ result' \in Codes /\ messages' \subseteq {"memory", "cpu"}
    BY DEF ProbeCloseJob, Raise, Go, IInv, TypeOK, Labels, Codes
  <2>2. /\ held' \subseteq Handles /\ open' \subseteq Handles /\ misused' \in BOOLEAN
        /\ profile' \in [registered : BOOLEAN, files : BOOLEAN] /\ container' \in BOOLEAN
    BY SizesAssumption, <1>0 DEF ProbeCloseJob, Raise, Go, locals, Close, Kill, KillJob,
       Alive, Api, IInv, TypeOK, Handles, ChildEnds, ParentEnds, Streams, ParentEnd
  <2>3. child' \in Children
    BY <1>0 DEF ProbeCloseJob, Kill, KillJob, IInv, TypeOK
  <2>4. /\ written' \in [Streams -> 0 .. Limit + 1] /\ reader' \in [Streams -> Readers]
        /\ \A q \in Streams : reader'[q].data <= written'[q]
        /\ join' \in [Streams -> BOOLEAN]
    BY DEF ProbeCloseJob, IInv, TypeOK
  <2>5. seen' \in Observations
    BY SizesAssumption, <1>0 DEF ProbeCloseJob, Raise, Go, locals, Close, Kill, KillJob,
       Alive, Api, IInv, TypeOK, Observations, Exits
  <2> QED
    BY <2>1, <2>2, <2>3, <2>4, <2>5 DEF TypeOK
<1>2. ~misused'
  BY DEF ProbeCloseJob, locals, Close, Alive, IInv, TypeOK, HandlesAreOwned,
     ChildIsWithinReach, Trying, Running
<1>3. HandlesAreOwned'
  BY DEF ProbeCloseJob, Raise, Go, locals, Close, IInv, HandlesAreOwned, Active, ParentEnd,
     Closed
<1>4. ReadersAreJoined'
  BY DEF ProbeCloseJob, Raise, Go, IInv, TypeOK, ReadersAreJoined, Active, Observations,
     Early, Running
<1>5. ChildIsWithinReach'
  BY <1>0 DEF ProbeCloseJob, Raise, Go, locals, Close, Kill, KillJob, Alive, IInv, TypeOK,
     ChildIsWithinReach, HandlesAreOwned, Observations, Early, Running, Trying, Closed
<1>6. ExitIsKnown'
  <2>1. /\ op = "probe" /\ ~seen.timedOut /\ op' = op /\ messages' = messages
        /\ reader' = reader /\ child.inJob /\ seen \in Observations
    BY DEF ProbeCloseJob, IInv, TypeOK, ExitIsKnown, ChildIsWithinReach, Early, Running,
       Trying
  <2>2. CASE Alive /\ KillJob /\ seen' = [seen EXCEPT !.confirmed = child'.state = "dead"]
    <3>1. /\ seen'.timedOut = seen.timedOut /\ seen'.exit = seen.exit
          /\ seen'.messages = seen.messages
      BY <2>2
    <3>2. \/ pc' = "waiting" /\ child'.state = "dead"
          \/ pc' = "ending_process"
      BY DEF ProbeCloseJob, Go, Raise
    <3> QED
      BY <2>1, <2>2, <3>2 DEF Kill, KillJob, IInv, ExitIsKnown, Alive
  <2>3. CASE pc' = "ending_process" /\ UNCHANGED << child, seen >>
    BY <2>1, <2>3 DEF IInv, ExitIsKnown
  <2> QED
    BY <1>0, <2>2, <2>3 DEF ProbeCloseJob, Raise
<1>7. OverflowIsReal'
  BY <1>0 DEF ProbeCloseJob, Kill, KillJob, IInv, OverflowIsReal
<1>8. VerdictIsFounded'
  BY DEF ProbeCloseJob, Raise, Go, IInv, VerdictIsFounded, ExitIsKnown, Early, Running, Trying
<1>9. ProfileIsKnown'
  BY DEF ProbeCloseJob, Raise, Go, IInv, ProfileIsKnown, VerdictIsFounded, Running, Trying
<1> QED
  BY <1>1, <1>2, <1>3, <1>4, <1>5, <1>6, <1>7, <1>8, <1>9 DEF IInv

LEMMA WaitStep == ASSUME IInv, Wait PROVE IInv'
<1>0. (Terminate => Kill) /\ (TerminateJob => KillJob)
  BY TerminationKills DEF IInv
<1>1. TypeOK'
  <2>1. /\ pc' \in Labels /\ op' \in Operations /\ verdict' \in Codes
        /\ errors' \in BOOLEAN /\ result' \in Codes /\ messages' \subseteq {"memory", "cpu"}
    BY DEF Wait, Raise, Go, IInv, TypeOK, Labels, Codes
  <2>2. /\ held' \subseteq Handles /\ open' \subseteq Handles /\ misused' \in BOOLEAN
        /\ profile' \in [registered : BOOLEAN, files : BOOLEAN] /\ container' \in BOOLEAN
    BY DEF Wait, locals, IInv, TypeOK
  <2>3. child' \in Children
    BY <1>0 DEF Wait, Kill, KillJob, IInv, TypeOK
  <2>4. /\ written' \in [Streams -> 0 .. Limit + 1] /\ reader' \in [Streams -> Readers]
        /\ \A q \in Streams : reader'[q].data <= written'[q]
        /\ join' \in [Streams -> BOOLEAN]
    BY DEF Wait, IInv, TypeOK
  <2>5. seen' \in Observations
    BY SizesAssumption, <1>0 DEF Wait, Raise, Go, locals, Kill, KillJob, Alive, Api, IInv,
       TypeOK, Observations, Exits
  <2> QED
    BY <2>1, <2>2, <2>3, <2>4, <2>5 DEF TypeOK
<1>2. ~misused'
  BY DEF Wait, locals, IInv
<1>3. HandlesAreOwned'
  BY DEF Wait, Raise, Go, locals, IInv, HandlesAreOwned, Active, Closed
<1>4. ReadersAreJoined'
  BY DEF Wait, Raise, Go, IInv, TypeOK, ReadersAreJoined, Active, Observations, Early, Running
<1>5. ChildIsWithinReach'
  BY <1>0 DEF Wait, Raise, Go, locals, Kill, KillJob, Alive, IInv, TypeOK, ChildIsWithinReach,
     Observations, Early, Running, Trying, Closed
<1>6. ExitIsKnown'
  BY <1>0 DEF Wait, Raise, Go, Kill, KillJob, Alive, IInv, TypeOK, ExitIsKnown,
     ChildIsWithinReach, Overflowed, Children, Observations, Early, Running, Trying
<1>7. OverflowIsReal'
  BY <1>0 DEF Wait, Kill, KillJob, IInv, OverflowIsReal
<1>8. VerdictIsFounded'
  BY DEF Wait, Raise, Go, IInv, VerdictIsFounded, Early, Running, Trying
<1>9. ProfileIsKnown'
  BY DEF Wait, Raise, Go, IInv, ProfileIsKnown, VerdictIsFounded, Running, Trying
<1> QED
  BY <1>1, <1>2, <1>3, <1>4, <1>5, <1>6, <1>7, <1>8, <1>9 DEF IInv

LEMMA ExamineStep == ASSUME IInv, Examine PROVE IInv'
<1>1. TypeOK'
  <2>1. pc' \in Labels /\ op' \in Operations /\ verdict' \in Codes
    BY DEF Examine, Raise, Go, IInv, TypeOK, Labels, Codes
  <2>2. errors' \in BOOLEAN /\ result' \in Codes /\ messages' \subseteq {"memory", "cpu"}
    BY DEF Examine, IInv, TypeOK
  <2>3. held' \subseteq Handles /\ open' \subseteq Handles /\ misused' \in BOOLEAN
    BY SizesAssumption DEF Examine, Raise, Go, locals, Close, Api, IInv, TypeOK, Handles,
       ChildEnds, ParentEnds, Streams, ParentEnd
  <2>4. profile' \in [registered : BOOLEAN, files : BOOLEAN] /\ container' \in BOOLEAN
    BY DEF Examine, IInv, TypeOK
  <2>5. child' \in Children
    BY DEF Examine, IInv, TypeOK
  <2>6. /\ written' \in [Streams -> 0 .. Limit + 1] /\ reader' \in [Streams -> Readers]
        /\ \A q \in Streams : reader'[q].data <= written'[q]
    BY DEF Examine, IInv, TypeOK
  <2>7. join' \in [Streams -> BOOLEAN]
    BY DEF Examine, IInv, TypeOK
  <2>8. seen' \in Observations
    <3>1. seen' \in {seen, [seen EXCEPT !.exit = child.exit, !.messages = messages]}
      BY DEF Examine
    <3>2. child.exit \in Exits /\ messages \in SUBSET {"memory", "cpu"}
      BY DEF IInv, TypeOK, Children
    <3> QED
      BY <3>1, <3>2 DEF IInv, TypeOK, Observations
  <2> QED
    BY <2>1, <2>2, <2>3, <2>4, <2>5, <2>6, <2>7, <2>8 DEF TypeOK
<1>2. ~misused'
  BY DEF Examine, locals, Close, IInv, TypeOK, HandlesAreOwned
<1>3. HandlesAreOwned'
  BY DEF Examine, Raise, Go, locals, Close, IInv, HandlesAreOwned, Active, Closed
<1>4. ReadersAreJoined'
  BY SizesAssumption DEF Examine, Raise, Go, locals, Close, Api, IInv, TypeOK,
     ReadersAreJoined, Active, AllEnded, Ended, Alive, ChildIsWithinReach, Children, Readers,
     Observations, Streams, Early, Running, Trying, Closed
<1>5. ChildIsWithinReach'
  BY SizesAssumption DEF Examine, Raise, Go, locals, Close, Api, IInv, TypeOK, OverflowIsReal,
     ChildIsWithinReach, HandlesAreOwned, ExitIsKnown, VerdictIsFounded, Complete, Alive,
     ChildEnds, ParentEnds, Children, Readers, Observations, Streams, Early, Running, Trying,
     Closed
<1>6. ExitIsKnown'
  BY SizesAssumption DEF Examine, Raise, Go, locals, Close, Api, IInv, TypeOK, ExitIsKnown,
     ChildIsWithinReach, OverflowIsReal, VerdictIsFounded, Complete, Overflowed, Alive, Exits,
     Children, Readers, Observations, Streams, Early, Running, Trying, Closed
<1>7. OverflowIsReal'
  BY DEF Examine, IInv, OverflowIsReal
<1>8. VerdictIsFounded'
  BY DEF Examine, Raise, Go, IInv, VerdictIsFounded, Early, Running, Trying
<1>9. ProfileIsKnown'
  BY DEF Examine, Raise, Go, IInv, ProfileIsKnown, VerdictIsFounded, Running, Trying
<1> QED
  BY <1>1, <1>2, <1>3, <1>4, <1>5, <1>6, <1>7, <1>8, <1>9 DEF IInv

LEMMA JoinReadersStep == ASSUME IInv, JoinReaders PROVE IInv'
<1>1. TypeOK'
  <2>1. /\ pc' \in Labels /\ op' \in Operations /\ verdict' \in Codes
        /\ errors' \in BOOLEAN /\ result' \in Codes /\ messages' \subseteq {"memory", "cpu"}
    BY DEF JoinReaders, Go, IInv, TypeOK, Labels
  <2>2. /\ held' \subseteq Handles /\ open' \subseteq Handles /\ misused' \in BOOLEAN
        /\ profile' \in [registered : BOOLEAN, files : BOOLEAN] /\ container' \in BOOLEAN
    BY DEF JoinReaders, locals, IInv, TypeOK
  <2>3. child' \in Children
    BY DEF JoinReaders, IInv, TypeOK
  <2>4. /\ written' \in [Streams -> 0 .. Limit + 1] /\ reader' \in [Streams -> Readers]
        /\ \A q \in Streams : reader'[q].data <= written'[q]
        /\ join' \in [Streams -> BOOLEAN]
    BY DEF JoinReaders, IInv, TypeOK
  <2>5. seen' \in Observations
    BY SizesAssumption DEF JoinReaders, Raise, Go, locals, Ended, Alive, IInv, TypeOK,
       Observations, Exits
  <2> QED
    BY <2>1, <2>2, <2>3, <2>4, <2>5 DEF TypeOK
<1>2. ~misused'
  BY DEF JoinReaders, locals, IInv
<1>3. HandlesAreOwned'
  BY DEF JoinReaders, Go, locals, IInv, HandlesAreOwned, Active, Closed
<1>4. ReadersAreJoined'
  BY DEF JoinReaders, Go, Ended, IInv, ReadersAreJoined, Active, AllEnded, Early, Running
<1>5. ChildIsWithinReach'
  BY DEF JoinReaders, Go, locals, Alive, IInv, ChildIsWithinReach, Early, Running, Trying,
     Closed
<1>6. ExitIsKnown'
  BY DEF JoinReaders, Go, IInv, ExitIsKnown, Overflowed, Running, Trying
<1>7. OverflowIsReal'
  BY DEF JoinReaders, IInv, OverflowIsReal
<1>8. VerdictIsFounded'
  BY DEF JoinReaders, Go, IInv, VerdictIsFounded, Running, Trying
<1>9. ProfileIsKnown'
  BY DEF JoinReaders, Go, IInv, ProfileIsKnown
<1> QED
  BY <1>1, <1>2, <1>3, <1>4, <1>5, <1>6, <1>7, <1>8, <1>9 DEF IInv

LEMMA JudgeStep == ASSUME IInv, Judge PROVE IInv'
<1>1. TypeOK'
  BY DEF Judge, Raise, Go, locals, Judgement, IInv, TypeOK, Labels, Codes
<1>2. ~misused'
  BY DEF Judge, locals, IInv
<1>3. HandlesAreOwned'
  BY DEF Judge, Raise, Go, locals, IInv, HandlesAreOwned, Active, Closed
<1>4. ReadersAreJoined'
  BY DEF Judge, Raise, Go, IInv, ReadersAreJoined, Active, AllEnded, Ended, Early, Running
<1>5. ChildIsWithinReach'
  BY DEF Judge, Raise, Go, locals, IInv, ChildIsWithinReach, Alive, Early, Running, Trying,
     Closed
<1>6. ExitIsKnown'
  BY DEF Judge, Raise, Go, Judgement, IInv, ExitIsKnown, Early, Running, Trying
<1>7. OverflowIsReal'
  BY DEF Judge, IInv, OverflowIsReal
<1>8. VerdictIsFounded'
  <2>1. /\ UNCHANGED << op, child, messages, written, reader, seen, errors, result >>
        /\ pc' \in {"reading", "ending_process"} /\ verdict = "none"
        /\ seen.alive \/ AllEnded
        /\ (~seen.timedOut => seen.exit = child.exit /\ child.state = "dead")
    BY DEF Judge, Go, Raise, IInv, ExitIsKnown, VerdictIsFounded, ReadersAreJoined, Running,
       Trying
  <2>2. CASE Overflowed
    <3>1. pc' = "ending_process" /\ verdict' = "OUTPUT_LIMIT"
      BY <2>2 DEF Judge, Judgement, Raise
    <3> QED
      BY <2>1, <2>2, <3>1 DEF IInv, OverflowIsReal, VerdictIsFounded, Overflowed, Trying,
         Early, Running
  <2>3. CASE ~Overflowed /\ seen.alive
    <3>1. pc' = "ending_process" /\ verdict' = "EXECUTION"
      BY <2>3 DEF Judge, Judgement, Raise
    <3> QED
      BY <2>1, <2>3, <3>1 DEF VerdictIsFounded, Trying, Early, Running
  <2>4. CASE ~Overflowed /\ ~seen.alive /\ seen.timedOut
    <3>1. pc' = "ending_process" /\ verdict' = "TIMEOUT"
      BY <2>4 DEF Judge, Judgement, Raise
    <3> QED
      BY <2>1, <2>4, <3>1 DEF VerdictIsFounded, AllEnded, Ended, Overflowed, Trying,
         Early, Running
  <2>5. CASE ~Overflowed /\ ~seen.alive /\ ~seen.timedOut /\ Failed
    <3>1. /\ pc' = "ending_process"
          /\ \/ verdict' = "CPU" /\ "cpu" \in seen.messages
             \/ verdict' = "MEMORY" /\ "cpu" \notin seen.messages /\ "memory" \in seen.messages
             \/ verdict' = "EXECUTION"
      BY <2>5 DEF Judge, Judgement, Raise
    <3>2. /\ seen.messages \subseteq messages
          /\ ("cpu" \in messages => child.exit = "cpu")
          /\ op # "probe" /\ child.exit # "zero" /\ child.exit # "none" /\ child.exit # "killed"
      BY <2>5, OperationsAssumption DEF Failed, Judge, IInv, TypeOK, ExitIsKnown, Trying,
         Running
    <3>3. child.exit \in Exits
      BY DEF IInv, TypeOK, Children
    <3> QED
      BY <2>1, <2>5, <3>1, <3>2, <3>3 DEF VerdictIsFounded, AllEnded, Ended, Overflowed,
         Exits, Trying, Early, Running
  <2>6. CASE ~Overflowed /\ ~seen.alive /\ ~seen.timedOut /\ ~Failed
    <3>1. \/ pc' = "ending_process" /\ verdict' \in {"EXECUTION", "REPORTED"}
          \/ /\ pc' = "reading" /\ verdict' = verdict
             /\ reader["stdout"].data = Response
      BY <2>6 DEF Judge, Judgement, Raise, Go
    <3>2. /\ op = "probe" => child.exit = "killed"
          /\ op # "probe" => child.exit = "zero"
      BY <2>6 DEF Failed, Judge, IInv, ExitIsKnown
    <3> QED
      BY <2>1, <2>6, <3>1, <3>2, OperationsAssumption DEF IInv, TypeOK, VerdictIsFounded,
         Complete, AllEnded, Ended, Overflowed, Trying, Early, Running
  <2> QED
    BY <2>2, <2>3, <2>4, <2>5, <2>6
<1>9. ProfileIsKnown'
  BY DEF Judge, Raise, Go, IInv, ProfileIsKnown, VerdictIsFounded, Running, Trying
<1> QED
  BY <1>1, <1>2, <1>3, <1>4, <1>5, <1>6, <1>7, <1>8, <1>9 DEF IInv

LEMMA ReadArtifactsStep == ASSUME IInv, ReadArtifacts PROVE IInv'
<1>0. (Terminate => Kill) /\ (TerminateJob => KillJob)
  BY TerminationKills DEF IInv
<1>1. TypeOK'
  <2>1. /\ pc' \in Labels /\ op' \in Operations /\ verdict' \in Codes
        /\ errors' \in BOOLEAN /\ result' \in Codes /\ messages' \subseteq {"memory", "cpu"}
        /\ profile' \in [registered : BOOLEAN, files : BOOLEAN] /\ container' \in BOOLEAN
        /\ written' \in [Streams -> 0 .. Limit + 1] /\ reader' \in [Streams -> Readers]
        /\ \A q \in Streams : reader'[q].data <= written'[q]
        /\ join' \in [Streams -> BOOLEAN]
        /\ seen' \in Observations
    BY DEF ReadArtifacts, Raise, IInv, TypeOK, Labels, Codes
  <2>2. held' \subseteq Handles /\ open' \subseteq Handles /\ misused' \in BOOLEAN
    BY SizesAssumption, <1>0 DEF ReadArtifacts, Raise, Go, locals, Close, Kill, KillJob,
       Alive, IInv, TypeOK, Handles, ChildEnds, ParentEnds, Streams, ParentEnd
  <2>3. child' \in Children
    BY <1>0 DEF ReadArtifacts, Kill, KillJob, IInv, TypeOK
  <2> QED
    BY <2>1, <2>2, <2>3 DEF TypeOK
<1>2. ~misused'
  BY DEF ReadArtifacts, locals, Close, IInv, TypeOK, HandlesAreOwned
<1>3. HandlesAreOwned'
  BY DEF ReadArtifacts, Raise, locals, Close, IInv, HandlesAreOwned, Active, Closed
<1>4. ReadersAreJoined'
  BY DEF ReadArtifacts, Raise, IInv, ReadersAreJoined, Active, Early, Running
<1>5. ChildIsWithinReach'
  BY <1>0 DEF ReadArtifacts, Raise, Kill, KillJob, Alive, IInv, ChildIsWithinReach,
     ExitIsKnown, VerdictIsFounded, Complete, Early, Running, Trying
<1>6. ExitIsKnown'
  BY <1>0 DEF ReadArtifacts, Raise, Kill, KillJob, Alive, IInv, ExitIsKnown, VerdictIsFounded,
     Complete
<1>7. OverflowIsReal'
  BY <1>0 DEF ReadArtifacts, Kill, KillJob, IInv, OverflowIsReal
<1>8. VerdictIsFounded'
  BY <1>0 DEF ReadArtifacts, Raise, Kill, KillJob, Alive, IInv, VerdictIsFounded, Complete,
     ExitIsKnown, AllEnded, Ended, Overflowed, Early, Running, Trying
<1>9. ProfileIsKnown'
  BY DEF ReadArtifacts, Raise, IInv, ProfileIsKnown, VerdictIsFounded, Running, Trying
<1> QED
  BY <1>1, <1>2, <1>3, <1>4, <1>5, <1>6, <1>7, <1>8, <1>9 DEF IInv

LEMMA EndProcessStep == ASSUME IInv, EndProcess PROVE IInv'
<1>0. (Terminate => Kill) /\ (TerminateJob => KillJob)
  BY TerminationKills DEF IInv
<1>1. TypeOK'
  <2>1. pc' \in Labels /\ op' \in Operations /\ verdict' \in Codes
    BY DEF EndProcess, Go, IInv, TypeOK, Labels
  <2>2. errors' \in BOOLEAN /\ result' \in Codes /\ messages' \subseteq {"memory", "cpu"}
    BY SizesAssumption, <1>0 DEF EndProcess, Raise, Go, locals, Kill, KillJob, Alive, IInv,
       TypeOK, Codes
  <2>3. held' \subseteq Handles /\ open' \subseteq Handles /\ misused' \in BOOLEAN
    BY DEF EndProcess, locals, IInv, TypeOK
  <2>4. profile' \in [registered : BOOLEAN, files : BOOLEAN] /\ container' \in BOOLEAN
    BY DEF EndProcess, IInv, TypeOK
  <2>5. child' \in Children
    BY <1>0 DEF EndProcess, Kill, IInv, TypeOK
  <2>6. /\ written' \in [Streams -> 0 .. Limit + 1] /\ reader' \in [Streams -> Readers]
        /\ \A q \in Streams : reader'[q].data <= written'[q]
    BY DEF EndProcess, IInv, TypeOK
  <2>7. join' \in [Streams -> BOOLEAN]
    BY DEF EndProcess, IInv, TypeOK
  <2>8. seen' \in Observations
    <3>1. \/ seen' = seen
          \/ seen' = [seen EXCEPT !.confirmed = child'.state = "dead"]
      BY DEF EndProcess
    <3>2. (child'.state = "dead") \in BOOLEAN
      OBVIOUS
    <3> QED
      BY <3>1, <3>2 DEF IInv, TypeOK, Observations
  <2> QED
    BY <2>1, <2>2, <2>3, <2>4, <2>5, <2>6, <2>7, <2>8 DEF TypeOK
<1>2. ~misused'
  BY DEF EndProcess, locals, IInv
<1>3. HandlesAreOwned'
  BY DEF EndProcess, Go, locals, IInv, HandlesAreOwned, Active, Closed
<1>4. ReadersAreJoined'
  BY DEF EndProcess, Go, IInv, TypeOK, ReadersAreJoined, Active, Observations, Early, Running
<1>5. ChildIsWithinReach'
  <2>1. pc' = "ending_job" /\ UNCHANGED << held >>
    BY DEF EndProcess, Go, locals
  <2>2. CASE /\ Kill
             /\ seen' = [seen EXCEPT !.confirmed = child'.state = "dead"]
             /\ errors' = (errors \/ child'.state # "dead")
    <3>1. seen'.confirmed = (child'.state = "dead")
      BY <2>2
    <3> QED
      BY <2>1, <2>2, <3>1 DEF ChildIsWithinReach, Kill, Alive, Early, Running, Trying,
         Closed
  <2>3. CASE /\ UNCHANGED << child, seen, errors >>
             /\ ~(/\ "process" \in held /\ ~seen.confirmed
                  /\ ~child.inJob \/ "job" \notin held)
    BY <2>1, <2>3 DEF EndProcess, IInv, ChildIsWithinReach, Alive, Early, Running, Trying,
       Closed
  <2> QED
    BY <1>0, <2>2, <2>3 DEF EndProcess
<1>6. ExitIsKnown'
  BY <1>0 DEF EndProcess, Go, Kill, Alive, IInv, TypeOK, ExitIsKnown, Observations, Early,
     Running, Trying
<1>7. OverflowIsReal'
  BY <1>0 DEF EndProcess, Kill, IInv, OverflowIsReal
<1>8. VerdictIsFounded'
  BY <1>0 DEF EndProcess, Go, Kill, Alive, IInv, TypeOK, VerdictIsFounded, Complete,
     ExitIsKnown, AllEnded, Ended, Overflowed, Observations, Early, Running, Trying
<1>9. ProfileIsKnown'
  BY DEF EndProcess, Go, IInv, ProfileIsKnown
<1> QED
  BY <1>1, <1>2, <1>3, <1>4, <1>5, <1>6, <1>7, <1>8, <1>9 DEF IInv

LEMMA EndJobStep == ASSUME IInv, EndJob PROVE IInv'
<1>0. (Terminate => Kill) /\ (TerminateJob => KillJob)
  BY TerminationKills DEF IInv
<1>1. TypeOK'
  <2>1. /\ pc' \in Labels /\ op' \in Operations /\ verdict' \in Codes
        /\ errors' \in BOOLEAN /\ result' \in Codes /\ messages' \subseteq {"memory", "cpu"}
    BY SizesAssumption, <1>0 DEF EndJob, Raise, Go, locals, Kill, KillJob, Alive, Api, IInv,
       TypeOK, Labels, Codes
  <2>2. /\ held' \subseteq Handles /\ open' \subseteq Handles /\ misused' \in BOOLEAN
        /\ profile' \in [registered : BOOLEAN, files : BOOLEAN] /\ container' \in BOOLEAN
    BY DEF EndJob, locals, IInv, TypeOK
  <2>3. child' \in Children
    BY <1>0 DEF EndJob, Kill, KillJob, IInv, TypeOK
  <2>4. /\ written' \in [Streams -> 0 .. Limit + 1] /\ reader' \in [Streams -> Readers]
        /\ \A q \in Streams : reader'[q].data <= written'[q]
        /\ join' \in [Streams -> BOOLEAN]
    BY DEF EndJob, IInv, TypeOK
  <2>5. seen' \in Observations
    BY DEF EndJob, IInv, TypeOK
  <2> QED
    BY <2>1, <2>2, <2>3, <2>4, <2>5 DEF TypeOK
<1>2. ~misused'
  BY DEF EndJob, locals, IInv
<1>3. HandlesAreOwned'
  BY DEF EndJob, Go, locals, IInv, HandlesAreOwned, Active, Closed
<1>4. ReadersAreJoined'
  BY DEF EndJob, Go, IInv, ReadersAreJoined, Active, Early, Running
<1>5. ChildIsWithinReach'
  BY <1>0 DEF EndJob, Go, Kill, KillJob, Alive, IInv, ChildIsWithinReach, Early, Running,
     Trying, Closed
<1>6. ExitIsKnown'
  BY <1>0 DEF EndJob, Go, Kill, KillJob, Alive, IInv, ExitIsKnown, Early, Running, Trying
<1>7. OverflowIsReal'
  BY <1>0 DEF EndJob, Kill, KillJob, IInv, OverflowIsReal
<1>8. VerdictIsFounded'
  BY <1>0 DEF EndJob, Go, Kill, KillJob, Alive, IInv, VerdictIsFounded, Complete, ExitIsKnown,
     AllEnded, Ended, Overflowed, Early, Running, Trying
<1>9. ProfileIsKnown'
  BY DEF EndJob, Go, IInv, ProfileIsKnown
<1> QED
  BY <1>1, <1>2, <1>3, <1>4, <1>5, <1>6, <1>7, <1>8, <1>9 DEF IInv

LEMMA EmptyJobStep == ASSUME IInv, EmptyJob PROVE IInv'
<1>1. TypeOK'
  BY DEF EmptyJob, Go, locals, IInv, TypeOK, Labels
<1>2. ~misused'
  BY DEF EmptyJob, locals, IInv
<1>3. HandlesAreOwned'
  BY DEF EmptyJob, Go, locals, IInv, HandlesAreOwned, Active, Closed
<1>4. ReadersAreJoined'
  BY DEF EmptyJob, Go, IInv, ReadersAreJoined, Active, Early, Running
<1>5. ChildIsWithinReach'
  BY DEF EmptyJob, Go, Alive, IInv, TypeOK, ChildIsWithinReach, Children, Early, Running,
     Trying
<1>6. ExitIsKnown'
  BY DEF EmptyJob, Go, IInv, ExitIsKnown, Early, Running, Trying
<1>7. OverflowIsReal'
  BY DEF EmptyJob, IInv, OverflowIsReal
<1>8. VerdictIsFounded'
  BY DEF EmptyJob, Go, IInv, VerdictIsFounded, Complete, AllEnded, Ended, Overflowed, Early,
     Running, Trying
<1>9. ProfileIsKnown'
  BY DEF EmptyJob, Go, IInv, ProfileIsKnown
<1> QED
  BY <1>1, <1>2, <1>3, <1>4, <1>5, <1>6, <1>7, <1>8, <1>9 DEF IInv

LEMMA CloseHandlesStep == ASSUME IInv, CloseHandles PROVE IInv'
<1>0. (Terminate => Kill) /\ (TerminateJob => KillJob)
  BY TerminationKills DEF IInv
<1>1. TypeOK'
  BY <1>0 DEF CloseHandles, Go, Close, Kill, KillJob, IInv, TypeOK, Labels
<1>2. ~misused'
  BY DEF CloseHandles, Close, IInv, TypeOK, HandlesAreOwned
<1>3. HandlesAreOwned'
  BY DEF CloseHandles, Go, Close, IInv, HandlesAreOwned, Active
<1>4. ReadersAreJoined'
  BY DEF CloseHandles, Go, IInv, ReadersAreJoined, Active, Early, Running
<1>5. ChildIsWithinReach'
  BY <1>0 DEF CloseHandles, Go, Kill, KillJob, Alive, IInv, ChildIsWithinReach, Early,
     Running, Trying
<1>6. ExitIsKnown'
  BY <1>0 DEF CloseHandles, Go, Kill, KillJob, Alive, IInv, ExitIsKnown, Early, Running,
     Trying
<1>7. OverflowIsReal'
  BY <1>0 DEF CloseHandles, Kill, KillJob, IInv, OverflowIsReal
<1>8. VerdictIsFounded'
  BY <1>0 DEF CloseHandles, Go, Kill, KillJob, Alive, IInv, VerdictIsFounded, Complete,
     ExitIsKnown, AllEnded, Ended, Overflowed, Early, Running, Trying
<1>9. ProfileIsKnown'
  BY DEF CloseHandles, Go, IInv, ProfileIsKnown
<1> QED
  BY <1>1, <1>2, <1>3, <1>4, <1>5, <1>6, <1>7, <1>8, <1>9 DEF IInv

LEMMA JoinAgainStep == ASSUME IInv, JoinAgain PROVE IInv'
<1>1. TypeOK'
  BY DEF JoinAgain, Go, locals, IInv, TypeOK, Labels
<1>2. ~misused'
  BY DEF JoinAgain, locals, IInv
<1>3. HandlesAreOwned'
  BY DEF JoinAgain, Go, locals, IInv, HandlesAreOwned, Active, Closed
<1>4. ReadersAreJoined'
  BY DEF JoinAgain, Go, Ended, IInv, TypeOK, ReadersAreJoined, Active, Early, Running
<1>5. ChildIsWithinReach'
  BY DEF JoinAgain, Go, Alive, IInv, TypeOK, ChildIsWithinReach, Early, Running, Trying,
     Closed
<1>6. ExitIsKnown'
  BY DEF JoinAgain, Go, IInv, ExitIsKnown, Early, Running, Trying
<1>7. OverflowIsReal'
  BY DEF JoinAgain, IInv, OverflowIsReal
<1>8. VerdictIsFounded'
  BY DEF JoinAgain, Go, Ended, IInv, VerdictIsFounded, Complete, AllEnded, Overflowed, Early,
     Running, Trying
<1>9. ProfileIsKnown'
  BY DEF JoinAgain, Go, IInv, ProfileIsKnown
<1> QED
  BY <1>1, <1>2, <1>3, <1>4, <1>5, <1>6, <1>7, <1>8, <1>9 DEF IInv

LEMMA EraseProfileStep == ASSUME IInv, EraseProfile PROVE IInv'
<1>1. TypeOK'
  <2>1. pc' \in Labels /\ op' \in Operations /\ verdict' \in Codes
    BY DEF EraseProfile, Go, IInv, TypeOK, Labels
  <2>2. errors' \in BOOLEAN /\ result' \in Codes /\ messages' \subseteq {"memory", "cpu"}
    BY SizesAssumption DEF EraseProfile, Raise, Go, locals, IInv, TypeOK, Codes
  <2>3. held' \subseteq Handles /\ open' \subseteq Handles /\ misused' \in BOOLEAN
    BY DEF EraseProfile, locals, IInv, TypeOK
  <2>4. profile' \in [registered : BOOLEAN, files : BOOLEAN] /\ container' \in BOOLEAN
    <3>1. \/ profile' \in {profile, [registered |-> FALSE, files |-> FALSE]}
          \/ profile' \in [registered : BOOLEAN, files : BOOLEAN]
      BY DEF EraseProfile
    <3>2. container' = container
      BY DEF EraseProfile
    <3>3. [registered |-> FALSE, files |-> FALSE] \in [registered : BOOLEAN, files : BOOLEAN]
      OBVIOUS
    <3>4. profile' \in [registered : BOOLEAN, files : BOOLEAN]
      BY <3>1, <3>3 DEF IInv, TypeOK
    <3> QED
      BY <3>2, <3>4 DEF IInv, TypeOK
  <2>5. child' \in Children
    BY DEF EraseProfile, IInv, TypeOK
  <2>6. /\ written' \in [Streams -> 0 .. Limit + 1] /\ reader' \in [Streams -> Readers]
        /\ \A q \in Streams : reader'[q].data <= written'[q]
    BY DEF EraseProfile, IInv, TypeOK
  <2>7. join' \in [Streams -> BOOLEAN]
    BY DEF EraseProfile, IInv, TypeOK
  <2>8. seen' \in Observations
    BY DEF EraseProfile, IInv, TypeOK
  <2> QED
    BY <2>1, <2>2, <2>3, <2>4, <2>5, <2>6, <2>7, <2>8 DEF TypeOK
<1>2. ~misused'
  BY DEF EraseProfile, locals, IInv
<1>3. HandlesAreOwned'
  BY DEF EraseProfile, Go, locals, IInv, HandlesAreOwned, Active, Closed
<1>4. ReadersAreJoined'
  BY DEF EraseProfile, Go, IInv, ReadersAreJoined, Active, Ended, Early, Running
<1>5. ChildIsWithinReach'
  BY DEF EraseProfile, Go, IInv, ChildIsWithinReach, Alive, Early, Running, Trying, Closed
<1>6. ExitIsKnown'
  BY DEF EraseProfile, Go, IInv, ExitIsKnown, Early, Running, Trying
<1>7. OverflowIsReal'
  BY DEF EraseProfile, IInv, OverflowIsReal
<1>8. VerdictIsFounded'
  BY DEF EraseProfile, Go, IInv, VerdictIsFounded, Complete, AllEnded, Ended, Overflowed,
     Early, Running, Trying
<1>9. ProfileIsKnown'
  BY DEF EraseProfile, Go, IInv, ProfileIsKnown
<1> QED
  BY <1>1, <1>2, <1>3, <1>4, <1>5, <1>6, <1>7, <1>8, <1>9 DEF IInv

LEMMA FinishStep == ASSUME IInv, Finish PROVE IInv'
<1>1. TypeOK'
  BY DEF Finish, Go, locals, IInv, TypeOK, Labels, Codes
<1>2. ~misused'
  BY DEF Finish, locals, IInv
<1>3. HandlesAreOwned'
  BY DEF Finish, Go, locals, IInv, HandlesAreOwned, Active, Closed
<1>4. ReadersAreJoined'
  BY DEF Finish, Go, IInv, ReadersAreJoined, Active, Ended, Early, Running
<1>5. ChildIsWithinReach'
  BY DEF Finish, Go, IInv, ChildIsWithinReach, Alive, Early, Running, Trying, Closed
<1>6. ExitIsKnown'
  BY DEF Finish, Go, IInv, ExitIsKnown, Early, Running, Trying
<1>7. OverflowIsReal'
  BY DEF Finish, IInv, OverflowIsReal
<1>8. VerdictIsFounded'
  BY DEF Finish, Go, IInv, VerdictIsFounded, Complete, AllEnded, Ended, Overflowed, Early,
     Running, Trying
<1>9. ProfileIsKnown'
  BY DEF Finish, Go, IInv, ProfileIsKnown
<1> QED
  BY <1>1, <1>2, <1>3, <1>4, <1>5, <1>6, <1>7, <1>8, <1>9 DEF IInv

LEMMA StartReaderStep == ASSUME NEW s \in Streams, NEW label, NEW next, IInv, StartReader(s, label, next),
         <<s, label, next>> \in {<<"stdout", "starting_stdout", "starting_stderr">>,
                               <<"stderr", "starting_stderr", "resuming">>}
  PROVE IInv'
<1>1. TypeOK'
  <2>1. /\ pc' \in Labels /\ op' \in Operations /\ verdict' \in Codes
        /\ errors' \in BOOLEAN /\ result' \in Codes /\ messages' \subseteq {"memory", "cpu"}
        /\ profile' \in [registered : BOOLEAN, files : BOOLEAN] /\ container' \in BOOLEAN
    BY DEF StartReader, Raise, Go, IInv, TypeOK, Labels, Codes
  <2>2. held' \subseteq Handles /\ open' \subseteq Handles /\ misused' \in BOOLEAN
    BY DEF StartReader, IInv, TypeOK
  <2>3. child' \in Children
    BY DEF StartReader, IInv, TypeOK
  <2>4. /\ written' \in [Streams -> 0 .. Limit + 1] /\ reader' \in [Streams -> Readers]
        /\ \A q \in Streams : reader'[q].data <= written'[q]
    BY DEF StartReader, IInv, TypeOK, Readers, Streams
  <2>5. join' \in [Streams -> BOOLEAN]
    BY SizesAssumption DEF StartReader, Raise, Go, locals, Api, IInv, TypeOK, Streams
  <2>6. seen' \in Observations
    BY DEF StartReader, IInv, TypeOK
  <2> QED
    BY <2>1, <2>2, <2>3, <2>4, <2>5, <2>6 DEF TypeOK
<1>2. ~misused'
  BY DEF StartReader, IInv
<1>3. HandlesAreOwned'
  BY DEF StartReader, Raise, Go, IInv, TypeOK, HandlesAreOwned, Active, ParentEnd, ParentEnds,
     Readers, Closed
<1>4. ReadersAreJoined'
  BY DEF StartReader, Raise, Go, IInv, TypeOK, ReadersAreJoined, Active, Readers, Streams,
     Early, Running
<1>5. ChildIsWithinReach'
  <2>1. /\ pc \in {"starting_stdout", "starting_stderr"}
        /\ pc' \in {"starting_stderr", "resuming", "ending_process"}
        /\ UNCHANGED << child, seen, errors >>
    BY DEF StartReader, Go, Raise
  <2>2. "job" \in held' /\ "process" \in held' <=> "job" \in held /\ "process" \in held
    BY DEF StartReader, ParentEnd
  <2>3. /\ child.state = "suspended" /\ child.inJob /\ "job" \in held /\ "process" \in held
        /\ (seen.confirmed => child.state = "dead")
    BY <2>1 DEF IInv, ChildIsWithinReach, HandlesAreOwned, Alive, Trying
  <2> QED
    BY <2>1, <2>2, <2>3 DEF ChildIsWithinReach, Early, Closed
<1>6. ExitIsKnown'
  BY DEF StartReader, Raise, Go, IInv, ExitIsKnown, ChildIsWithinReach
<1>7. OverflowIsReal'
  BY DEF StartReader, Go, IInv, TypeOK, OverflowIsReal, Readers
<1>8. VerdictIsFounded'
  BY DEF StartReader, Raise, Go, IInv, VerdictIsFounded, Early, Running, Trying
<1>9. ProfileIsKnown'
  BY DEF StartReader, Raise, Go, IInv, ProfileIsKnown, VerdictIsFounded, Trying
<1> QED
  BY <1>1, <1>2, <1>3, <1>4, <1>5, <1>6, <1>7, <1>8, <1>9 DEF IInv

LEMMA ChildExitsStep == ASSUME IInv, ChildExits PROVE IInv'
<1>1. TypeOK'
  <2>1. /\ pc' \in Labels /\ op' \in Operations /\ verdict' \in Codes
        /\ errors' \in BOOLEAN /\ result' \in Codes /\ messages' \subseteq {"memory", "cpu"}
        /\ profile' \in [registered : BOOLEAN, files : BOOLEAN] /\ container' \in BOOLEAN
        /\ written' \in [Streams -> 0 .. Limit + 1] /\ reader' \in [Streams -> Readers]
        /\ \A q \in Streams : reader'[q].data <= written'[q]
        /\ join' \in [Streams -> BOOLEAN]
        /\ seen' \in Observations
    BY DEF ChildExits, IInv, TypeOK
  <2>2. held' \subseteq Handles /\ open' \subseteq Handles /\ misused' \in BOOLEAN
    BY DEF ChildExits, locals, IInv, TypeOK
  <2>3. child' \in Children
    BY SizesAssumption DEF ChildExits, locals, IInv, TypeOK, Children, Exits
  <2> QED
    BY <2>1, <2>2, <2>3 DEF TypeOK
<1>2. ~misused'
  BY DEF ChildExits, locals, IInv
<1>3. HandlesAreOwned'
  BY DEF ChildExits, locals, IInv, HandlesAreOwned, Active
<1>4. ReadersAreJoined'
  BY DEF ChildExits, IInv, ReadersAreJoined, Active, AllEnded, Ended
<1>5. ChildIsWithinReach'
  BY DEF ChildExits, locals, IInv, ChildIsWithinReach, Alive
<1>6. ExitIsKnown'
  BY DEF ChildExits, IInv, ExitIsKnown
<1>7. OverflowIsReal'
  BY DEF ChildExits, IInv, OverflowIsReal
<1>8. VerdictIsFounded'
  BY DEF ChildExits, IInv, VerdictIsFounded, Complete, ExitIsKnown, AllEnded, Ended,
     Overflowed
<1>9. ProfileIsKnown'
  BY DEF ChildExits, IInv, ProfileIsKnown
<1> QED
  BY <1>1, <1>2, <1>3, <1>4, <1>5, <1>6, <1>7, <1>8, <1>9 DEF IInv

LEMMA RefuseMemoryStep == ASSUME IInv, RefuseMemory PROVE IInv'
<1>1. TypeOK'
  BY DEF RefuseMemory, locals, IInv, TypeOK
<1>2. ~misused'
  BY DEF RefuseMemory, locals, IInv
<1>3. HandlesAreOwned'
  BY DEF RefuseMemory, locals, IInv, HandlesAreOwned, Active
<1>4. ReadersAreJoined'
  BY DEF RefuseMemory, IInv, ReadersAreJoined, Active, AllEnded, Ended
<1>5. ChildIsWithinReach'
  BY DEF RefuseMemory, locals, IInv, ChildIsWithinReach, Alive
<1>6. ExitIsKnown'
  BY DEF RefuseMemory, IInv, ExitIsKnown
<1>7. OverflowIsReal'
  BY DEF RefuseMemory, IInv, OverflowIsReal
<1>8. VerdictIsFounded'
  BY DEF RefuseMemory, IInv, VerdictIsFounded, Complete, AllEnded, Ended, Overflowed
<1>9. ProfileIsKnown'
  BY DEF RefuseMemory, IInv, ProfileIsKnown
<1> QED
  BY <1>1, <1>2, <1>3, <1>4, <1>5, <1>6, <1>7, <1>8, <1>9 DEF IInv

LEMMA EndCpuTimeStep == ASSUME IInv, EndCpuTime PROVE IInv'
<1>1. TypeOK'
  <2>1. /\ pc' \in Labels /\ op' \in Operations /\ verdict' \in Codes
        /\ errors' \in BOOLEAN /\ result' \in Codes /\ messages' \subseteq {"memory", "cpu"}
        /\ profile' \in [registered : BOOLEAN, files : BOOLEAN] /\ container' \in BOOLEAN
        /\ written' \in [Streams -> 0 .. Limit + 1] /\ reader' \in [Streams -> Readers]
        /\ \A q \in Streams : reader'[q].data <= written'[q]
        /\ join' \in [Streams -> BOOLEAN]
        /\ seen' \in Observations
    BY DEF EndCpuTime, IInv, TypeOK
  <2>2. held' \subseteq Handles /\ open' \subseteq Handles /\ misused' \in BOOLEAN
    BY DEF EndCpuTime, locals, IInv, TypeOK
  <2>3. child' \in Children
    BY SizesAssumption DEF EndCpuTime, locals, IInv, TypeOK, Children, Exits
  <2> QED
    BY <2>1, <2>2, <2>3 DEF TypeOK
<1>2. ~misused'
  BY DEF EndCpuTime, locals, IInv
<1>3. HandlesAreOwned'
  BY DEF EndCpuTime, locals, IInv, HandlesAreOwned, Active
<1>4. ReadersAreJoined'
  BY DEF EndCpuTime, IInv, ReadersAreJoined, Active, AllEnded, Ended
<1>5. ChildIsWithinReach'
  BY DEF EndCpuTime, locals, IInv, ChildIsWithinReach, Alive
<1>6. ExitIsKnown'
  BY DEF EndCpuTime, IInv, ExitIsKnown
<1>7. OverflowIsReal'
  BY DEF EndCpuTime, IInv, OverflowIsReal
<1>8. VerdictIsFounded'
  BY DEF EndCpuTime, IInv, VerdictIsFounded, Complete, ExitIsKnown, AllEnded, Ended,
     Overflowed
<1>9. ProfileIsKnown'
  BY DEF EndCpuTime, IInv, ProfileIsKnown
<1> QED
  BY <1>1, <1>2, <1>3, <1>4, <1>5, <1>6, <1>7, <1>8, <1>9 DEF IInv

LEMMA ChildClosesStep == ASSUME IInv, ChildCloses PROVE IInv'
<1>1. TypeOK'
  <2>1. /\ pc' \in Labels /\ op' \in Operations /\ verdict' \in Codes
        /\ errors' \in BOOLEAN /\ result' \in Codes /\ messages' \subseteq {"memory", "cpu"}
        /\ profile' \in [registered : BOOLEAN, files : BOOLEAN] /\ container' \in BOOLEAN
        /\ written' \in [Streams -> 0 .. Limit + 1] /\ reader' \in [Streams -> Readers]
        /\ \A q \in Streams : reader'[q].data <= written'[q]
        /\ join' \in [Streams -> BOOLEAN]
        /\ seen' \in Observations
    BY DEF ChildCloses, IInv, TypeOK
  <2>2. held' \subseteq Handles /\ open' \subseteq Handles /\ misused' \in BOOLEAN
    BY DEF ChildCloses, locals, IInv, TypeOK
  <2>3. child' \in Children
    BY SizesAssumption DEF ChildCloses, locals, IInv, TypeOK, Children, Exits
  <2> QED
    BY <2>1, <2>2, <2>3 DEF TypeOK
<1>2. ~misused'
  BY DEF ChildCloses, locals, IInv
<1>3. HandlesAreOwned'
  BY DEF ChildCloses, locals, IInv, HandlesAreOwned, Active
<1>4. ReadersAreJoined'
  BY DEF ChildCloses, IInv, ReadersAreJoined, Active, AllEnded, Ended
<1>5. ChildIsWithinReach'
  BY DEF ChildCloses, locals, IInv, ChildIsWithinReach, Alive
<1>6. ExitIsKnown'
  BY DEF ChildCloses, IInv, ExitIsKnown
<1>7. OverflowIsReal'
  BY DEF ChildCloses, IInv, OverflowIsReal
<1>8. VerdictIsFounded'
  BY DEF ChildCloses, IInv, VerdictIsFounded, Complete, ExitIsKnown
<1>9. ProfileIsKnown'
  BY DEF ChildCloses, IInv, ProfileIsKnown
<1> QED
  BY <1>1, <1>2, <1>3, <1>4, <1>5, <1>6, <1>7, <1>8, <1>9 DEF IInv

LEMMA DieStep == ASSUME IInv, Die PROVE IInv'
<1>1. TypeOK'
  <2>1. /\ pc' \in Labels /\ op' \in Operations /\ verdict' \in Codes
        /\ errors' \in BOOLEAN /\ result' \in Codes /\ messages' \subseteq {"memory", "cpu"}
        /\ profile' \in [registered : BOOLEAN, files : BOOLEAN] /\ container' \in BOOLEAN
        /\ written' \in [Streams -> 0 .. Limit + 1] /\ reader' \in [Streams -> Readers]
        /\ \A q \in Streams : reader'[q].data <= written'[q]
        /\ join' \in [Streams -> BOOLEAN]
        /\ seen' \in Observations
    BY DEF Die, IInv, TypeOK
  <2>2. held' \subseteq Handles /\ open' \subseteq Handles /\ misused' \in BOOLEAN
    BY DEF Die, locals, IInv, TypeOK
  <2>3. child' \in Children
    BY SizesAssumption DEF Die, locals, IInv, TypeOK, Children, Exits
  <2> QED
    BY <2>1, <2>2, <2>3 DEF TypeOK
<1>2. ~misused'
  BY DEF Die, locals, IInv
<1>3. HandlesAreOwned'
  BY DEF Die, locals, IInv, HandlesAreOwned, Active
<1>4. ReadersAreJoined'
  BY DEF Die, IInv, ReadersAreJoined, Active, AllEnded, Ended
<1>5. ChildIsWithinReach'
  BY DEF Die, locals, IInv, ChildIsWithinReach, Alive
<1>6. ExitIsKnown'
  BY DEF Die, IInv, ExitIsKnown, Overflowed
<1>7. OverflowIsReal'
  BY DEF Die, IInv, OverflowIsReal
<1>8. VerdictIsFounded'
  BY DEF Die, IInv, VerdictIsFounded, Complete, ExitIsKnown, AllEnded, Ended, Overflowed
<1>9. ProfileIsKnown'
  BY DEF Die, IInv, ProfileIsKnown
<1> QED
  BY <1>1, <1>2, <1>3, <1>4, <1>5, <1>6, <1>7, <1>8, <1>9 DEF IInv

LEMMA ChildWritesStep == ASSUME NEW s \in Streams, IInv, ChildWrites(s) PROVE IInv'
<1>1. TypeOK'
  BY SizesAssumption DEF ChildWrites, locals, IInv, TypeOK, Readers
<1>2. ~misused'
  BY DEF ChildWrites, locals, IInv
<1>3. HandlesAreOwned'
  BY DEF ChildWrites, locals, IInv, HandlesAreOwned, Active
<1>4. ReadersAreJoined'
  BY DEF ChildWrites, IInv, ReadersAreJoined, Active, AllEnded, Ended
<1>5. ChildIsWithinReach'
  BY DEF ChildWrites, locals, IInv, ChildIsWithinReach, Alive
<1>6. ExitIsKnown'
  BY DEF ChildWrites, IInv, ExitIsKnown
<1>7. OverflowIsReal'
  BY SizesAssumption DEF ChildWrites, IInv, TypeOK, OverflowIsReal
<1>8. VerdictIsFounded'
  BY SizesAssumption DEF ChildWrites, IInv, TypeOK, VerdictIsFounded, Complete, AllEnded,
     Ended, Overflowed
<1>9. ProfileIsKnown'
  BY DEF ChildWrites, IInv, ProfileIsKnown
<1> QED
  BY <1>1, <1>2, <1>3, <1>4, <1>5, <1>6, <1>7, <1>8, <1>9 DEF IInv

LEMMA ReaderReadsStep == ASSUME NEW s \in Streams, IInv, ReaderReads(s) PROVE IInv'
<1>1. TypeOK'
  <2>1. pc' \in Labels /\ op' \in Operations /\ verdict' \in Codes
    BY DEF ReaderReads, IInv, TypeOK
  <2>2. errors' \in BOOLEAN /\ result' \in Codes /\ messages' \subseteq {"memory", "cpu"}
    BY DEF ReaderReads, IInv, TypeOK
  <2>3. held' \subseteq Handles /\ open' \subseteq Handles /\ misused' \in BOOLEAN
    BY DEF ReaderReads, locals, IInv, TypeOK
  <2>4. profile' \in [registered : BOOLEAN, files : BOOLEAN] /\ container' \in BOOLEAN
    BY DEF ReaderReads, IInv, TypeOK
  <2>5. child' \in Children
    BY DEF ReaderReads, IInv, TypeOK
  <2>6. /\ written' \in [Streams -> 0 .. Limit + 1] /\ reader' \in [Streams -> Readers]
        /\ \A q \in Streams : reader'[q].data <= written'[q]
    <3>1. /\ written \in [Streams -> 0 .. Limit + 1] /\ written' = written
          /\ reader \in [Streams -> Readers] /\ reader[s].data <= written[s]
          /\ \A q \in Streams : reader[q].data <= written[q]
      BY DEF ReaderReads, IInv, TypeOK
    <3>2. /\ reader[s].data \in 0 .. Limit /\ written[s] \in 0 .. Limit + 1
          /\ written[s] > reader[s].data
      BY <3>1 DEF ReaderReads, Readers
    <3>3. CASE reader[s].data < Limit
      <4>1. reader' = [reader EXCEPT ![s].data = @ + 1]
        BY <3>3 DEF ReaderReads
      <4>2. reader[s].data + 1 \in 0 .. Limit /\ reader[s].data + 1 <= written[s]
        BY <3>2, <3>3, SizesAssumption
      <4> QED
        BY <3>1, <4>1, <4>2 DEF Readers
    <3>4. CASE ~(reader[s].data < Limit)
      <4>1. reader' = [reader EXCEPT ![s].state = "stopping", ![s].overflow = TRUE]
        BY <3>4 DEF ReaderReads
      <4> QED
        BY <3>1, <4>1 DEF Readers
    <3> QED
      BY <3>3, <3>4
  <2>7. join' \in [Streams -> BOOLEAN]
    BY DEF ReaderReads, IInv, TypeOK
  <2>8. seen' \in Observations
    BY DEF ReaderReads, IInv, TypeOK
  <2> QED
    BY <2>1, <2>2, <2>3, <2>4, <2>5, <2>6, <2>7, <2>8 DEF TypeOK
<1>2. ~misused'
  BY DEF ReaderReads, locals, IInv
<1>3. HandlesAreOwned'
  BY DEF ReaderReads, locals, IInv, TypeOK, HandlesAreOwned, Active
<1>4. ReadersAreJoined'
  BY DEF ReaderReads, IInv, TypeOK, ReadersAreJoined, Active, AllEnded, Ended, Streams
<1>5. ChildIsWithinReach'
  BY DEF ReaderReads, locals, IInv, ChildIsWithinReach, Alive
<1>6. ExitIsKnown'
  BY DEF ReaderReads, IInv, TypeOK, ExitIsKnown, Overflowed
<1>7. OverflowIsReal'
  BY DEF ReaderReads, IInv, TypeOK, OverflowIsReal, Readers
<1>8. VerdictIsFounded'
  BY DEF ReaderReads, IInv, VerdictIsFounded, Complete, AllEnded, Ended
<1>9. ProfileIsKnown'
  BY DEF ReaderReads, IInv, ProfileIsKnown
<1> QED
  BY <1>1, <1>2, <1>3, <1>4, <1>5, <1>6, <1>7, <1>8, <1>9 DEF IInv

LEMMA ReaderStopsStep == ASSUME NEW s \in Streams, IInv, ReaderStops(s) PROVE IInv'
<1>0. (Terminate => Kill) /\ (TerminateJob => KillJob)
  BY TerminationKills DEF IInv
<1>1. TypeOK'
  BY <1>0 DEF ReaderStops, locals, Kill, KillJob, IInv, TypeOK, Readers
<1>2. ~misused'
  BY DEF ReaderStops, locals, IInv
<1>3. HandlesAreOwned'
  BY DEF ReaderStops, locals, IInv, HandlesAreOwned, Active
<1>4. ReadersAreJoined'
  BY DEF ReaderStops, IInv, ReadersAreJoined, Active, AllEnded, Ended
<1>5. ChildIsWithinReach'
  BY SizesAssumption, <1>0 DEF ReaderStops, locals, Kill, KillJob, Alive, IInv,
     OverflowIsReal, ChildIsWithinReach
<1>6. ExitIsKnown'
  BY <1>0 DEF ReaderStops, Kill, KillJob, Alive, IInv, ExitIsKnown, OverflowIsReal, Overflowed
<1>7. OverflowIsReal'
  BY <1>0 DEF ReaderStops, Kill, KillJob, IInv, OverflowIsReal
<1>8. VerdictIsFounded'
  BY <1>0 DEF ReaderStops, Kill, KillJob, Alive, IInv, VerdictIsFounded, Complete,
     ExitIsKnown, AllEnded, Ended
<1>9. ProfileIsKnown'
  BY DEF ReaderStops, IInv, ProfileIsKnown
<1> QED
  BY <1>1, <1>2, <1>3, <1>4, <1>5, <1>6, <1>7, <1>8, <1>9 DEF IInv

LEMMA ReaderEndsStep == ASSUME NEW s \in Streams, IInv, ReaderEnds(s) PROVE IInv'
<1>1. TypeOK'
  BY DEF ReaderEnds, IInv, TypeOK, Readers
<1>2. ~misused'
  BY DEF ReaderEnds, IInv, TypeOK, HandlesAreOwned, Active
<1>3. HandlesAreOwned'
  BY DEF ReaderEnds, IInv, TypeOK, HandlesAreOwned, Active, ParentEnd, Streams
<1>4. ReadersAreJoined'
  BY DEF ReaderEnds, IInv, ReadersAreJoined, Active, AllEnded, Ended
<1>5. ChildIsWithinReach'
  BY DEF ReaderEnds, Alive, IInv, ChildIsWithinReach
<1>6. ExitIsKnown'
  BY DEF ReaderEnds, IInv, ExitIsKnown, Overflowed
<1>7. OverflowIsReal'
  BY DEF ReaderEnds, IInv, OverflowIsReal
<1>8. VerdictIsFounded'
  BY DEF ReaderEnds, IInv, VerdictIsFounded, Complete, AllEnded, Ended
<1>9. ProfileIsKnown'
  BY DEF ReaderEnds, IInv, ProfileIsKnown
<1> QED
  BY <1>1, <1>2, <1>3, <1>4, <1>5, <1>6, <1>7, <1>8, <1>9 DEF IInv

LEMMA NextIInv == IInv /\ [Next]_vars => IInv'
<1> SUFFICES ASSUME IInv, [Next]_vars PROVE IInv'
  OBVIOUS
<1>1. CASE UNCHANGED vars
  BY <1>1 DEF vars, IInv, TypeOK, HandlesAreOwned, ReadersAreJoined, ChildIsWithinReach,
     ExitIsKnown, OverflowIsReal, VerdictIsFounded, ProfileIsKnown, Complete, Overflowed,
     AllEnded, Ended, Active, Alive
<1>2. CASE Parent
  <2>1. ASSUME StartReader("stdout", "starting_stdout", "starting_stderr") PROVE IInv'
    BY <2>1, StartReaderStep DEF Streams
  <2>2. ASSUME StartReader("stderr", "starting_stderr", "resuming") PROVE IInv'
    BY <2>2, StartReaderStep DEF Streams
  <2> QED
    BY <1>2, <2>1, <2>2, PrepareStep, ConfigureJobStep, MakePipesStep, CreateChildStep,
       AssignStep, ResumeStep, WriteRequestStep, ProbeReadyStep, ProbeCloseJobStep,
       WaitStep, ExamineStep, JoinReadersStep, JudgeStep, ReadArtifactsStep, EndProcessStep,
       EndJobStep, EmptyJobStep, CloseHandlesStep, JoinAgainStep, EraseProfileStep,
       FinishStep DEF Parent
<1>3. CASE Child
  BY <1>3, ChildExitsStep, RefuseMemoryStep, EndCpuTimeStep, ChildClosesStep, DieStep,
     ChildWritesStep DEF Child
<1>4. CASE \E s \in Streams : Reader(s)
  BY <1>4, ReaderReadsStep, ReaderStopsStep, ReaderEndsStep DEF Reader
<1> QED
  BY <1>1, <1>2, <1>3, <1>4 DEF Next

(* The inductive invariant holds in every reachable state.                   *)
THEOREM Invariance == Spec => []IInv
BY InitIInv, NextIInv, PTL DEF Spec

(* Every variable keeps its type, whatever the child writes or the kernel    *)
(* answers: the readers never hold more than the limit.                      *)
THEOREM TypeCorrect == Spec => []TypeOK
<1>1. IInv => TypeOK
  BY DEF IInv
<1> QED
  BY Invariance, <1>1, PTL

(* A call that reports no failed cleanup leaves no process, no profile and   *)
(* no reader it could have joined.                                           *)
THEOREM NothingEverSurvives == Spec => []NothingSurvives
<1>1. IInv => NothingSurvives
  <2> SUFFICES ASSUME IInv, pc = "done", result # "CLEANUP"
               PROVE  /\ ~Alive
                      /\ ~profile.registered /\ ~profile.files
                      /\ seen.alive \/ \A s \in Streams : reader[s].state \in {"none", "done"}
    BY DEF NothingSurvives
  <2>1. ~errors /\ verdict # "CLEANUP"
    BY DEF IInv, VerdictIsFounded
  <2>2. ~Alive
    BY <2>1 DEF IInv, ChildIsWithinReach, Closed
  <2>3. ~profile.registered /\ ~profile.files
    BY <2>1 DEF IInv, ProfileIsKnown
  <2>4. ASSUME NEW s \in Streams, ~seen.alive PROVE reader[s].state \in {"none", "done"}
    <3>1. ~Active(s)
      BY <2>1, <2>4 DEF IInv, ReadersAreJoined, Active, Ended
    <3>2. reader[s].state \in {"none", "reading", "stopping", "closing", "done"}
      BY DEF IInv, TypeOK, Readers
    <3> QED
      BY <3>1, <3>2 DEF Active
  <2>5. seen.alive \in BOOLEAN
    BY DEF IInv, TypeOK, Observations
  <2> QED
    BY <2>2, <2>3, <2>4
<1> QED
  BY Invariance, <1>1, PTL

(* Every handle is closed once, by the parent or by the reader that was      *)
(* handed it; when the call is over only readers still own one.              *)
THEOREM HandlesAlwaysClosedOnce == Spec => []HandlesClosedOnce
<1>1. IInv => HandlesClosedOnce
  <2> SUFFICES ASSUME IInv PROVE HandlesClosedOnce
    OBVIOUS
  <2>1. ASSUME pc = "done"
        PROVE  open \subseteq {ParentEnd(s) : s \in {x \in Streams : ~Ended(x)}}
    <3>1. open = {ParentEnd(s) : s \in {x \in Streams : Active(x)}}
      BY <2>1 DEF IInv, HandlesAreOwned, Closed
    <3>2. \A x \in Streams : Active(x) => ~Ended(x)
      BY DEF Active, Ended
    <3> QED
      BY <3>1, <3>2
  <2> QED
    BY <2>1 DEF IInv, HandlesClosedOnce
<1> QED
  BY Invariance, <1>1, PTL

(* A result is the whole answer of a child that ended well within the        *)
(* limits, and a failure is reported as what it was.                         *)
THEOREM VerdictAlwaysTrue == Spec => []VerdictIsTrue
<1>1. IInv => VerdictIsTrue
  <2> SUFFICES ASSUME IInv, pc = "done" PROVE VerdictIsTrue
    BY DEF VerdictIsTrue
  <2>1. result = IF errors THEN "CLEANUP" ELSE verdict
    BY DEF IInv, VerdictIsFounded
  <2>2. CASE errors
    BY <2>1, <2>2 DEF VerdictIsTrue
  <2>3. CASE ~errors
    <3>1. result = verdict /\ ~Alive
      BY <2>1, <2>3 DEF IInv, ChildIsWithinReach, Closed
    <3>2. result = "OK" => Complete
      BY DEF IInv, VerdictIsFounded
    <3>3. /\ result = "OUTPUT_LIMIT" => \E s \in Streams : written[s] > Limit
          /\ result = "CPU" => child.exit = "cpu"
          /\ result = "MEMORY" => "memory" \in messages /\ child.exit \in {"nonzero", "cpu"}
      BY DEF IInv, VerdictIsFounded
    <3>4. (result = "TIMEOUT" /\ op = "work") => child.exit = "killed"
      BY <3>1 DEF IInv, VerdictIsFounded, ExitIsKnown, Alive
    <3>5. (Overflowed /\ ~seen.alive /\ op = "work") =>
              result \in {"OUTPUT_LIMIT", "CLEANUP", "UNAVAILABLE", "OTHER"}
      BY DEF IInv, TypeOK, Codes, VerdictIsFounded, Early, Running, Trying
    <3> QED
      BY <3>2, <3>3, <3>4, <3>5 DEF VerdictIsTrue, Complete
  <2> QED
    BY <2>2, <2>3
<1> QED
  BY Invariance, <1>1, PTL
=============================================================================

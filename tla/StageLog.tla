------------------------------ MODULE StageLog ------------------------------
(***************************************************************************)
(* What a job ledger promises its readers: a log of stage commitments that *)
(* is opened once and from then on only ever grows by one entry.  Nothing  *)
(* is said of files, locks or hashes; JobLedger implements this.           *)
(***************************************************************************)
EXTENDS Naturals, Sequences

CONSTANTS
    Contents,      \* the contents a stage can commit to
    NoContent,     \* the content of the first entry, which commits to nothing
    MaxEntries     \* how many stages a job has

VARIABLE log

Openings ==
    {<<NoContent>>} \cup {<<NoContent, c, d>> : c, d \in Contents}

Init == log = << >>

(* A new job opens with its first entry, a rerun with the two it reuses.   *)
Open == /\ log = << >>
        /\ log' \in Openings

Extend == /\ log # << >>
          /\ Len(log) < MaxEntries
          /\ \E c \in Contents : log' = Append(log, c)

Next == Open \/ Extend

Spec == Init /\ [][Next]_log
=============================================================================

---------------------------- MODULE Publication ----------------------------
(***************************************************************************)
(* What delivery promises the user's folder: a name that is free is taken  *)
(* once, by a foreign file or by the complete bytes of one validated job,  *)
(* and what stands there is never replaced, truncated or removed.          *)
(***************************************************************************)
CONSTANTS Jobs, Targets, NoFile, Foreign

VARIABLE output

Complete(j) == [job |-> j, whole |-> TRUE]

Init == output = [t \in Targets |-> NoFile]

Appear(t) ==
    /\ output[t] = NoFile
    /\ \E f \in {Foreign} \cup {Complete(j) : j \in Jobs} :
         output' = [output EXCEPT ![t] = f]

Next == \E t \in Targets : Appear(t)

Spec == Init /\ [][Next]_output
=============================================================================

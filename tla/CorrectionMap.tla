--------------------------- MODULE CorrectionMap ---------------------------
(***************************************************************************)
(* What the private correction store promises: a map from the identity of  *)
(* a correction to its status and version, on which every command is one   *)
(* atomic step.  A correction that is there leaves only by a deletion.     *)
(***************************************************************************)
EXTENDS Naturals

CONSTANTS Ids, NoRow

VARIABLE map

Row(status, version) == [status |-> status, version |-> version]

Init == map = [i \in Ids |-> NoRow]

(* A confirmation counts: a correction is never recorded twice.            *)
Record(i) ==
    map' = [map EXCEPT ![i] = Row("active", IF @ = NoRow THEN 1 ELSE @.version + 1)]

SetStatus(i, status) ==
    /\ map[i] # NoRow
    /\ map' = [map EXCEPT ![i] = Row(status, @.version + 1)]

Delete(i) == map' = [map EXCEPT ![i] = NoRow]

Clear == map' = [i \in Ids |-> NoRow]

Next ==
    \/ \E i \in Ids : \/ Record(i) \/ Delete(i)
                      \/ \E status \in {"active", "revoked"} : SetStatus(i, status)
    \/ Clear

Spec == Init /\ [][Next]_map
=============================================================================

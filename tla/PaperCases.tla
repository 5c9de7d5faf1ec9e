----------------------------- MODULE PaperCases ------------------------------
(***************************************************************************)
(* What is decided about a paper: how its edition is made of it, and what  *)
(* the callers of the sandbox are told of the stages that run in it, for   *)
(* families of inputs.  The stages that read the paper are calls of their  *)
(* own; MCPaperCases adds them.                                            *)
(***************************************************************************)
EXTENDS EditionCases, SandboxCases

CONSTANT InputFamilies

(* The calls among the inputs are calls that are made.                     *)
ASSUME FamiliesAssumption ==
    \A family \in InputFamilies : \A c \in family :
        /\ c.call = "sandbox" => IsSandboxCall(c)
        /\ c.call = "pack" => IsGraph(c.graph)
        /\ c.call = "finalize" => IsPaper(c.paper)

Init ==
    /\ \E family \in InputFamilies : input \in family
    /\ result = Pending

Next == Editing \/ AskSandbox

Spec == Init /\ [][Next]_vars
=============================================================================

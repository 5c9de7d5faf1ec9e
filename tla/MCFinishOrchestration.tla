------------------------ MODULE MCFinishOrchestration ------------------------
(* Small instances of FinishOrchestration for TLC.                         *)
EXTENDS FinishOrchestration, TLC

CONSTANTS f1, f2, t1, t2

(* A user who runs finish twice, one command at a time under every fault;  *)
(* and two users at once, with sweeps.                                     *)
MCSettings ==
    {[overlap |-> FALSE, debug |-> BOOLEAN, outputs |-> {t1, t2},
      finishes |-> (f1 :> 2 @@ f2 :> 0), faults |-> {"crash", "io", "interrupt"}],
     [overlap |-> TRUE, debug |-> {FALSE}, outputs |-> {t1},
      finishes |-> (f1 :> 1 @@ f2 :> 1), faults |-> {"io"}]}
=============================================================================

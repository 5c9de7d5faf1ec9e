-------------------------- MODULE MCCorrectionStore --------------------------
(* Small instances of CorrectionStore for TLC.                             *)
EXTENDS CorrectionStore, TLC

CONSTANTS t1, t2, t3, s1, s2, p1, p2

(* Two threads share an object, a third has its own, all in one process.   *)
SharedObject == (t1 :> s1) @@ (t2 :> s1) @@ (t3 :> s2)
OneProcess == (s1 :> p1) @@ (s2 :> p1)

(* Two commands of the command line: a process and an object each.         *)
OwnObjects == (t1 :> s1) @@ (t2 :> s2)
TwoProcesses == (s1 :> p1) @@ (s2 :> p2)

SwapIds == Permutations(Ids)
SwapAll == Permutations({t1, t2}) \cup SwapIds
=============================================================================

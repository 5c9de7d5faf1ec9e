-------------------------- MODULE MCManagedDelivery --------------------------
(* Small instances of ManagedDelivery for TLC.                             *)
EXTENDS ManagedDelivery, TLC

CONSTANTS d1, d2, j1, j2

(* Two calls that share one job, of which one can also deliver its own: as *)
(* finish runs deliver their attempts and scripts/deliver.py any job.      *)
MixedJobs == (d1 :> {j1} @@ d2 :> {j1, j2})

SharedJob == (d1 :> {j1} @@ d2 :> {j1})

OneDeliverer == (d1 :> {j1})

SwapTargets == Permutations(Targets)
=============================================================================

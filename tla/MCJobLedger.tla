---------------------------- MODULE MCJobLedger ----------------------------
(* Small instances of JobLedger for TLC.                                   *)
EXTENDS JobLedger, TLC

Symmetry == Permutations(Writers) \cup Permutations(Contents)
=============================================================================

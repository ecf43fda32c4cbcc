---------------------------- MODULE MCCliTokenCache ----------------------------
(* Small instances of CliTokenCache for TLC.                               *)
EXTENDS CliTokenCache, TLC

(* Process slots are interchangeable.                                      *)
ProcSymmetry == Permutations(Procs)
=============================================================================

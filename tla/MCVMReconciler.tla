--------------------------- MODULE MCVMReconciler ---------------------------
(* Small instances of VMReconciler for TLC.                                *)
EXTENDS VMReconciler

CONSTANTS s1, s2
=============================================================================

--------------------------- MODULE MCConsoleSession ---------------------------
(* Small instances of ConsoleSession for TLC.                              *)
EXTENDS ConsoleSession
=============================================================================

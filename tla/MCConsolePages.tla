---------------------------- MODULE MCConsolePages ----------------------------
(* Small instances of ConsolePages for TLC.                                *)
EXTENDS ConsolePages

(* Objects that are there at first have been given versions one by one.    *)
OneByOne ==
  CHOOSE f \in [Names -> 1..Cardinality(Names)] : \A m, n \in Names : f[m] = f[n] => m = n
=============================================================================

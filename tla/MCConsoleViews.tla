---------------------------- MODULE MCConsoleViews ----------------------------
(* Small instances of ConsoleViews for TLC.                                *)
EXTENDS ConsoleViews

SomeCores == {4, 65}  \* the empty form has 2
SomeMemories == {"", "4Gi"}
SomeSizes == {"10Gi"}
SomeImages == {"debian-12"}
SomeCounts == {-1, 0, 1}
SomeKeys == {"", "ssh-ed25519 AAAA"}
OfferedImages == {"ubuntu-22.04", "ubuntu-24.04", "debian-12", "flatcar"}

(* A form does not look at a status: the run varies one at a time.         *)
OneAtATime == mode' # "none" => status' = NoStatus /\ cluster' = {}
=============================================================================

--------------------------- MODULE MCPlatformLogin ---------------------------
(* A small instance of PlatformLogin for TLC: the logins of two users.     *)
EXTENDS PlatformLogin, TLC

CONSTANTS l1, l2, alice, bob, wsA, wsB

NameOf == [u \in Users |-> IF u = alice THEN wsA ELSE wsB]
UserOfLogin == [l \in Logins |-> IF l = l1 THEN alice ELSE bob]

SlotSymmetry == Permutations(Requests)
=============================================================================

----------------------------- MODULE MCLoginFlow -----------------------------
(* Small instances of LoginFlow for TLC.                                   *)
EXTENDS LoginFlow, TLC

CONSTANTS l1, l2, alice, bob

AllLogins == {l1, l2}
UserOfLogin == [l \in Logins |-> IF l = l1 THEN alice ELSE bob]

SlotSymmetry == Permutations(Exchanges) \cup Permutations(Requests)
=============================================================================

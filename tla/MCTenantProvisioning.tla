------------------------ MODULE MCTenantProvisioning ------------------------
(* A small instance of TenantProvisioning for TLC.                         *)
EXTENDS TenantProvisioning

CONSTANTS alice, bob, wsA, wsB

TwoUsers == {alice, bob}
TwoWorkspaces == {wsA, wsB}

(* A collision-free naming of the users of the instance.                   *)
NameOf == [u \in Users |-> IF u = alice THEN wsA ELSE wsB]
=============================================================================
